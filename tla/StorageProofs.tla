--------------------------- MODULE StorageProofs ----------------------------
(***************************************************************************)
(* What the rows keep, for every set of ids, priorities and chains: their  *)
(* types, the tombstones, and the implications of the tags.  For every     *)
(* graph of tags and every batch, the validator's overlay of the batch on  *)
(* its snapshot is the state of the rows, and what is committed, by a      *)
(* batch or by a single delete that is not validated, is an acyclic graph  *)
(* without dangling edges under which every card is closed.                *)
(*                                                                         *)
(* The store implements ServerList: a commit is one step of the list,      *)
(* whatever its items did to one entity one after the other, and nothing   *)
(* else shows in the list.  No two contents of the store ever have the     *)
(* same root, and the rows of the versions are one chain per live entity.  *)
(***************************************************************************)
EXTENDS Storage, TLAPS, WellFoundedInduction

\* A push that passes every check has at least one version.
LEMMA OkChainNonEmpty ==
    ASSUME NEW d, NEW table, NEW versions, NEW chain,
           ChainError(d, table, versions, chain) = "Ok"
    PROVE  chain # << >>
  BY DEF ChainError

\* The last version of a non-empty chain is one of its versions.
LEMMA LastOfTyped ==
    ASSUME NEW S, NEW chain \in Seq(S), chain # << >>
    PROVE  Len(chain) \in DOMAIN chain /\ LastOf(chain) \in S
  BY DEF LastOf

LEMMA PushCardsTyped ==
    ASSUME NEW d \in Tables, NEW chain \in CardChains,
           PushCardsError(d, chain) = "Ok"
    PROVE  PushCards(d, chain) \in Tables
<1>1. chain \in Seq(CardVersion)
  BY CardChainsTyped
<1>2. chain # << >>
  BY OkChainNonEmpty DEF PushCardsError
<1>3. LastOf(chain) \in CardVersion
  BY <1>1, <1>2, LastOfTyped
<1>4. InsertVersions(d.cardVersions, chain) \in SUBSET CardRow
  BY <1>1 DEF InsertVersions, CardRow, Tables
<1>5. ReplaceCard(d.cards, LastOf(chain)) \in SUBSET CardRow
  BY <1>3 DEF ReplaceCard, CardRow, Tables
<1>6. QED
  BY <1>4, <1>5 DEF PushCards, Tables

LEMMA PushTagsTyped ==
    ASSUME NEW d \in Tables, NEW chain \in TagChains,
           PushTagsError(d, chain) = "Ok"
    PROVE  PushTags(d, chain) \in Tables
<1>1. chain \in Seq(TagVersion)
  BY TagChainsTyped
<1>2. chain # << >>
  BY OkChainNonEmpty DEF PushTagsError
<1>3. LastOf(chain) \in TagVersion
  BY <1>1, <1>2, LastOfTyped
<1>4. InsertVersions(d.tagVersions, chain) \in SUBSET TagRow
  BY <1>1 DEF InsertVersions, TagRow, Tables
<1>5. ReplaceTag(d.tags, LastOf(chain)) \in SUBSET TagRow
  BY <1>3 DEF ReplaceTag, TagRow, Tables
<1>6. QED
  BY <1>4, <1>5 DEF PushTags, Tables

LEMMA DeletesTyped ==
    ASSUME NEW d \in Tables
    PROVE  /\ \A id \in CardIds : DeleteCard(d, id) \in Tables
           /\ \A id \in TagIds : DeleteTag(d, id) \in Tables
<1>1. ASSUME NEW id \in CardIds \cup TagIds
      PROVE  AddTombstone(d.deleted, id) \in SUBSET DeletedRow
  BY DEF AddTombstone, DeletedRow, Tables
<1>2. QED
  BY <1>1 DEF DeleteCard, DeleteTag, RowsOf, Tables

\* An item that is accepted leaves well-typed tables.
LEMMA ItemEffectTyped ==
    ASSUME NEW d \in Tables, NEW item \in PushItem, ItemError(d, item) = "Ok"
    PROVE  ItemEffect(d, item) \in Tables
<1>1. CASE item \in CardPushes
  BY <1>1, PushCardsTyped DEF ItemEffect, ItemError, CardPushes
<1>2. CASE item \in TagPushes
  BY <1>2, PushTagsTyped DEF ItemEffect, ItemError, TagPushes
<1>3. CASE item \in CardDeletes
  BY <1>3, DeletesTyped DEF ItemEffect, CardDeletes
<1>4. CASE item \in TagDeletes
  BY <1>4, DeletesTyped DEF ItemEffect, TagDeletes
<1>5. QED
  BY <1>1, <1>2, <1>3, <1>4 DEF PushItem

LEMMA RecomputeBucketTyped ==
    ASSUME NEW d \in Tables, NEW b
    PROVE  RecomputeBucket(d, b) \in BucketHash
<1>1. \A r \in d.cards : r.ver.hash \in Seq(CardBody)
  BY DEF Tables, CardRow, CardVersion, VersionsOver
<1>2. \A r \in d.tags : r.ver.hash \in Seq(TagBody)
  BY DEF Tables, TagRow, TagVersion, VersionsOver
<1>3. \A r \in d.deleted : r.id \in CardIds \cup TagIds
  BY DEF Tables, DeletedRow
<1>4. QED
  BY <1>1, <1>2, <1>3 DEF RecomputeBucket, BucketHash

LEMMA RecomputeRootTyped ==
    ASSUME NEW d \in Tables, NEW ids
    PROVE  RecomputeRootForIds(d, ids) \in Tables
<1> DEFINE touched == {BucketOf[id] : id \in ids}
           buckets == [b \in Buckets |-> IF b \in touched THEN RecomputeBucket(d, b)
                                                          ELSE d.buckets[b]]
           root == [hash |-> buckets, sequence |-> d.root.sequence + 1]
<1>1. buckets \in RootHash
  BY RecomputeBucketTyped DEF RootHash, Tables
<1>2. root \in RootState
  BY <1>1 DEF RootState, Tables
<1> HIDE DEF buckets, root
<1>3. [d EXCEPT !.buckets = buckets, !.root = root, !.rootHistory = @ \cup {root}] \in Tables
  BY <1>1, <1>2 DEF Tables
<1>4. QED
  BY <1>3 DEF RecomputeRootForIds, buckets, root, touched

LEMMA StampTyped ==
    ASSUME NEW seq \in Nat, NEW ids
    PROVE  /\ \A T \in SUBSET CardRow : /\ StampRows(T, ids, seq) \in SUBSET CardRow
                                        /\ StampVersions(T, ids, seq) \in SUBSET CardRow
           /\ \A T \in SUBSET TagRow : /\ StampRows(T, ids, seq) \in SUBSET TagRow
                                       /\ StampVersions(T, ids, seq) \in SUBSET TagRow
           /\ \A T \in SUBSET DeletedRow : StampDeleted(T, ids, seq) \in SUBSET DeletedRow
  BY DEF StampRows, StampVersions, StampDeleted, CardRow, TagRow, DeletedRow

LEMMA PublishTyped ==
    ASSUME NEW d \in Tables, NEW items
    PROVE  Publish(d, items) \in Tables
<1> DEFINE e == RecomputeRootForIds(d, {ItemId(items[i]) : i \in DOMAIN items})
<1>1. e \in Tables
  BY RecomputeRootTyped
<1> HIDE DEF e
<1>2. e.root.sequence \in Nat
  BY <1>1 DEF Tables, RootState
<1>3. StampSequences(e, items) \in Tables
  BY <1>1, <1>2, StampTyped DEF StampSequences, Tables
<1>4. QED
  BY <1>3 DEF Publish, e

LEMMA EmptyTyped == EmptyTables \in Tables /\ NoTx \in TxState
<1>1. ZeroRootHash \in RootHash
  BY DEF ZeroRootHash, RootHash, EmptyBucket, BucketHash
<1>2. EmptyTables \in Tables
  BY <1>1 DEF EmptyTables, Tables, RootState
<1>3. QED
  BY <1>2 DEF NoTx, TxState, Kinds

-----------------------------------------------------------------------------

LEMMA TypeInductive == TypeOK /\ [Next]_vars => TypeOK'
<1> SUFFICES ASSUME TypeOK, [Next]_vars PROVE TypeOK'
  OBVIOUS
<1>1. ASSUME NEW kind \in Kinds, Begin(kind) PROVE TypeOK'
  BY <1>1 DEF Begin, TypeOK, TxState
<1>2. ASSUME NEW item \in PushItem, ApplyItem(item) PROVE TypeOK'
  <2>1. ItemEffect(tx.work, item) \in Tables
    BY <1>2, ItemEffectTyped DEF ApplyItem, TypeOK, TxState
  <2>2. Append(tx.items, item) \in Seq(PushItem)
    BY DEF TypeOK, TxState
  <2>3. QED
    BY <1>2, <2>1, <2>2 DEF ApplyItem, TypeOK, TxState
<1>3. ASSUME NEW item \in PushItem, RejectItem(item) PROVE TypeOK'
  BY <1>3, EmptyTyped DEF RejectItem, TypeOK
<1>4. ASSUME RejectBatch PROVE TypeOK'
  BY <1>4, EmptyTyped DEF RejectBatch, TypeOK
<1>5. ASSUME Commit PROVE TypeOK'
  BY <1>5, EmptyTyped, PublishTyped DEF Commit, TypeOK, TxState
<1>6. ASSUME Crash PROVE TypeOK'
  BY <1>6, EmptyTyped DEF Crash, TypeOK
<1>7. ASSUME UNCHANGED vars PROVE TypeOK'
  BY <1>7 DEF vars, TypeOK
<1>8. QED
  BY <1>1, <1>2, <1>3, <1>4, <1>5, <1>6, <1>7 DEF Next

\* The committed tables and the open transaction stay well typed under every
\* operation of the store.
THEOREM TypeCorrect == Spec => []TypeOK
<1>1. Init => TypeOK
  BY EmptyTyped DEF Init, TypeOK
<1>2. QED
  BY <1>1, TypeInductive, PTL DEF Spec

-----------------------------------------------------------------------------
(* Tombstones and live cards.  What holds of the committed tables must hold  *)
(* of the transaction's view too, since a commit publishes that view.  The   *)
(* tombstones a transaction adds are new, so stamping them at the commit     *)
(* leaves the older ones alone; and a committed card the transaction no      *)
(* longer sees has a tombstone in it.                                        *)

DeletedBy(items) == IdsTouched(items, {"deleteCard", "deleteTag"})

IdsOf(deleted) == {r.id : r \in deleted}

DeletedIds(d) == IdsOf(d.deleted)

OldTombstonesSafe ==
    /\ db.deleted \subseteq tx.work.deleted
    /\ \A r \in db.deleted : r.id \notin DeletedBy(tx.items)

NoneVanished == LiveIds(db.cards) \subseteq LiveIds(tx.work.cards) \cup DeletedIds(tx.work)

IInv ==
    /\ TypeOK
    /\ TombstonesExclusiveIn(db)
    /\ tx.open => /\ TombstonesExclusiveIn(tx.work)
                  /\ OldTombstonesSafe
                  /\ NoneVanished

LEMMA PushCardsKeeps ==
    ASSUME NEW d \in Tables, NEW chain \in CardChains, TombstonesExclusiveIn(d),
           PushCardsError(d, chain) = "Ok"
    PROVE  /\ TombstonesExclusiveIn(PushCards(d, chain))
           /\ LiveIds(d.cards) \subseteq LiveIds(PushCards(d, chain).cards)
<1> DEFINE v == LastOf(chain)
<1>1. chain \in Seq(CardVersion) /\ chain # << >>
  BY CardChainsTyped, OkChainNonEmpty DEF PushCardsError
<1>2. v.body.id = chain[1].body.id
  BY <1>1, ChainsOfOneEntity, LastOfTyped DEF LastOf
<1>3. ~IsDeleted(d, v.body.id)
  BY <1>1, <1>2 DEF PushCardsError, ChainError
<1>4. ~PriorityTaken(d, v)
  BY DEF PushCardsError
<1> HIDE DEF v
<1>5. PushCards(d, chain).cards = ReplaceCard(d.cards, v)
  BY DEF PushCards, Tables, v
<1>6. /\ PushCards(d, chain).tags = d.tags
      /\ PushCards(d, chain).deleted = d.deleted
  BY DEF PushCards, Tables
<1>7. LiveIds(ReplaceCard(d.cards, v)) \subseteq LiveIds(d.cards) \cup {v.body.id}
  BY DEF LiveIds, ReplaceCard
<1>8. TombstonesExclusiveIn(PushCards(d, chain))
  BY <1>3, <1>5, <1>6, <1>7 DEF TombstonesExclusiveIn, IsDeleted
<1>9. LiveIds(d.cards) \subseteq LiveIds(ReplaceCard(d.cards, v))
  <2> DEFINE new == [ver |-> v, stamp |-> 0]
  <2>1. new \in ReplaceCard(d.cards, v) /\ new.ver = v
    BY DEF ReplaceCard
  <2>2. ASSUME NEW r \in d.cards, r.ver.body.id # v.body.id
        PROVE  r \in ReplaceCard(d.cards, v)
    BY <1>4, <2>2 DEF ReplaceCard, PriorityTaken
  <2> HIDE DEF new
  <2>3. v.body.id \in LiveIds(ReplaceCard(d.cards, v))
    BY <2>1 DEF LiveIds
  <2>4. ASSUME NEW r \in d.cards
        PROVE  r.ver.body.id \in LiveIds(ReplaceCard(d.cards, v))
    BY <2>2, <2>3 DEF LiveIds
  <2>5. QED
    BY <2>4 DEF LiveIds
<1>10. QED
  BY <1>5, <1>8, <1>9

LEMMA PushTagsKeeps ==
    ASSUME NEW d \in Tables, NEW chain \in TagChains, TombstonesExclusiveIn(d),
           PushTagsError(d, chain) = "Ok"
    PROVE  /\ TombstonesExclusiveIn(PushTags(d, chain))
           /\ PushTags(d, chain).cards = d.cards
<1> DEFINE v == LastOf(chain)
<1>1. chain \in Seq(TagVersion) /\ chain # << >>
  BY TagChainsTyped, OkChainNonEmpty DEF PushTagsError
<1>2. v.body.id = chain[1].body.id
  BY <1>1, ChainsOfOneEntity, LastOfTyped DEF LastOf
<1>3. ~IsDeleted(d, v.body.id)
  BY <1>1, <1>2 DEF PushTagsError, ChainError
<1> HIDE DEF v
<1>4. PushTags(d, chain).tags = ReplaceTag(d.tags, v)
  BY DEF PushTags, Tables, v
<1>5. /\ PushTags(d, chain).cards = d.cards
      /\ PushTags(d, chain).deleted = d.deleted
  BY DEF PushTags, Tables
<1>6. LiveIds(ReplaceTag(d.tags, v)) \subseteq LiveIds(d.tags) \cup {v.body.id}
  BY DEF LiveIds, ReplaceCard, ReplaceTag
<1>7. QED
  BY <1>3, <1>4, <1>5, <1>6 DEF TombstonesExclusiveIn, IsDeleted

LEMMA DeleteCardKeeps ==
    ASSUME NEW d \in Tables, NEW id \in CardIds, TombstonesExclusiveIn(d)
    PROVE  /\ TombstonesExclusiveIn(DeleteCard(d, id))
           /\ LiveIds(d.cards) \subseteq LiveIds(DeleteCard(d, id).cards) \cup {id}
<1>1. /\ DeleteCard(d, id).cards = d.cards \ RowsOf(d.cards, id)
      /\ DeleteCard(d, id).tags = d.tags
      /\ DeleteCard(d, id).deleted = AddTombstone(d.deleted, id)
  BY DEF DeleteCard, Tables
<1>2. id \notin LiveIds(d.tags)
  BY IdsDisjoint DEF LiveIds, Tables, TagRow, TagVersion, VersionsOver, TagBody
<1>3. /\ LiveIds(d.cards \ RowsOf(d.cards, id)) \subseteq LiveIds(d.cards) \ {id}
      /\ LiveIds(d.cards) \subseteq LiveIds(d.cards \ RowsOf(d.cards, id)) \cup {id}
  BY DEF LiveIds, RowsOf
<1>4. \A r \in AddTombstone(d.deleted, id) : r.id = id \/ r \in d.deleted
  BY DEF AddTombstone
<1>5. QED
  BY <1>1, <1>2, <1>3, <1>4 DEF TombstonesExclusiveIn

LEMMA DeleteTagKeeps ==
    ASSUME NEW d \in Tables, NEW id \in TagIds, TombstonesExclusiveIn(d)
    PROVE  /\ TombstonesExclusiveIn(DeleteTag(d, id))
           /\ DeleteTag(d, id).cards = d.cards
<1>1. /\ DeleteTag(d, id).tags = d.tags \ RowsOf(d.tags, id)
      /\ DeleteTag(d, id).cards = d.cards
      /\ DeleteTag(d, id).deleted = AddTombstone(d.deleted, id)
  BY DEF DeleteTag, Tables
<1>2. id \notin LiveIds(d.cards)
  BY IdsDisjoint DEF LiveIds, Tables, CardRow, CardVersion, VersionsOver, CardBody
<1>3. LiveIds(d.tags \ RowsOf(d.tags, id)) \subseteq LiveIds(d.tags) \ {id}
  BY DEF LiveIds, RowsOf
<1>4. \A r \in AddTombstone(d.deleted, id) : r.id = id \/ r \in d.deleted
  BY DEF AddTombstone
<1>5. QED
  BY <1>1, <1>2, <1>3, <1>4 DEF TombstonesExclusiveIn

\* An accepted item loses no card without a tombstone, and leaves tombstones
\* and live rows disjoint.
LEMMA ItemKeeps ==
    ASSUME NEW d \in Tables, NEW item \in PushItem, ItemError(d, item) = "Ok",
           TombstonesExclusiveIn(d)
    PROVE  /\ TombstonesExclusiveIn(ItemEffect(d, item))
           /\ LiveIds(d.cards) \subseteq LiveIds(ItemEffect(d, item).cards)
                                        \cup DeletedIds(ItemEffect(d, item))
<1>1. CASE item \in CardPushes
  BY <1>1, PushCardsKeeps DEF ItemEffect, ItemError, CardPushes
<1>2. CASE item \in TagPushes
  BY <1>2, PushTagsKeeps DEF ItemEffect, ItemError, TagPushes
<1>3. CASE item \in CardDeletes
  <2>1. item.id \in CardIds /\ ItemEffect(d, item) = DeleteCard(d, item.id)
    BY <1>3 DEF ItemEffect, CardDeletes
  <2>2. item.id \in DeletedIds(DeleteCard(d, item.id))
    <3>1. [id |-> item.id, stamp |-> 0] \in AddTombstone(d.deleted, item.id)
      BY DEF AddTombstone
    <3>2. QED
      BY <3>1 DEF DeleteCard, DeletedIds, IdsOf, Tables
  <2>3. QED
    BY <2>1, <2>2, DeleteCardKeeps
<1>4. CASE item \in TagDeletes
  BY <1>4, DeleteTagKeeps DEF ItemEffect, TagDeletes
<1>5. QED
  BY <1>1, <1>2, <1>3, <1>4 DEF PushItem

\* An accepted item keeps the tombstones; a delete adds one for an id that
\* had none.
LEMMA ItemTombstones ==
    ASSUME NEW d \in Tables, NEW item \in PushItem, ItemError(d, item) = "Ok"
    PROVE  /\ d.deleted \subseteq ItemEffect(d, item).deleted
           /\ item.op \in {"deleteCard", "deleteTag"} => ~IsDeleted(d, ItemId(item))
<1>1. CASE item \in CardPushes
  BY <1>1 DEF ItemEffect, CardPushes, PushCards, Tables
<1>2. CASE item \in TagPushes
  BY <1>2 DEF ItemEffect, TagPushes, PushTags, Tables
<1>3. CASE item \in CardDeletes
  <2>1. ~IsDeleted(d, item.id) /\ ItemId(item) = item.id
    BY <1>3 DEF ItemError, CardDeletes, DeleteCardError, ItemId
  <2>2. d.deleted \subseteq AddTombstone(d.deleted, item.id)
    BY <2>1 DEF AddTombstone, IsDeleted
  <2>3. QED
    BY <1>3, <2>1, <2>2 DEF ItemEffect, CardDeletes, DeleteCard, Tables
<1>4. CASE item \in TagDeletes
  <2>1. ~IsDeleted(d, item.id) /\ ItemId(item) = item.id
    BY <1>4 DEF ItemError, TagDeletes, DeleteTagError, ItemId
  <2>2. d.deleted \subseteq AddTombstone(d.deleted, item.id)
    BY <2>1 DEF AddTombstone, IsDeleted
  <2>3. QED
    BY <1>4, <2>1, <2>2 DEF ItemEffect, TagDeletes, DeleteTag, Tables
<1>5. QED
  BY <1>1, <1>2, <1>3, <1>4 DEF PushItem

LEMMA DeletedByAppend ==
    ASSUME NEW items \in Seq(PushItem), NEW item \in PushItem
    PROVE  \A id \in DeletedBy(Append(items, item)) :
              \/ id \in DeletedBy(items)
              \/ item.op \in {"deleteCard", "deleteTag"} /\ id = ItemId(item)
<1> SUFFICES ASSUME NEW j \in DOMAIN Append(items, item),
                    Append(items, item)[j].op \in {"deleteCard", "deleteTag"}
             PROVE  \/ ItemId(Append(items, item)[j]) \in DeletedBy(items)
                    \/ /\ item.op \in {"deleteCard", "deleteTag"}
                       /\ ItemId(Append(items, item)[j]) = ItemId(item)
  BY DEF DeletedBy, IdsTouched
<1>1. CASE j \in DOMAIN items
  <2>1. Append(items, item)[j] = items[j]
    BY <1>1
  <2>2. QED
    BY <1>1, <2>1 DEF DeletedBy, IdsTouched
<1>2. CASE j \notin DOMAIN items
  <2>1. Append(items, item)[j] = item
    BY <1>2
  <2>2. QED
    BY <2>1
<1>3. QED
  BY <1>1, <1>2

-----------------------------------------------------------------------------
(* The commit *)

\* Stamping changes stamps only.
LEMMA StampKeepsIds ==
    ASSUME NEW ids, NEW seq \in Nat
    PROVE  /\ \A T \in SUBSET CardRow : LiveIds(StampRows(T, ids, seq)) = LiveIds(T)
           /\ \A T \in SUBSET TagRow : LiveIds(StampRows(T, ids, seq)) = LiveIds(T)
           /\ \A D \in SUBSET DeletedRow :
                 IdsOf(StampDeleted(D, ids, seq)) = IdsOf(D)
<1> DEFINE S(r) == IF r.ver.body.id \in ids THEN [r EXCEPT !.stamp = seq] ELSE r
           D1(r) == IF r.id \in ids THEN [r EXCEPT !.stamp = seq] ELSE r
<1>1. \A r \in CardRow : S(r).ver = r.ver
  BY DEF CardRow
<1>2. \A r \in TagRow : S(r).ver = r.ver
  BY DEF TagRow
<1>3. \A r \in DeletedRow : D1(r).id = r.id
  BY DEF DeletedRow
<1>4. /\ \A T : StampRows(T, ids, seq) = {S(r) : r \in T}
      /\ \A T : StampDeleted(T, ids, seq) = {D1(r) : r \in T}
  BY DEF StampRows, StampDeleted
<1> HIDE DEF S, D1
<1>5. ASSUME NEW T \in SUBSET CardRow PROVE LiveIds(StampRows(T, ids, seq)) = LiveIds(T)
  <2>1. \A r \in T : S(r).ver = r.ver
    BY <1>1
  <2>2. QED
    BY <1>4, <2>1 DEF LiveIds
<1>6. ASSUME NEW T \in SUBSET TagRow PROVE LiveIds(StampRows(T, ids, seq)) = LiveIds(T)
  <2>1. \A r \in T : S(r).ver = r.ver
    BY <1>2
  <2>2. QED
    BY <1>4, <2>1 DEF LiveIds
<1>7. ASSUME NEW D \in SUBSET DeletedRow
      PROVE  IdsOf(StampDeleted(D, ids, seq)) = IdsOf(D)
  <2>1. \A r \in D : D1(r).id = r.id
    BY <1>3
  <2>2. QED
    BY <1>4, <2>1 DEF IdsOf
<1>8. QED
  BY <1>5, <1>6, <1>7

\* Tombstones that the items did not add keep their stamp.
LEMMA StampDeletedKeeps ==
    ASSUME NEW D, NEW old \in SUBSET D, NEW ids, NEW seq, \A r \in old : r.id \notin ids
    PROVE  old \subseteq StampDeleted(D, ids, seq)
  BY DEF StampDeleted

LEMMA PublishRows ==
    ASSUME NEW d \in Tables, NEW items
    PROVE  \E seq \in Nat :
              /\ Publish(d, items).cards = StampRows(d.cards, IdsTouched(items, {"cards"}), seq)
              /\ Publish(d, items).tags = StampRows(d.tags, IdsTouched(items, {"tags"}), seq)
              /\ Publish(d, items).deleted = StampDeleted(d.deleted, DeletedBy(items), seq)
<1> DEFINE e == RecomputeRootForIds(d, {ItemId(items[i]) : i \in DOMAIN items})
<1>1. e \in Tables
  BY RecomputeRootTyped
<1>2. e.cards = d.cards /\ e.tags = d.tags /\ e.deleted = d.deleted
  BY DEF RecomputeRootForIds, Tables
<1>3. Publish(d, items) = StampSequences(e, items)
  BY DEF Publish
<1> HIDE DEF e
<1>4. e.root.sequence \in Nat
  BY <1>1 DEF Tables, RootState
<1>5. /\ StampSequences(e, items).cards
           = StampRows(e.cards, IdsTouched(items, {"cards"}), e.root.sequence)
      /\ StampSequences(e, items).tags
           = StampRows(e.tags, IdsTouched(items, {"tags"}), e.root.sequence)
      /\ StampSequences(e, items).deleted
           = StampDeleted(e.deleted, DeletedBy(items), e.root.sequence)
  BY <1>1 DEF StampSequences, DeletedBy, Tables
<1>6. QED
  BY <1>2, <1>3, <1>4, <1>5

\* Publishing a view keeps its live ids, its tombstoned ids and the
\* tombstones the items did not add.
LEMMA PublishKeeps ==
    ASSUME NEW d \in Tables, NEW items
    PROVE  /\ LiveIds(Publish(d, items).cards) = LiveIds(d.cards)
           /\ LiveIds(Publish(d, items).tags) = LiveIds(d.tags)
           /\ DeletedIds(Publish(d, items)) = DeletedIds(d)
           /\ \A old \in SUBSET d.deleted :
                 (\A r \in old : r.id \notin DeletedBy(items))
                    => old \subseteq Publish(d, items).deleted
<1>1. PICK seq \in Nat :
         /\ Publish(d, items).cards = StampRows(d.cards, IdsTouched(items, {"cards"}), seq)
         /\ Publish(d, items).tags = StampRows(d.tags, IdsTouched(items, {"tags"}), seq)
         /\ Publish(d, items).deleted = StampDeleted(d.deleted, DeletedBy(items), seq)
  BY PublishRows
<1>2. /\ d.cards \in SUBSET CardRow
      /\ d.tags \in SUBSET TagRow
      /\ d.deleted \in SUBSET DeletedRow
  BY DEF Tables
<1>3. DeletedIds(Publish(d, items)) = DeletedIds(d)
  BY <1>1, <1>2, StampKeepsIds DEF DeletedIds
<1>4. /\ LiveIds(Publish(d, items).cards) = LiveIds(d.cards)
      /\ LiveIds(Publish(d, items).tags) = LiveIds(d.tags)
  <2>1. LiveIds(StampRows(d.cards, IdsTouched(items, {"cards"}), seq)) = LiveIds(d.cards)
    BY <1>2, StampKeepsIds
  <2>2. LiveIds(StampRows(d.tags, IdsTouched(items, {"tags"}), seq)) = LiveIds(d.tags)
    BY <1>2, StampKeepsIds
  <2>3. QED
    BY <1>1, <2>1, <2>2
<1>5. ASSUME NEW old \in SUBSET d.deleted, \A r \in old : r.id \notin DeletedBy(items)
      PROVE  old \subseteq Publish(d, items).deleted
  BY <1>1, <1>5, StampDeletedKeeps
<1>6. QED
  BY <1>3, <1>4, <1>5, Zenon

-----------------------------------------------------------------------------

LEMMA ApplyItemKeeps ==
    ASSUME IInv, NEW item \in PushItem, ApplyItem(item)
    PROVE  IInv'
<1> DEFINE w == ItemEffect(tx.work, item)
<1>1. /\ tx.open /\ db' = db
      /\ ItemError(tx.work, item) = "Ok"
      /\ tx' = [tx EXCEPT !.work = w, !.items = Append(tx.items, item)]
  BY DEF ApplyItem
<1>2. /\ tx.work \in Tables /\ tx.items \in Seq(PushItem)
      /\ tx'.open = tx.open /\ tx'.work = w /\ tx'.items = Append(tx.items, item)
  BY <1>1 DEF IInv, TypeOK, TxState
<1>3. TypeOK'
  BY TypeInductive DEF IInv, Next
<1>4. TombstonesExclusiveIn(db')
  BY <1>1 DEF IInv
<1>5. TombstonesExclusiveIn(w) /\ LiveIds(tx.work.cards) \subseteq LiveIds(w.cards) \cup DeletedIds(w)
  BY <1>1, <1>2, ItemKeeps DEF IInv
<1>6. /\ tx.work.deleted \subseteq w.deleted
      /\ item.op \in {"deleteCard", "deleteTag"} => ~IsDeleted(tx.work, ItemId(item))
  BY <1>1, <1>2, ItemTombstones
<1> HIDE DEF w
<1>7. OldTombstonesSafe'
  <2>1. db.deleted \subseteq w.deleted
    BY <1>1, <1>6 DEF IInv, OldTombstonesSafe
  <2>2. ASSUME NEW r \in db.deleted PROVE r.id \notin DeletedBy(Append(tx.items, item))
    <3>1. r.id \notin DeletedBy(tx.items) /\ IsDeleted(tx.work, r.id)
      BY <1>1 DEF IInv, OldTombstonesSafe, IsDeleted
    <3>2. QED
      BY <1>2, <1>6, <3>1, DeletedByAppend
  <2>3. QED
    BY <1>1, <1>2, <2>1, <2>2 DEF OldTombstonesSafe
<1>8. NoneVanished'
  <2>1. DeletedIds(tx.work) \subseteq DeletedIds(w)
    BY <1>6 DEF DeletedIds, IdsOf
  <2>2. LiveIds(db.cards) \subseteq LiveIds(w.cards) \cup DeletedIds(w)
    BY <1>1, <1>5, <2>1 DEF IInv, NoneVanished
  <2>3. QED
    BY <1>1, <1>2, <2>2 DEF NoneVanished
<1>9. QED
  BY <1>2, <1>3, <1>4, <1>5, <1>7, <1>8 DEF IInv

LEMMA CommitKeeps ==
    ASSUME IInv, Commit
    PROVE  /\ IInv'
           /\ db.deleted \subseteq db'.deleted
           /\ LiveIds(db.cards) \subseteq LiveIds(db'.cards) \cup DeletedIds(db')
<1>1. tx.open /\ db' = Publish(tx.work, tx.items) /\ tx' = NoTx
  BY DEF Commit
<1>2. tx.work \in Tables
  BY DEF IInv, TypeOK, TxState
<1>3. /\ LiveIds(db'.cards) = LiveIds(tx.work.cards)
      /\ LiveIds(db'.tags) = LiveIds(tx.work.tags)
      /\ DeletedIds(db') = DeletedIds(tx.work)
  BY <1>1, <1>2, PublishKeeps
<1>4. db.deleted \subseteq db'.deleted
  BY <1>1, <1>2, PublishKeeps DEF IInv, OldTombstonesSafe
<1>5. LiveIds(db.cards) \subseteq LiveIds(db'.cards) \cup DeletedIds(db')
  BY <1>1, <1>3 DEF IInv, NoneVanished
<1>6. TombstonesExclusiveIn(db')
  BY <1>1, <1>3 DEF IInv, TombstonesExclusiveIn, DeletedIds, IdsOf
<1>7. TypeOK'
  BY TypeInductive DEF IInv, Next
<1>8. ~tx'.open
  BY <1>1 DEF NoTx
<1>9. QED
  BY <1>4, <1>5, <1>6, <1>7, <1>8 DEF IInv

LEMMA IInvInductive == IInv /\ [Next]_vars => IInv'
<1> SUFFICES ASSUME IInv, [Next]_vars PROVE IInv'
  OBVIOUS
<1>0. TypeOK'
  BY TypeInductive DEF IInv
<1>1. ASSUME NEW kind \in Kinds, Begin(kind) PROVE IInv'
  <2>1. tx'.work = db /\ tx'.items = << >> /\ db' = db
    BY <1>1 DEF Begin
  <2>2. DeletedBy(<< >>) = {}
    BY DEF DeletedBy, IdsTouched
  <2>3. QED
    BY <1>0, <2>1, <2>2 DEF IInv, OldTombstonesSafe, NoneVanished
<1>2. ASSUME NEW item \in PushItem, ApplyItem(item) PROVE IInv'
  BY <1>2, ApplyItemKeeps
<1>3. ASSUME db' = db, tx' = NoTx PROVE IInv'
  BY <1>0, <1>3 DEF IInv, NoTx
<1>4. ASSUME Commit PROVE IInv'
  BY <1>4, CommitKeeps
<1>5. ASSUME UNCHANGED vars PROVE IInv'
  BY <1>0, <1>5 DEF vars, IInv, OldTombstonesSafe, NoneVanished
<1>6. QED
  BY <1>1, <1>2, <1>3, <1>4, <1>5 DEF Next, RejectItem, RejectBatch, Crash

LEMMA IInvAlways == Spec => []IInv
<1>1. Init => IInv
  BY EmptyTyped DEF Init, IInv, TypeOK, NoTx, EmptyTables, TombstonesExclusiveIn
<1>2. QED
  BY <1>1, IInvInductive, PTL DEF Spec

\* Outside a commit the committed tables do not change.
LEMMA OnlyCommitWrites ==
    ASSUME [Next]_vars
    PROVE  Commit \/ db' = db
  BY DEF Next, vars, Begin, ApplyItem, RejectItem, RejectBatch, Crash

\* Whatever ids, chains and batches clients send, no id is live and tombstoned
\* at once in the committed tables.
THEOREM TombstonesStayExclusive == Spec => []TombstonesExclusive
<1>1. IInv => TombstonesExclusive
  BY DEF IInv, TombstonesExclusive
<1>2. QED
  BY <1>1, IInvAlways, PTL

\* No transaction removes or restamps a committed tombstone.
THEOREM TombstonesArePermanent == Spec => TombstonesKept
<1>1. IInv /\ [Next]_vars => [db.deleted \subseteq db'.deleted]_vars
  BY CommitKeeps, OnlyCommitWrites
<1>2. QED
  BY <1>1, IInvAlways, PTL DEF Spec, TombstonesKept

\* No push, of whatever priority, evicts another card: a card leaves the
\* committed list only with a tombstone, though every replace would evict a
\* card of equal priority.
THEOREM CardsAreNeverLost == Spec => CardsNeverVanish
<1>1. IInv /\ [Next]_vars
        => [LiveIds(db.cards) \subseteq LiveIds(db'.cards) \cup {r.id : r \in db'.deleted}]_vars
  BY CommitKeeps, OnlyCommitWrites DEF DeletedIds, IdsOf
<1>2. QED
  BY <1>1, IInvAlways, PTL DEF Spec, CardsNeverVanish

-----------------------------------------------------------------------------
(* The last item on an id *)

Latest(A) == CHOOSE i \in A : \A j \in A : j <= i

LEMMA LastItemIsLatest ==
    ASSUME NEW items, NEW id PROVE LastItemOn(items, id) = items[Latest(ItemsOn(items, id))]
BY DEF LastItemOn, Latest

LEMMA LatestOfMore ==
    ASSUME NEW n \in Nat, NEW A \in SUBSET (1 .. n) PROVE Latest(A \cup {n + 1}) = n + 1
<1>1. n + 1 \in A \cup {n + 1} /\ \A j \in A \cup {n + 1} : j <= n + 1
    OBVIOUS
<1>2. Latest(A \cup {n + 1}) \in A \cup {n + 1} /\ n + 1 <= Latest(A \cup {n + 1})
    BY <1>1 DEF Latest
<1>3. Latest(A \cup {n + 1}) \notin A
    <2> SUFFICES ASSUME NEW m \in A, n + 1 <= m PROVE FALSE
        BY <1>2
    <2> QED
        OBVIOUS
<1> QED
    BY <1>2, <1>3

\* Some item on an id is the last one.  (Kept as an invariant of the batch
\* rather than proved by induction on its length.)
HasLast(items) == \A id : ItemsOn(items, id) # {} => Latest(ItemsOn(items, id)) \in ItemsOn(items, id)

\* An appended item is the last on its id and changes the last on no other.
LEMMA LastAfterAppend ==
    ASSUME NEW items \in Seq(PushItem), NEW item \in PushItem, HasLast(items)
    PROVE  /\ HasLast(Append(items, item))
           /\ ItemsOn(Append(items, item), ItemId(item)) # {}
           /\ LastItemOn(Append(items, item), ItemId(item)) = item
           /\ \A id : id # ItemId(item) =>
                 /\ ItemsOn(Append(items, item), id) = ItemsOn(items, id)
                 /\ ItemsOn(items, id) # {} =>
                       LastItemOn(Append(items, item), id) = LastItemOn(items, id)
<1> DEFINE n == Len(items)
           more == Append(items, item)
<1>1. /\ n \in Nat /\ DOMAIN items = 1 .. n /\ DOMAIN more = 1 .. n + 1
      /\ \A i \in 1 .. n : more[i] = items[i]
      /\ more[n + 1] = item
    OBVIOUS
<1> HIDE DEF n, more
<1>2. \A id : ItemsOn(items, id) \in SUBSET (1 .. n)
    BY <1>1 DEF ItemsOn
<1>3. /\ n + 1 \in ItemsOn(more, ItemId(item))
      /\ Latest(ItemsOn(more, ItemId(item))) = n + 1
      /\ LastItemOn(more, ItemId(item)) = item
    <2>1. ItemsOn(more, ItemId(item)) = ItemsOn(items, ItemId(item)) \cup {n + 1}
        BY <1>1 DEF ItemsOn
    <2>2. Latest(ItemsOn(more, ItemId(item))) = n + 1
        BY <1>1, <1>2, <2>1, LatestOfMore
    <2>3. LastItemOn(more, ItemId(item)) = more[n + 1]
        BY <2>2, LastItemIsLatest
    <2> QED
        BY <1>1, <2>1, <2>2, <2>3
<1>4. ASSUME NEW id, id # ItemId(item)
      PROVE  /\ ItemsOn(more, id) = ItemsOn(items, id)
             /\ ItemsOn(items, id) # {} =>
                   /\ Latest(ItemsOn(more, id)) \in ItemsOn(more, id)
                   /\ LastItemOn(more, id) = LastItemOn(items, id)
    <2>1. ItemsOn(more, id) = ItemsOn(items, id)
        BY <1>1, <1>4 DEF ItemsOn
    <2>2. ASSUME ItemsOn(items, id) # {}
          PROVE  /\ Latest(ItemsOn(more, id)) \in ItemsOn(more, id)
                 /\ LastItemOn(more, id) = LastItemOn(items, id)
        <3>1. Latest(ItemsOn(items, id)) \in 1 .. n
            BY <1>2, <2>2 DEF HasLast
        <3>2. /\ LastItemOn(more, id) = more[Latest(ItemsOn(items, id))]
              /\ LastItemOn(items, id) = items[Latest(ItemsOn(items, id))]
            BY <2>1, LastItemIsLatest
        <3> QED
            BY <1>1, <2>1, <2>2, <3>1, <3>2 DEF HasLast
    <2> QED
        BY <2>1, <2>2
<1>5. HasLast(more)
    BY <1>3, <1>4 DEF HasLast
<1> QED
    BY <1>3, <1>4, <1>5 DEF more

-----------------------------------------------------------------------------
(* The overlay, over the bodies of the rows *)

Without(bodies, id) == {b \in bodies : b.id # id}

Keyed(bodies) == \A a, b \in bodies : a.id = b.id => a = b

\* What the last item on each touched id says is what the rows hold.
Mirror(bodies, items, ids, op) ==
    \A id \in ids : ItemsOn(items, id) # {} =>
        LET last == LastItemOn(items, id)
        IN  {b \in bodies : b.id = id} = IF last.op = op THEN {LastOf(last.chain).body} ELSE {}

LEMMA MirrorStep ==
    ASSUME NEW items \in Seq(PushItem), NEW item \in PushItem, HasLast(items),
           NEW ids, NEW op, NEW old, NEW new, Mirror(old, items, ids, op),
           \/ ItemId(item) \notin ids /\ new = old
           \/ /\ item.op = op /\ LastOf(item.chain).body.id = ItemId(item)
              /\ new = Without(old, ItemId(item)) \cup {LastOf(item.chain).body}
           \/ item.op # op /\ new = Without(old, ItemId(item))
    PROVE  Mirror(new, Append(items, item), ids, op)
<1> DEFINE more == Append(items, item)
<1>1. /\ LastItemOn(more, ItemId(item)) = item
      /\ \A id : id # ItemId(item) =>
            /\ ItemsOn(more, id) = ItemsOn(items, id)
            /\ ItemsOn(items, id) # {} => LastItemOn(more, id) = LastItemOn(items, id)
    BY LastAfterAppend
<1> HIDE DEF more
<1> SUFFICES ASSUME NEW id \in ids, ItemsOn(more, id) # {}
             PROVE  {b \in new : b.id = id} = IF LastItemOn(more, id).op = op
                                              THEN {LastOf(LastItemOn(more, id).chain).body} ELSE {}
    BY DEF Mirror, more
<1>2. CASE id = ItemId(item)
    BY <1>1, <1>2 DEF Without
<1>3. CASE id # ItemId(item)
    <2>1. {b \in new : b.id = id} = {b \in old : b.id = id}
        BY <1>3 DEF Without
    <2> QED
        BY <1>1, <1>3, <2>1 DEF Mirror
<1> QED
    BY <1>2, <1>3

LEMMA MirrorOverlay ==
    ASSUME NEW table, NEW items, NEW ids, NEW op, Mirror(BodiesOf(table), items, ids, op)
    PROVE  Overlay(table, items, ids, op) = BodiesOf(table)
<1> DEFINE Touched == {id \in ids : ItemsOn(items, id) # {}}
           Body(id) == LastOf(LastItemOn(items, id).chain).body
           Pushed == {t \in Touched : LastItemOn(items, t).op = op}
<1>1. Overlay(table, items, ids, op) =
          {r.ver.body : r \in {x \in table : x.ver.body.id \notin Touched}} \cup {Body(id) : id \in Pushed}
    BY DEF Overlay
<1>2. \A id \in Touched : {b \in BodiesOf(table) : b.id = id} =
                              IF id \in Pushed THEN {Body(id)} ELSE {}
    BY DEF Mirror
<1> HIDE DEF Touched, Body, Pushed
<1>3. {r.ver.body : r \in {x \in table : x.ver.body.id \notin Touched}}
        = {b \in BodiesOf(table) : b.id \notin Touched}
    BY DEF BodiesOf
<1>4. Pushed \subseteq Touched
    BY DEF Pushed
<1>5. \A id \in Pushed : Body(id) \in BodiesOf(table)
    BY <1>2, <1>4
<1>6. \A b \in BodiesOf(table) : b.id \in Touched => \E id \in Pushed : b = Body(id)
    BY <1>2
<1> QED
    BY <1>1, <1>3, <1>5, <1>6

-----------------------------------------------------------------------------
(* What an accepted item does to the bodies *)

LEMMA ReplacedBodies ==
    ASSUME NEW v
    PROVE  /\ \A T : BodiesOf(ReplaceTag(T, v)) = Without(BodiesOf(T), v.body.id) \cup {v.body}
           /\ \A T, id : BodiesOf(T \ RowsOf(T, id)) = Without(BodiesOf(T), id)
           /\ \A d : ~PriorityTaken(d, v) =>
                 BodiesOf(ReplaceCard(d.cards, v)) = Without(BodiesOf(d.cards), v.body.id) \cup {v.body}
<1> DEFINE new == [ver |-> v, stamp |-> 0]
<1>1. new.ver = v
    OBVIOUS
<1>2. \A d : ~PriorityTaken(d, v) =>
          {r \in d.cards : r.ver.body.id # v.body.id /\ r.ver.body.priority # v.body.priority}
              = d.cards \ RowsOf(d.cards, v.body.id)
    BY DEF PriorityTaken, RowsOf
<1>3. /\ \A T : ReplaceTag(T, v) = (T \ RowsOf(T, v.body.id)) \cup {new}
      /\ \A d : ~PriorityTaken(d, v) =>
            ReplaceCard(d.cards, v) = (d.cards \ RowsOf(d.cards, v.body.id)) \cup {new}
    BY <1>2 DEF ReplaceTag, ReplaceCard
<1> HIDE DEF new
<1>4. \A T : BodiesOf(T \cup {new}) = BodiesOf(T) \cup {v.body}
    BY <1>1 DEF BodiesOf
<1>5. \A T, id : BodiesOf(T \ RowsOf(T, id)) = Without(BodiesOf(T), id)
    BY DEF BodiesOf, RowsOf, Without
<1>6. \A T : BodiesOf((T \ RowsOf(T, v.body.id)) \cup {new}) = Without(BodiesOf(T), v.body.id) \cup {v.body}
    BY <1>4, <1>5
<1>7. \A T : BodiesOf(ReplaceTag(T, v)) = Without(BodiesOf(T), v.body.id) \cup {v.body}
    BY <1>3, <1>6
<1>8. \A d : ~PriorityTaken(d, v) =>
          BodiesOf(ReplaceCard(d.cards, v)) = Without(BodiesOf(d.cards), v.body.id) \cup {v.body}
    BY <1>3, <1>6
<1> QED
    BY <1>5, <1>7, <1>8

\* One of these holds of each kind of rows and each accepted item.
Steps(old, new, item, ids, op) ==
    \/ ItemId(item) \notin ids /\ new = old
    \/ /\ item.op = op /\ LastOf(item.chain).body.id = ItemId(item)
       /\ new = Without(old, ItemId(item)) \cup {LastOf(item.chain).body}
    \/ item.op # op /\ new = Without(old, ItemId(item))

LEMMA ItemSteps ==
    ASSUME NEW d \in Tables, NEW item \in PushItem, ItemError(d, item) = "Ok"
    PROVE  /\ Steps(BodiesOf(d.tags), BodiesOf(ItemEffect(d, item).tags), item, TagIds, "tags")
           /\ Steps(BodiesOf(d.cards), BodiesOf(ItemEffect(d, item).cards), item, CardIds, "cards")
<1>1. CASE item \in CardPushes
    <2> DEFINE v == LastOf(item.chain)
    <2>1. /\ item.op = "cards" /\ item.chain \in CardChains /\ PushCardsError(d, item.chain) = "Ok"
          /\ ItemEffect(d, item) = PushCards(d, item.chain) /\ ItemId(item) = item.chain[1].body.id
        BY <1>1 DEF ItemError, ItemEffect, ItemId, CardPushes
    <2>2. item.chain \in Seq(CardVersion) /\ item.chain # << >>
        BY <2>1, CardChainsTyped, OkChainNonEmpty DEF PushCardsError
    <2>3. v.body.id = ItemId(item)
        BY <2>1, <2>2, ChainsOfOneEntity, LastOfTyped DEF LastOf
    <2>4. ItemId(item) \in CardIds
        <3>1. v \in CardVersion
            BY <2>2, LastOfTyped
        <3> QED
            BY <3>1, <2>3 DEF CardVersion, VersionsOver, CardBody
    <2>5. ~PriorityTaken(d, v)
        BY <2>1 DEF PushCardsError
    <2> HIDE DEF v
    <2>6. ItemEffect(d, item).cards = ReplaceCard(d.cards, v) /\ ItemEffect(d, item).tags = d.tags
        BY <2>1 DEF PushCards, Tables, v
    <2> QED
        BY <2>1, <2>3, <2>4, <2>5, <2>6, ReplacedBodies, IdsDisjoint DEF Steps, v
<1>2. CASE item \in TagPushes
    <2> DEFINE v == LastOf(item.chain)
    <2>1. /\ item.op = "tags" /\ item.chain \in TagChains /\ PushTagsError(d, item.chain) = "Ok"
          /\ ItemEffect(d, item) = PushTags(d, item.chain) /\ ItemId(item) = item.chain[1].body.id
        BY <1>2 DEF ItemError, ItemEffect, ItemId, TagPushes
    <2>2. item.chain \in Seq(TagVersion) /\ item.chain # << >>
        BY <2>1, TagChainsTyped, OkChainNonEmpty DEF PushTagsError
    <2>3. v.body.id = ItemId(item)
        BY <2>1, <2>2, ChainsOfOneEntity, LastOfTyped DEF LastOf
    <2>4. ItemId(item) \in TagIds
        <3>1. v \in TagVersion
            BY <2>2, LastOfTyped
        <3> QED
            BY <3>1, <2>3 DEF TagVersion, VersionsOver, TagBody
    <2> HIDE DEF v
    <2>5. ItemEffect(d, item).tags = ReplaceTag(d.tags, v) /\ ItemEffect(d, item).cards = d.cards
        BY <2>1 DEF PushTags, Tables, v
    <2> QED
        BY <2>1, <2>3, <2>4, <2>5, ReplacedBodies, IdsDisjoint DEF Steps, v
<1>3. CASE item \in CardDeletes
    <2>1. /\ item.op = "deleteCard" /\ ItemId(item) \in CardIds
          /\ ItemEffect(d, item).cards = d.cards \ RowsOf(d.cards, ItemId(item))
          /\ ItemEffect(d, item).tags = d.tags
        BY <1>3 DEF ItemEffect, ItemId, CardDeletes, DeleteCard, Tables
    <2> QED
        BY <2>1, ReplacedBodies, IdsDisjoint DEF Steps
<1>4. CASE item \in TagDeletes
    <2>1. /\ item.op = "deleteTag" /\ ItemId(item) \in TagIds
          /\ ItemEffect(d, item).tags = d.tags \ RowsOf(d.tags, ItemId(item))
          /\ ItemEffect(d, item).cards = d.cards
        BY <1>4 DEF ItemEffect, ItemId, TagDeletes, DeleteTag, Tables
    <2> QED
        BY <2>1, ReplacedBodies, IdsDisjoint DEF Steps
<1> QED
    BY <1>1, <1>2, <1>3, <1>4 DEF PushItem

\* One row per tag stays one row per tag.
LEMMA StepsKeyed ==
    ASSUME NEW old, NEW new, NEW item, NEW ids, NEW op, Steps(old, new, item, ids, op), Keyed(old)
    PROVE  Keyed(new)
BY DEF Steps, Keyed, Without

-----------------------------------------------------------------------------
(* Graphs *)

\* ImplicationsHoldIn depends on the bodies only.
HoldsOf(tags, cards) ==
    /\ Dangling(GraphOf(tags)) = {} /\ Acyclic(GraphOf(tags))
    /\ \A c \in cards : MissingForCard(GraphOf(tags), c.tags) = {}

LEMMA HoldsInBodies == ASSUME NEW d PROVE ImplicationsHoldIn(d) <=> HoldsOf(BodiesOf(d.tags), BodiesOf(d.cards))
BY DEF ImplicationsHoldIn, HoldsOf, BodiesOf

LEMMA GraphOfKeyed ==
    ASSUME NEW bodies, Keyed(bodies)
    PROVE  /\ DOMAIN GraphOf(bodies) = {b.id : b \in bodies}
           /\ \A b \in bodies : GraphOf(bodies)[b.id] = b.implies
<1>1. ASSUME NEW b \in bodies PROVE (CHOOSE x \in bodies : x.id = b.id) = b
    BY DEF Keyed
<1> QED
    BY <1>1 DEF GraphOf

\* A tag that nothing implies leaves the graph as it was for the others.
LEMMA HoldsWithoutTag ==
    ASSUME NEW tags, NEW cards, NEW id, Keyed(tags), HoldsOf(tags, cards),
           \A b \in tags : b.id # id => id \notin b.implies
    PROVE  HoldsOf(Without(tags, id), cards)
<1> DEFINE g == GraphOf(tags)
           h == GraphOf(Without(tags, id))
<1>1. Without(tags, id) \subseteq tags /\ Keyed(Without(tags, id))
    BY DEF Without, Keyed
<1>2. /\ DOMAIN g = {b.id : b \in tags} /\ \A b \in tags : g[b.id] = b.implies
      /\ DOMAIN h = {b.id : b \in Without(tags, id)}
      /\ \A b \in Without(tags, id) : h[b.id] = b.implies
    BY <1>1, GraphOfKeyed
<1> HIDE DEF g, h
<1>3. /\ DOMAIN h = DOMAIN g \ {id}
      /\ \A t \in DOMAIN h : h[t] = g[t] /\ id \notin h[t]
    BY <1>2 DEF Without
<1>4. \A t : ImpliesOf(h, t) \subseteq ImpliesOf(g, t)
    BY <1>3 DEF ImpliesOf
<1>5. Dangling(h) = {}
    BY <1>3 DEF HoldsOf, Dangling, g
<1>6. Acyclic(h)
    <2>1. Acyclic(g)
        BY DEF HoldsOf, g
    <2> QED
        BY <1>4, <2>1 DEF Acyclic
<1>7. \A S : ClosedUnder(g, S) => ClosedUnder(h, S)
    BY <1>4 DEF ClosedUnder
<1>8. ASSUME NEW c \in cards PROVE MissingForCard(h, c.tags) = {}
    <2>1. MissingForCard(g, c.tags) = {}
        BY DEF HoldsOf, g
    <2>2. ClosureOf(h, c.tags) \subseteq ClosureOf(g, c.tags)
        BY <1>7 DEF ClosureOf
    <2> QED
        BY <2>1, <2>2 DEF MissingForCard
<1> QED
    BY <1>5, <1>6, <1>8 DEF HoldsOf, h

-----------------------------------------------------------------------------
(* The invariant *)

\* A transaction of one item changes the committed tables by that item.
SingleItem ==
    /\ tx.items = << >> => tx.work = db
    /\ tx.kind = "single" /\ tx.items # << >> =>
          /\ Len(tx.items) = 1
          /\ tx.items[1] \in PushItem /\ ItemError(db, tx.items[1]) = "Ok"
          /\ tx.work = ItemEffect(db, tx.items[1])

TxMirrors ==
    /\ HasLast(tx.items)
    /\ Keyed(BodiesOf(tx.work.tags))
    /\ Mirror(BodiesOf(tx.work.tags), tx.items, TagIds, "tags")
    /\ Mirror(BodiesOf(tx.work.cards), tx.items, CardIds, "cards")

MInv ==
    /\ TypeOK /\ Keyed(BodiesOf(db.tags)) /\ ImplicationsHold
    /\ tx.open => TxMirrors /\ SingleItem

LEMMA MirrorsRows == MInv => OverlayMirrorsRows
BY MirrorOverlay DEF MInv, TxMirrors, OverlayMirrorsRows, OverlayTags, OverlayCards

LEMMA ApplyItemMirrors == ASSUME MInv, NEW item \in PushItem, ApplyItem(item) PROVE MInv'
<1>1. /\ tx.open /\ tx.work \in Tables /\ tx.items \in Seq(PushItem) /\ TxMirrors /\ SingleItem
      /\ ItemError(tx.work, item) = "Ok"
    BY DEF MInv, ApplyItem, TypeOK, TxState
<1>2. /\ tx'.work = ItemEffect(tx.work, item) /\ tx'.items = Append(tx.items, item)
      /\ tx'.kind = tx.kind /\ db' = db
    BY DEF ApplyItem, MInv, TypeOK, TxState
<1>3. TypeOK'
    BY TypeInductive DEF MInv, Next
<1>4. HasLast(tx'.items)
    BY <1>1, <1>2, LastAfterAppend DEF TxMirrors
<1>5. /\ Steps(BodiesOf(tx.work.tags), BodiesOf(tx'.work.tags), item, TagIds, "tags")
      /\ Steps(BodiesOf(tx.work.cards), BodiesOf(tx'.work.cards), item, CardIds, "cards")
    BY <1>1, <1>2, ItemSteps
<1>6. Keyed(BodiesOf(tx'.work.tags))
    BY <1>1, <1>5, StepsKeyed DEF TxMirrors
<1>7. Mirror(BodiesOf(tx'.work.tags), tx'.items, TagIds, "tags")
    BY <1>1, <1>2, <1>5, MirrorStep DEF TxMirrors, Steps
<1>8. Mirror(BodiesOf(tx'.work.cards), tx'.items, CardIds, "cards")
    BY <1>1, <1>2, <1>5, MirrorStep DEF TxMirrors, Steps
<1>9. SingleItem'
    <2>1. tx'.items # << >>
        BY <1>1, <1>2
    <2>2. ASSUME tx.kind = "single"
          PROVE  Len(tx'.items) = 1 /\ tx'.items[1] = item /\ tx.work = db
        <3>1. Len(tx.items) < 1
            BY <2>2 DEF ApplyItem, HasRoom
        <3>2. tx.items = << >>
            BY <1>1, <3>1
        <3> QED
            BY <1>1, <1>2, <3>2 DEF SingleItem
    <2> QED
        BY <1>1, <1>2, <2>1, <2>2 DEF SingleItem
<1> QED
    BY <1>2, <1>3, <1>4, <1>6, <1>7, <1>8, <1>9 DEF MInv, TxMirrors, ImplicationsHold

LEMMA PublishedBodies ==
    ASSUME NEW d \in Tables, NEW items
    PROVE  /\ BodiesOf(Publish(d, items).tags) = BodiesOf(d.tags)
           /\ BodiesOf(Publish(d, items).cards) = BodiesOf(d.cards)
<1>1. ASSUME NEW T, T \in SUBSET CardRow \/ T \in SUBSET TagRow, NEW ids, NEW seq \in Nat
      PROVE  BodiesOf(StampRows(T, ids, seq)) = BodiesOf(T)
    <2> DEFINE S(r) == IF r.ver.body.id \in ids THEN [r EXCEPT !.stamp = seq] ELSE r
    <2>1. \A r \in T : S(r).ver = r.ver
        BY <1>1 DEF CardRow, TagRow
    <2>2. StampRows(T, ids, seq) = {S(r) : r \in T}
        BY DEF StampRows
    <2> HIDE DEF S
    <2> QED
        BY <2>1, <2>2 DEF BodiesOf
<1>2. PICK seq \in Nat :
         /\ Publish(d, items).cards = StampRows(d.cards, IdsTouched(items, {"cards"}), seq)
         /\ Publish(d, items).tags = StampRows(d.tags, IdsTouched(items, {"tags"}), seq)
    BY PublishRows
<1>3. d.cards \in SUBSET CardRow /\ d.tags \in SUBSET TagRow
    BY DEF Tables
<1> QED
    BY <1>1, <1>2, <1>3

\* A single delete is committed without the validator's consent and needs none.
LEMMA DeleteHolds ==
    ASSUME NEW d \in Tables, NEW item \in CardDeletes \cup TagDeletes, ItemError(d, item) = "Ok",
           Keyed(BodiesOf(d.tags)), ImplicationsHoldIn(d)
    PROVE  ImplicationsHoldIn(ItemEffect(d, item))
<1>1. HoldsOf(BodiesOf(d.tags), BodiesOf(d.cards))
    BY HoldsInBodies
<1>2. CASE item \in CardDeletes
    <2>1. /\ ItemEffect(d, item).tags = d.tags
          /\ ItemEffect(d, item).cards = d.cards \ RowsOf(d.cards, item.id)
        BY <1>2 DEF ItemEffect, CardDeletes, DeleteCard, Tables
    <2>2. BodiesOf(ItemEffect(d, item).cards) \subseteq BodiesOf(d.cards)
        BY <2>1 DEF BodiesOf
    <2>3. HoldsOf(BodiesOf(d.tags), BodiesOf(ItemEffect(d, item).cards))
        BY <1>1, <2>2 DEF HoldsOf
    <2> QED
        BY <2>1, <2>3, HoldsInBodies
<1>3. CASE item \in TagDeletes
    <2>1. /\ ItemEffect(d, item).cards = d.cards
          /\ ItemEffect(d, item).tags = d.tags \ RowsOf(d.tags, item.id)
          /\ DeleteTagError(d, item.id) = "Ok"
        BY <1>3 DEF ItemEffect, ItemError, TagDeletes, DeleteTag, Tables
    <2>2. \A r \in d.tags : r.ver.body.id # item.id => item.id \notin r.ver.body.implies
        BY <2>1 DEF DeleteTagError
    <2>3. \A b \in BodiesOf(d.tags) : b.id # item.id => item.id \notin b.implies
        BY <2>2 DEF BodiesOf
    <2>4. BodiesOf(ItemEffect(d, item).tags) = Without(BodiesOf(d.tags), item.id)
        BY <2>1 DEF BodiesOf, RowsOf, Without
    <2>5. HoldsOf(BodiesOf(ItemEffect(d, item).tags), BodiesOf(d.cards))
        BY <1>1, <2>3, <2>4, HoldsWithoutTag
    <2> QED
        BY <2>1, <2>5, HoldsInBodies
<1> QED
    BY <1>2, <1>3

LEMMA CommitHolds == ASSUME MInv, Commit PROVE MInv'
<1>1. /\ tx.open /\ tx.work \in Tables /\ db \in Tables /\ TxMirrors /\ SingleItem
      /\ db' = Publish(tx.work, tx.items) /\ tx' = NoTx
    BY DEF MInv, Commit, TypeOK, TxState
<1>2. TypeOK'
    BY TypeInductive DEF MInv, Next
<1>3. /\ BodiesOf(db'.tags) = BodiesOf(tx.work.tags)
      /\ BodiesOf(db'.cards) = BodiesOf(tx.work.cards)
    BY <1>1, PublishedBodies
<1>4. ImplicationsHoldIn(tx.work)
    <2>1. CASE ValidationError(tx.work, tx.items) = "Ok"
        <3>1. /\ OverlayTags(tx.work, tx.items) = BodiesOf(tx.work.tags)
              /\ OverlayCards(tx.work, tx.items) = BodiesOf(tx.work.cards)
            BY <1>1, MirrorsRows DEF OverlayMirrorsRows
        <3>2. HoldsOf(BodiesOf(tx.work.tags), BodiesOf(tx.work.cards))
            BY <2>1, <3>1 DEF ValidationError, HoldsOf
        <3> QED
            BY <3>2, HoldsInBodies
    <2>2. CASE tx.kind = "single" /\ tx.items[1].op \in {"deleteCard", "deleteTag"}
        <3>1. /\ tx.items[1] \in PushItem /\ ItemError(db, tx.items[1]) = "Ok"
              /\ tx.work = ItemEffect(db, tx.items[1])
            BY <1>1, <2>2 DEF SingleItem, Commit
        <3>2. tx.items[1] \in CardDeletes \cup TagDeletes
            BY <2>2, <3>1 DEF PushItem, CardPushes, TagPushes
        <3> QED
            BY <1>1, <3>1, <3>2, DeleteHolds DEF MInv, ImplicationsHold
    <2> QED
        BY <2>1, <2>2 DEF Commit, Validated
<1>5. ImplicationsHoldIn(db')
    BY <1>3, <1>4, HoldsInBodies
<1> QED
    BY <1>1, <1>2, <1>3, <1>5 DEF MInv, NoTx, ImplicationsHold, TxMirrors

LEMMA NothingMirrors == ASSUME NEW bodies, NEW ids, NEW op PROVE HasLast(<< >>) /\ Mirror(bodies, << >>, ids, op)
<1>1. \A id : ItemsOn(<< >>, id) = {}
    BY DEF ItemsOn
<1> QED
    BY <1>1 DEF HasLast, Mirror

LEMMA MInvInit == Init => MInv
<1> SUFFICES ASSUME Init PROVE MInv
    OBVIOUS
<1>1. TypeOK
    BY EmptyTyped DEF Init, TypeOK
<1>2. db.tags = {} /\ db.cards = {} /\ ~tx.open
    BY DEF Init, EmptyTables, NoTx
<1>3. BodiesOf(db.tags) = {} /\ BodiesOf(db.cards) = {}
    BY <1>2 DEF BodiesOf
<1>4. DOMAIN GraphOf({}) = {}
    BY DEF GraphOf
<1>5. HoldsOf({}, {})
    <2>1. Dangling(GraphOf({})) = {}
        BY <1>4 DEF Dangling
    <2>2. Acyclic(GraphOf({}))
        BY <1>4 DEF Acyclic, ImpliesOf
    <2> QED
        BY <2>1, <2>2 DEF HoldsOf
<1> QED
    BY <1>1, <1>2, <1>3, <1>5, HoldsInBodies DEF MInv, Keyed, ImplicationsHold

LEMMA MInvNext == MInv /\ [Next]_vars => MInv'
<1> SUFFICES ASSUME MInv, [Next]_vars PROVE MInv'
    OBVIOUS
<1>1. TypeOK'
    BY TypeInductive DEF MInv
<1>2. ASSUME NEW kind \in Kinds, Begin(kind) PROVE MInv'
    <2>1. db' = db /\ tx'.work = db /\ tx'.items = << >>
        BY <1>2 DEF Begin
    <2>2. TxMirrors' /\ SingleItem'
        BY <2>1, NothingMirrors DEF MInv, TxMirrors, SingleItem
    <2> QED
        BY <1>1, <2>1, <2>2 DEF MInv, ImplicationsHold
<1>3. CASE db' = db /\ tx' = NoTx
    BY <1>1, <1>3 DEF MInv, NoTx, ImplicationsHold
<1>4. CASE UNCHANGED vars
    BY <1>1, <1>4 DEF vars, MInv, ImplicationsHold, TxMirrors, SingleItem
<1> QED
    BY <1>2, <1>3, <1>4, ApplyItemMirrors, CommitHolds DEF Next, RejectItem, RejectBatch, Crash

\* The validator's overlay is the state the items left in the rows, whatever
\* mix of pushes and deletes of one id the batch holds (implications.rs).
THEOREM OverlayIsRight == Spec => []OverlayMirrorsRows
BY MirrorsRows, MInvInit, MInvNext, PTL DEF Spec

\* Committed tags form an acyclic graph without dangling edges and every
\* committed card is closed under it, also after deletes, which are not
\* validated (validate_batch_implications, delete_tag_inner).
THEOREM ImplicationsAlwaysHold == Spec => []ImplicationsHold
<1>1. MInv => ImplicationsHold
    BY DEF MInv
<1> QED
    BY <1>1, MInvInit, MInvNext, PTL DEF Spec

-----------------------------------------------------------------------------
(* The incremental root hash.  A commit recomputes the buckets of the ids  *)
(* its items touched and takes the others from the cache; what it          *)
(* publishes is what a computation over all the rows would give.           *)

\* The rows of a bucket.
InBucket(table, b)   == {x \in table : BucketOf[x.ver.body.id] = b}
GoneInBucket(del, b) == {x \in del : BucketOf[x.id] = b}

\* While a transaction is open, the cached hashes of all buckets that no item
\* has touched are still right for the rows the transaction sees.
UntouchedBucketsRight ==
    \A b \in Buckets :
        (\A i \in DOMAIN tx.items : BucketOf[ItemId(tx.items[i])] # b)
            => tx.work.buckets[b] = RecomputeBucket(tx.work, b)

RootUnmoved == tx.work.root = db.root /\ tx.work.rootHistory = db.rootHistory

RInv ==
    /\ TypeOK /\ CacheCoherent
    /\ tx.open => UntouchedBucketsRight /\ RootUnmoved

\* A bucket's hash depends on its rows only.
LEMMA SameRowsSameBucket ==
    ASSUME NEW d, NEW e, NEW b,
           InBucket(e.cards, b) = InBucket(d.cards, b), InBucket(e.tags, b) = InBucket(d.tags, b),
           GoneInBucket(e.deleted, b) = GoneInBucket(d.deleted, b)
    PROVE  RecomputeBucket(e, b) = RecomputeBucket(d, b)
BY DEF RecomputeBucket, InBucket, GoneInBucket

-----------------------------------------------------------------------------
(* Items *)

\* What no item changes before the commit.
LEMMA ItemLeavesRoot ==
    ASSUME NEW d \in Tables, NEW item \in PushItem
    PROVE  /\ ItemEffect(d, item).buckets = d.buckets
           /\ ItemEffect(d, item).root = d.root
           /\ ItemEffect(d, item).rootHistory = d.rootHistory
<1>1. CASE item \in CardPushes
    BY <1>1 DEF ItemEffect, CardPushes, PushCards, Tables
<1>2. CASE item \in TagPushes
    BY <1>2 DEF ItemEffect, TagPushes, PushTags, Tables
<1>3. CASE item \in CardDeletes
    BY <1>3 DEF ItemEffect, CardDeletes, DeleteCard, Tables
<1>4. CASE item \in TagDeletes
    BY <1>4 DEF ItemEffect, TagDeletes, DeleteTag, Tables
<1> QED
    BY <1>1, <1>2, <1>3, <1>4 DEF PushItem

\* A pushed card replaces no row of another id: the priority check has seen
\* to it that the unique index has nothing to evict.
LEMMA PushCardsElsewhere ==
    ASSUME NEW d \in Tables, NEW chain \in CardChains, PushCardsError(d, chain) = "Ok",
           NEW b, BucketOf[chain[1].body.id] # b
    PROVE  RecomputeBucket(PushCards(d, chain), b) = RecomputeBucket(d, b)
<1> DEFINE v == LastOf(chain)
<1>1. chain \in Seq(CardVersion) /\ chain # << >>
    BY CardChainsTyped, OkChainNonEmpty DEF PushCardsError
<1>2. v.body.id = chain[1].body.id
    BY <1>1, ChainsOfOneEntity, LastOfTyped DEF LastOf
<1>3. ~PriorityTaken(d, v)
    BY DEF PushCardsError
<1> HIDE DEF v
<1>4. /\ PushCards(d, chain).cards = ReplaceCard(d.cards, v)
      /\ PushCards(d, chain).tags = d.tags
      /\ PushCards(d, chain).deleted = d.deleted
    BY DEF PushCards, Tables, v
<1>5. InBucket(ReplaceCard(d.cards, v), b) = InBucket(d.cards, b)
    <2>1. \A r \in d.cards : r.ver.body.id # v.body.id => r.ver.body.priority # v.body.priority
        BY <1>3 DEF PriorityTaken
    <2> QED
        BY <2>1, <1>2 DEF InBucket, ReplaceCard
<1> QED
    BY <1>4, <1>5, SameRowsSameBucket

LEMMA PushTagsElsewhere ==
    ASSUME NEW d \in Tables, NEW chain \in TagChains, PushTagsError(d, chain) = "Ok",
           NEW b, BucketOf[chain[1].body.id] # b
    PROVE  RecomputeBucket(PushTags(d, chain), b) = RecomputeBucket(d, b)
<1> DEFINE v == LastOf(chain)
<1>1. chain \in Seq(TagVersion) /\ chain # << >>
    BY TagChainsTyped, OkChainNonEmpty DEF PushTagsError
<1>2. v.body.id = chain[1].body.id
    BY <1>1, ChainsOfOneEntity, LastOfTyped DEF LastOf
<1> HIDE DEF v
<1>3. /\ PushTags(d, chain).tags = ReplaceTag(d.tags, v)
      /\ PushTags(d, chain).cards = d.cards
      /\ PushTags(d, chain).deleted = d.deleted
    BY DEF PushTags, Tables, v
<1>4. InBucket(ReplaceTag(d.tags, v), b) = InBucket(d.tags, b)
    BY <1>2 DEF InBucket, ReplaceTag, RowsOf
<1> QED
    BY <1>3, <1>4, SameRowsSameBucket

LEMMA DeletesElsewhere ==
    ASSUME NEW d \in Tables, NEW id, NEW b, BucketOf[id] # b
    PROVE  /\ RecomputeBucket(DeleteCard(d, id), b) = RecomputeBucket(d, b)
           /\ RecomputeBucket(DeleteTag(d, id), b) = RecomputeBucket(d, b)
<1>1. /\ InBucket(d.cards \ RowsOf(d.cards, id), b) = InBucket(d.cards, b)
      /\ InBucket(d.tags \ RowsOf(d.tags, id), b) = InBucket(d.tags, b)
    BY DEF InBucket, RowsOf
<1>2. GoneInBucket(AddTombstone(d.deleted, id), b) = GoneInBucket(d.deleted, b)
    BY DEF GoneInBucket, AddTombstone
<1>3. /\ DeleteCard(d, id).cards = d.cards \ RowsOf(d.cards, id)
      /\ DeleteCard(d, id).tags = d.tags
      /\ DeleteCard(d, id).deleted = AddTombstone(d.deleted, id)
    BY DEF DeleteCard, Tables
<1>4. /\ DeleteTag(d, id).tags = d.tags \ RowsOf(d.tags, id)
      /\ DeleteTag(d, id).cards = d.cards
      /\ DeleteTag(d, id).deleted = AddTombstone(d.deleted, id)
    BY DEF DeleteTag, Tables
<1> QED
    BY <1>1, <1>2, <1>3, <1>4, SameRowsSameBucket

\* An accepted item changes rows of its own id's bucket only.
LEMMA ItemElsewhere ==
    ASSUME NEW d \in Tables, NEW item \in PushItem, ItemError(d, item) = "Ok",
           NEW b, BucketOf[ItemId(item)] # b
    PROVE  RecomputeBucket(ItemEffect(d, item), b) = RecomputeBucket(d, b)
<1>1. CASE item \in CardPushes
    BY <1>1, PushCardsElsewhere DEF ItemEffect, ItemError, ItemId, CardPushes
<1>2. CASE item \in TagPushes
    BY <1>2, PushTagsElsewhere DEF ItemEffect, ItemError, ItemId, TagPushes
<1>3. CASE item \in CardDeletes
    BY <1>3, DeletesElsewhere DEF ItemEffect, ItemId, CardDeletes
<1>4. CASE item \in TagDeletes
    BY <1>4, DeletesElsewhere DEF ItemEffect, ItemId, TagDeletes
<1> QED
    BY <1>1, <1>2, <1>3, <1>4 DEF PushItem

LEMMA ApplyItemRight == ASSUME RInv, NEW item \in PushItem, ApplyItem(item) PROVE RInv'
<1>1. /\ tx.open /\ tx.work \in Tables /\ tx.items \in Seq(PushItem)
      /\ UntouchedBucketsRight /\ RootUnmoved
    BY DEF RInv, ApplyItem, TypeOK, TxState
<1>2. /\ tx'.work = ItemEffect(tx.work, item) /\ tx'.items = Append(tx.items, item)
      /\ db' = db /\ ItemError(tx.work, item) = "Ok"
    BY DEF ApplyItem, RInv, TypeOK, TxState
<1>3. TypeOK'
    BY TypeInductive DEF RInv, Next
<1>4. CacheCoherent'
    BY <1>2 DEF RInv, CacheCoherent, RecomputeBucket
<1>5. UntouchedBucketsRight'
    <2> SUFFICES ASSUME NEW b \in Buckets,
                        \A i \in DOMAIN tx'.items : BucketOf[ItemId(tx'.items[i])] # b
                 PROVE  tx'.work.buckets[b] = RecomputeBucket(tx'.work, b)
        BY DEF UntouchedBucketsRight
    <2>1. /\ \A i \in DOMAIN tx.items : i \in DOMAIN tx'.items /\ tx'.items[i] = tx.items[i]
          /\ Len(tx.items) + 1 \in DOMAIN tx'.items /\ tx'.items[Len(tx.items) + 1] = item
        BY <1>1, <1>2
    <2>2. BucketOf[ItemId(item)] # b /\ \A i \in DOMAIN tx.items : BucketOf[ItemId(tx.items[i])] # b
        BY <2>1
    <2>3. tx.work.buckets[b] = RecomputeBucket(tx.work, b)
        BY <1>1, <2>2 DEF UntouchedBucketsRight
    <2> QED
        BY <1>1, <1>2, <2>2, <2>3, ItemElsewhere, ItemLeavesRoot
<1>6. RootUnmoved'
    BY <1>1, <1>2, ItemLeavesRoot DEF RootUnmoved
<1> QED
    BY <1>3, <1>4, <1>5, <1>6 DEF RInv

-----------------------------------------------------------------------------
(* The commit *)

\* Stamping changes no hash.
LEMMA StampedBucket ==
    ASSUME NEW d \in Tables, NEW e, NEW S1, NEW S2, NEW S3, NEW seq \in Nat, NEW b,
           e.cards = StampRows(d.cards, S1, seq), e.tags = StampRows(d.tags, S2, seq),
           e.deleted = StampDeleted(d.deleted, S3, seq)
    PROVE  RecomputeBucket(e, b) = RecomputeBucket(d, b)
<1>1. \A r \in d.cards \cup d.tags : [r EXCEPT !.stamp = seq].ver = r.ver
    BY DEF Tables, CardRow, TagRow
<1>2. \A r \in d.deleted : [r EXCEPT !.stamp = seq].id = r.id
    BY DEF Tables, DeletedRow
<1>3. RecomputeBucket(e, b).cards = RecomputeBucket(d, b).cards
    <2> DEFINE S(r) == IF r.ver.body.id \in S1 THEN [r EXCEPT !.stamp = seq] ELSE r
    <2>1. \A r \in d.cards : S(r).ver = r.ver
        BY <1>1
    <2>2. e.cards = {S(r) : r \in d.cards}
        BY DEF StampRows
    <2> HIDE DEF S
    <2>3. \A h : h \in RecomputeBucket(e, b).cards
                   <=> \E r \in d.cards : BucketOf[S(r).ver.body.id] = b /\ h = S(r).ver.hash
        BY <2>2 DEF RecomputeBucket
    <2>4. \A h : h \in RecomputeBucket(d, b).cards
                   <=> \E r \in d.cards : BucketOf[r.ver.body.id] = b /\ h = r.ver.hash
        BY DEF RecomputeBucket
    <2>5. \A h : h \in RecomputeBucket(e, b).cards <=> h \in RecomputeBucket(d, b).cards
        BY <2>1, <2>3, <2>4
    <2> QED
        BY <2>5 DEF RecomputeBucket
<1>4. RecomputeBucket(e, b).tags = RecomputeBucket(d, b).tags
    <2> DEFINE S(r) == IF r.ver.body.id \in S2 THEN [r EXCEPT !.stamp = seq] ELSE r
    <2>1. \A r \in d.tags : S(r).ver = r.ver
        BY <1>1
    <2>2. e.tags = {S(r) : r \in d.tags}
        BY DEF StampRows
    <2> HIDE DEF S
    <2>3. \A h : h \in RecomputeBucket(e, b).tags
                   <=> \E r \in d.tags : BucketOf[S(r).ver.body.id] = b /\ h = S(r).ver.hash
        BY <2>2 DEF RecomputeBucket
    <2>4. \A h : h \in RecomputeBucket(d, b).tags
                   <=> \E r \in d.tags : BucketOf[r.ver.body.id] = b /\ h = r.ver.hash
        BY DEF RecomputeBucket
    <2>5. \A h : h \in RecomputeBucket(e, b).tags <=> h \in RecomputeBucket(d, b).tags
        BY <2>1, <2>3, <2>4
    <2> QED
        BY <2>5 DEF RecomputeBucket
<1>5. RecomputeBucket(e, b).deleted = RecomputeBucket(d, b).deleted
    <2> DEFINE S(r) == IF r.id \in S3 THEN [r EXCEPT !.stamp = seq] ELSE r
    <2>1. \A r \in d.deleted : S(r).id = r.id
        BY <1>2
    <2>2. e.deleted = {S(r) : r \in d.deleted}
        BY DEF StampDeleted
    <2> HIDE DEF S
    <2>3. \A h : h \in RecomputeBucket(e, b).deleted
                   <=> \E r \in d.deleted : BucketOf[S(r).id] = b /\ h = S(r).id
        BY <2>2 DEF RecomputeBucket
    <2>4. \A h : h \in RecomputeBucket(d, b).deleted
                   <=> \E r \in d.deleted : BucketOf[r.id] = b /\ h = r.id
        BY DEF RecomputeBucket
    <2>5. \A h : h \in RecomputeBucket(e, b).deleted <=> h \in RecomputeBucket(d, b).deleted
        BY <2>1, <2>3, <2>4
    <2> QED
        BY <2>5 DEF RecomputeBucket
<1> QED
    BY <1>3, <1>4, <1>5 DEF RecomputeBucket

\* What a commit publishes: the cached hashes but for the touched buckets.
LEMMA PublishRoot ==
    ASSUME NEW d \in Tables, NEW items
    PROVE  LET touched == {BucketOf[id] : id \in {ItemId(items[i]) : i \in DOMAIN items}}
               p == Publish(d, items)
           IN  /\ p.buckets = [b \in Buckets |-> IF b \in touched THEN RecomputeBucket(d, b)
                                                               ELSE d.buckets[b]]
               /\ p.root.hash = p.buckets /\ p.root \in p.rootHistory
<1> DEFINE ids == {ItemId(items[i]) : i \in DOMAIN items}
           e == RecomputeRootForIds(d, ids)
<1>1. e \in Tables
    BY RecomputeRootTyped
<1>2. /\ e.buckets = [b \in Buckets |-> IF b \in {BucketOf[id] : id \in ids} THEN RecomputeBucket(d, b)
                                                                        ELSE d.buckets[b]]
      /\ e.root.hash = e.buckets /\ e.root \in e.rootHistory
    BY DEF RecomputeRootForIds, Tables
<1>3. Publish(d, items) = StampSequences(e, items)
    BY DEF Publish
<1> HIDE DEF e
<1>4. /\ StampSequences(e, items).buckets = e.buckets
      /\ StampSequences(e, items).root = e.root
      /\ StampSequences(e, items).rootHistory = e.rootHistory
    BY <1>1 DEF StampSequences, Tables
<1> QED
    BY <1>2, <1>3, <1>4

LEMMA CommitRight == ASSUME RInv, Commit PROVE RInv'
<1> DEFINE d == tx.work
           touched == {BucketOf[id] : id \in {ItemId(tx.items[i]) : i \in DOMAIN tx.items}}
<1>1. d \in Tables /\ UntouchedBucketsRight /\ db' = Publish(d, tx.items) /\ tx' = NoTx
    BY DEF RInv, Commit, TypeOK, TxState
<1>2. TypeOK'
    BY TypeInductive DEF RInv, Next
<1>3. \A b \in Buckets : RecomputeBucket(db', b) = RecomputeBucket(d, b)
    BY <1>1, PublishRows, StampedBucket
<1>4. /\ db'.buckets = [b \in Buckets |-> IF b \in touched THEN RecomputeBucket(d, b) ELSE d.buckets[b]]
      /\ db'.root.hash = db'.buckets /\ db'.root \in db'.rootHistory
    BY <1>1, PublishRoot
<1>5. \A b \in Buckets : b \notin touched => d.buckets[b] = RecomputeBucket(d, b)
    BY <1>1 DEF UntouchedBucketsRight
<1>6. db'.buckets = [b \in Buckets |-> RecomputeBucket(db', b)]
    BY <1>3, <1>4, <1>5
<1>7. CacheCoherent'
    BY <1>4, <1>6 DEF CacheCoherent
<1> QED
    BY <1>1, <1>2, <1>7 DEF RInv, NoTx

LEMMA RInvInit == Init => RInv
<1> SUFFICES ASSUME Init PROVE RInv
    OBVIOUS
<1>1. TypeOK
    BY EmptyTyped DEF Init, TypeOK
<1>2. \A b \in Buckets : RecomputeBucket(EmptyTables, b) = EmptyBucket
    BY DEF RecomputeBucket, EmptyTables, EmptyBucket
<1>3. CacheCoherent
    BY <1>2 DEF Init, CacheCoherent, EmptyTables, ZeroRootHash
<1> QED
    BY <1>1, <1>3 DEF RInv, Init, NoTx

LEMMA RInvNext == RInv /\ [Next]_vars => RInv'
<1> SUFFICES ASSUME RInv, [Next]_vars PROVE RInv'
    OBVIOUS
<1>1. TypeOK'
    BY TypeInductive DEF RInv
<1>2. ASSUME NEW kind \in Kinds, Begin(kind) PROVE RInv'
    <2>1. db' = db /\ tx'.work = db /\ tx'.items = << >>
        BY <1>2 DEF Begin
    <2>2. UntouchedBucketsRight' /\ RootUnmoved'
        BY <2>1 DEF RInv, CacheCoherent, UntouchedBucketsRight, RootUnmoved
    <2>3. CacheCoherent'
        BY <2>1 DEF RInv, CacheCoherent, RecomputeBucket
    <2> QED
        BY <1>1, <2>2, <2>3 DEF RInv
<1>3. CASE db' = db /\ tx' = NoTx
    BY <1>1, <1>3 DEF RInv, NoTx, CacheCoherent, RecomputeBucket
<1>4. CASE UNCHANGED vars
    BY <1>4 DEF vars, RInv, TypeOK, CacheCoherent, RecomputeBucket, UntouchedBucketsRight, RootUnmoved
<1> QED
    BY <1>2, <1>3, <1>4, ApplyItemRight, CommitRight DEF Next, RejectItem, RejectBatch, Crash

\* The cached hash of every bucket, and the root hash taken from them, are those
\* of the committed rows, although each commit recomputes the buckets of its own
\* items only (recompute_root_for_ids in root.rs).
THEOREM CachedRootIsRight == Spec => []CacheCoherent
<1>1. RInv => CacheCoherent
    BY DEF RInv
<1> QED
    BY <1>1, RInvInit, RInvNext, PTL DEF Spec

-----------------------------------------------------------------------------
(* Chains *)

Longer(old, new) == Len(old) < Len(new) /\ \A i \in 1 .. Len(old) : new[i] = old[i]

LEMMA LongerExtends ==
    ASSUME NEW B, NEW old \in Seq(B), NEW new \in Seq(B), Longer(old, new)
    PROVE  List!Extends(old, new)
<1>1. /\ Len(SubSeq(new, 1, Len(old))) = Len(old)
      /\ \A i \in 1 .. Len(old) : SubSeq(new, 1, Len(old))[i] = old[i]
    BY DEF Longer
<1>2. SubSeq(new, 1, Len(old)) = old
    BY <1>1
<1> QED
    BY <1>2 DEF Longer, List!Extends

LEMMA LongerTransitive ==
    ASSUME NEW B, NEW a \in Seq(B), NEW b \in Seq(B), NEW c \in Seq(B), Longer(a, b), Longer(b, c)
    PROVE  Longer(a, c)
BY DEF Longer

\* The least member of a set of numbers.
LEMMA Least ==
    ASSUME NEW S \in SUBSET Nat, S # {}
    PROVE  \E n \in S : \A m \in S : n <= m
<1> DEFINE Less == {ss \in Nat \X Nat : ss[1] < ss[2]}
<1>1. IsWellFoundedOn(Less, Nat)
    BY NatLessThanWellFounded, Zenon DEF OpToRel
<1>2. \A m, n \in Nat : m < n => <<m, n>> \in Less
    OBVIOUS
<1> HIDE DEF Less
<1>3. PICK n \in S : \A m \in S : ~(<<m, n>> \in Less)
    BY <1>1, WFMin
<1>4. \A m \in S : ~(m < n)
    BY <1>2, <1>3
<1> QED
    BY <1>4

\* Every version of a chain whose hashes are right and linked extends the
\* hash the first one names as its ancestor.
LEMMA ChainExtends ==
    ASSUME NEW B, NEW chain \in Seq(VersionsOver(B)), chain # << >>,
           \A i \in DOMAIN chain : Verify(chain[i]), Linked(chain)
    PROVE  Longer(chain[1].ancestor, LastOf(chain).hash)
<1> DEFINE Short == {n \in 1 .. Len(chain) : ~Longer(chain[1].ancestor, chain[n].hash)}
<1>1. ASSUME NEW n \in 1 .. Len(chain)
      PROVE  /\ chain[n].ancestor \in Seq(B) /\ chain[n].hash \in Seq(B) /\ chain[n].body \in B
             /\ chain[n].hash = Append(chain[n].ancestor, chain[n].body)
    <2>1. chain[n] \in VersionsOver(B) /\ Verify(chain[n])
        OBVIOUS
    <2> QED
        BY <2>1 DEF VersionsOver, Verify, CanonicalHash
<1>2. \A n \in 1 .. Len(chain) : Longer(chain[n].ancestor, chain[n].hash)
    BY <1>1 DEF Longer
<1>3. Short = {}
    <2> SUFFICES ASSUME Short # {} PROVE FALSE
        OBVIOUS
    <2> Short \in SUBSET Nat
        OBVIOUS
    <2> HIDE DEF Short
    <2>1. PICK n \in Short : \A m \in Short : n <= m
        BY Least
    <2> USE DEF Short
    <2>2. CASE n = 1
        BY <2>2, <1>2, <2>1
    <2>3. CASE n # 1
        <3>1. n - 1 \in 1 .. Len(chain) /\ n - 1 \notin Short
            BY <2>1, <2>3
        <3>2. chain[n].ancestor = chain[n - 1].hash
            BY <3>1, <2>1 DEF Linked
        <3>3. Longer(chain[1].ancestor, chain[n].ancestor)
            BY <3>1, <3>2
        <3>4. 1 \in 1 .. Len(chain) /\ n \in 1 .. Len(chain)
            BY <2>1
        <3>5. chain[1].ancestor \in Seq(B) /\ chain[n].ancestor \in Seq(B) /\ chain[n].hash \in Seq(B)
            BY <3>4, <1>1
        <3>6. Longer(chain[n].ancestor, chain[n].hash)
            BY <3>4, <1>2
        <3>7. Longer(chain[1].ancestor, chain[n].hash)
            BY <3>3, <3>5, <3>6, LongerTransitive
        <3> QED
            BY <3>7, <2>1
    <2> QED
        BY <2>2, <2>3
<1> QED
    BY <1>3 DEF LastOf

-----------------------------------------------------------------------------
(* What the tables hold of one entity *)

Live(d, id)  == RowsOf(d.cards, id) \cup RowsOf(d.tags, id)
TombsOf(table, id) == {r \in table : r.id = id}
Tombs(d, id) == TombsOf(d.deleted, id)

Unstamped(v) == [ver |-> v, stamp |-> 0]

\* Tables have rows of tags for tags only, and of cards for cards only.
LEMMA OneTable ==
    ASSUME NEW d \in Tables
    PROVE  /\ \A id \in CardIds : RowsOf(d.tags, id) = {} /\ Live(d, id) = RowsOf(d.cards, id)
           /\ \A id \in TagIds : RowsOf(d.cards, id) = {} /\ Live(d, id) = RowsOf(d.tags, id)
<1>1. \A r \in d.cards : r.ver.body.id \in CardIds
    BY DEF Tables, CardRow, CardVersion, VersionsOver, CardBody
<1>2. \A r \in d.tags : r.ver.body.id \in TagIds
    BY DEF Tables, TagRow, TagVersion, VersionsOver, TagBody
<1> QED
    BY <1>1, <1>2, IdsDisjoint DEF RowsOf, Live

\* The hash of the row a pushed chain must continue.
Present(table, id) ==
    IF RowsOf(table, id) = {} THEN ZERO_HASH ELSE (CHOOSE r \in RowsOf(table, id) : TRUE).ver.hash

\* What an accepted push has checked of its chain.
LEMMA AcceptedChain ==
    ASSUME NEW B, NEW table, NEW versions, NEW d, NEW chain \in Seq(VersionsOver(B)),
           ChainError(d, table, versions, chain) = "Ok"
    PROVE  /\ ~IsDeleted(d, chain[1].body.id)
           /\ chain[1].ancestor = Present(table, chain[1].body.id)
           /\ Longer(chain[1].ancestor, LastOf(chain).hash)
<1>1. chain # << >>
    BY OkChainNonEmpty
<1>2. \A i \in DOMAIN chain : Verify(chain[i])
    BY <1>1 DEF ChainError
<1>3. ~IsDeleted(d, chain[1].body.id)
    BY <1>1, <1>2 DEF ChainError
<1>4. chain[1].ancestor = Present(table, chain[1].body.id)
    BY <1>1, <1>2, <1>3 DEF ChainError, Present
<1>5. Linked(chain)
    BY <1>1, <1>2, <1>3, <1>4 DEF ChainError, Present
<1> QED
    BY <1>1, <1>2, <1>3, <1>4, <1>5, ChainExtends

\* An accepted item concerns one entity, which has no tombstone: its chain
\* grows, or it gets a tombstone instead of its row.
Grows(d, e, item, id) ==
    /\ item.op = IF id \in CardIds THEN "cards" ELSE "tags"
    /\ Tombs(e, id) = {}
    /\ \E v \in CardVersion \cup TagVersion :
          Live(e, id) = {Unstamped(v)} /\ Longer(ChainIn(d, id), v.hash)

Goes(e, item, id) ==
    /\ item.op \in {"deleteCard", "deleteTag"}
    /\ Live(e, id) = {} /\ Tombs(e, id) = {[id |-> id, stamp |-> 0]}

Changes(d, e, item, id) ==
    /\ id \in Ids /\ Tombs(d, id) = {}
    /\ Grows(d, e, item, id) \/ Goes(e, item, id)
    /\ \A x : x # id => Live(e, x) = Live(d, x) /\ Tombs(e, x) = Tombs(d, x)

LEMMA PushCardsChanges ==
    ASSUME NEW d \in Tables, NEW item \in CardPushes, ItemError(d, item) = "Ok"
    PROVE  Changes(d, ItemEffect(d, item), item, ItemId(item))
<1> DEFINE chain == item.chain
           id == chain[1].body.id
           v  == LastOf(chain)
           e  == PushCards(d, chain)
<1>1. item.op = "cards" /\ chain \in CardChains /\ PushCardsError(d, chain) = "Ok"
      /\ ItemEffect(d, item) = e /\ ItemId(item) = id
    BY DEF ItemError, ItemEffect, ItemId, CardPushes
<1>2. ChainError(d, d.cards, d.cardVersions, chain) = "Ok" /\ ~PriorityTaken(d, v)
    BY <1>1 DEF PushCardsError
<1>3. chain \in Seq(CardVersion) /\ chain # << >> /\ v \in CardVersion
    BY <1>1, <1>2, CardChainsTyped, OkChainNonEmpty, LastOfTyped
<1>4. v.body.id = id /\ id \in CardIds
    <2>1. v.body.id = id
        BY <1>1, <1>3, ChainsOfOneEntity DEF LastOf
    <2> QED
        BY <2>1, <1>3 DEF CardVersion, VersionsOver, CardBody
<1>5. /\ ~IsDeleted(d, id)
      /\ chain[1].ancestor = Present(d.cards, id)
      /\ Longer(chain[1].ancestor, v.hash)
    <2>1. chain \in Seq(VersionsOver(CardBody))
        BY <1>3 DEF CardVersion
    <2> HIDE DEF chain
    <2> QED
        BY <2>1, <1>2, AcceptedChain
<1>6. e.cards = ReplaceCard(d.cards, v) /\ e.tags = d.tags /\ e.deleted = d.deleted
    BY DEF PushCards, Tables
<1> HIDE DEF e, v, id, chain
<1>7. chain[1].ancestor = ChainIn(d, id)
    <2>1. RowsOf(d.tags, id) = {}
        BY <1>4, OneTable
    <2>2. RowsOf(d.cards, id) \cup RowsOf(d.tags, id) = RowsOf(d.cards, id)
        BY <2>1
    <2> QED
        BY <2>2, <1>5 DEF ChainIn, Present, ZERO_HASH
<1>8. Tombs(d, id) = {} /\ \A x : Tombs(e, x) = Tombs(d, x)
    BY <1>5, <1>6 DEF Tombs, TombsOf, IsDeleted
<1>9. RowsOf(e.cards, id) = {Unstamped(v)}
    BY <1>4, <1>6 DEF ReplaceCard, RowsOf, Unstamped
<1>10. \A x : x # id => RowsOf(e.cards, x) = RowsOf(d.cards, x)
    BY <1>2, <1>4, <1>6 DEF ReplaceCard, RowsOf, PriorityTaken
<1>11. Live(e, id) = {Unstamped(v)}
    BY <1>4, <1>6, <1>9, OneTable DEF Live
<1>12. Grows(d, e, item, id)
    BY <1>1, <1>3, <1>4, <1>5, <1>7, <1>8, <1>11 DEF Grows
<1> QED
    BY <1>1, <1>4, <1>6, <1>8, <1>10, <1>12 DEF Changes, Live, Ids

LEMMA PushTagsChanges ==
    ASSUME NEW d \in Tables, NEW item \in TagPushes, ItemError(d, item) = "Ok"
    PROVE  Changes(d, ItemEffect(d, item), item, ItemId(item))
<1> DEFINE chain == item.chain
           id == chain[1].body.id
           v  == LastOf(chain)
           e  == PushTags(d, chain)
<1>1. item.op = "tags" /\ chain \in TagChains /\ PushTagsError(d, chain) = "Ok"
      /\ ItemEffect(d, item) = e /\ ItemId(item) = id
    BY DEF ItemError, ItemEffect, ItemId, TagPushes
<1>2. ChainError(d, d.tags, d.tagVersions, chain) = "Ok"
    BY <1>1 DEF PushTagsError
<1>3. chain \in Seq(TagVersion) /\ chain # << >> /\ v \in TagVersion
    BY <1>1, <1>2, TagChainsTyped, OkChainNonEmpty, LastOfTyped
<1>4. v.body.id = id /\ id \in TagIds
    <2>1. v.body.id = id
        BY <1>1, <1>3, ChainsOfOneEntity DEF LastOf
    <2> QED
        BY <2>1, <1>3 DEF TagVersion, VersionsOver, TagBody
<1>5. /\ ~IsDeleted(d, id)
      /\ chain[1].ancestor = Present(d.tags, id)
      /\ Longer(chain[1].ancestor, v.hash)
    <2>1. chain \in Seq(VersionsOver(TagBody))
        BY <1>3 DEF TagVersion
    <2> HIDE DEF chain
    <2> QED
        BY <2>1, <1>2, AcceptedChain
<1>6. e.tags = ReplaceTag(d.tags, v) /\ e.cards = d.cards /\ e.deleted = d.deleted
    BY DEF PushTags, Tables
<1> HIDE DEF e, v, id, chain
<1>7. chain[1].ancestor = ChainIn(d, id)
    <2>1. RowsOf(d.cards, id) = {}
        BY <1>4, OneTable
    <2>2. RowsOf(d.cards, id) \cup RowsOf(d.tags, id) = RowsOf(d.tags, id)
        BY <2>1
    <2> QED
        BY <2>2, <1>5 DEF ChainIn, Present, ZERO_HASH
<1>8. Tombs(d, id) = {} /\ \A x : Tombs(e, x) = Tombs(d, x)
    BY <1>5, <1>6 DEF Tombs, TombsOf, IsDeleted
<1>9. RowsOf(e.tags, id) = {Unstamped(v)}
    BY <1>4, <1>6 DEF ReplaceTag, RowsOf, Unstamped
<1>10. \A x : x # id => RowsOf(e.tags, x) = RowsOf(d.tags, x)
    BY <1>4, <1>6 DEF ReplaceTag, RowsOf
<1>11. Live(e, id) = {Unstamped(v)}
    BY <1>4, <1>6, <1>9, OneTable DEF Live
<1>12. Grows(d, e, item, id)
    BY <1>1, <1>3, <1>4, <1>5, <1>7, <1>8, <1>11, IdsDisjoint DEF Grows
<1> QED
    BY <1>1, <1>4, <1>6, <1>8, <1>10, <1>12 DEF Changes, Live, Ids

LEMMA DeletesChange ==
    ASSUME NEW d \in Tables, NEW item \in CardDeletes \cup TagDeletes, ItemError(d, item) = "Ok"
    PROVE  Changes(d, ItemEffect(d, item), item, ItemId(item))
<1> DEFINE id == item.id
           e  == ItemEffect(d, item)
<1>1. CASE item \in CardDeletes
    <2>1. item.op = "deleteCard" /\ id \in CardIds /\ ItemId(item) = id /\ ~IsDeleted(d, id)
        BY <1>1 DEF CardDeletes, ItemId, ItemError, DeleteCardError
    <2>2. /\ e.cards = d.cards \ RowsOf(d.cards, id) /\ e.tags = d.tags
          /\ e.deleted = AddTombstone(d.deleted, id)
        BY <1>1 DEF CardDeletes, ItemEffect, DeleteCard, Tables
    <2> HIDE DEF e, id
    <2>3. Live(e, id) = {} /\ \A x : x # id => Live(e, x) = Live(d, x)
        <3>1. RowsOf(d.tags, id) = {}
            BY <2>1, OneTable
        <3> QED
            BY <2>2, <3>1 DEF Live, RowsOf
    <2>4. /\ Tombs(d, id) = {} /\ Tombs(e, id) = {[id |-> id, stamp |-> 0]}
          /\ \A x : x # id => Tombs(e, x) = Tombs(d, x)
        <3>1. ~IsDeleted(d, id) /\ e.deleted = AddTombstone(d.deleted, id)
            BY <2>1, <2>2
        <3> QED
            BY <3>1 DEF Tombs, TombsOf, IsDeleted, AddTombstone
    <2>5. Changes(d, e, item, id)
        BY <2>1, <2>3, <2>4 DEF Changes, Goes, Ids
    <2> QED
        BY <2>1, <2>5 DEF e
<1>2. CASE item \in TagDeletes
    <2>1. item.op = "deleteTag" /\ id \in TagIds /\ ItemId(item) = id /\ ~IsDeleted(d, id)
        BY <1>2 DEF TagDeletes, ItemId, ItemError, DeleteTagError
    <2>2. /\ e.tags = d.tags \ RowsOf(d.tags, id) /\ e.cards = d.cards
          /\ e.deleted = AddTombstone(d.deleted, id)
        BY <1>2 DEF TagDeletes, ItemEffect, DeleteTag, Tables
    <2> HIDE DEF e, id
    <2>3. Live(e, id) = {} /\ \A x : x # id => Live(e, x) = Live(d, x)
        <3>1. RowsOf(d.cards, id) = {}
            BY <2>1, OneTable
        <3> QED
            BY <2>2, <3>1 DEF Live, RowsOf
    <2>4. /\ Tombs(d, id) = {} /\ Tombs(e, id) = {[id |-> id, stamp |-> 0]}
          /\ \A x : x # id => Tombs(e, x) = Tombs(d, x)
        <3>1. ~IsDeleted(d, id) /\ e.deleted = AddTombstone(d.deleted, id)
            BY <2>1, <2>2
        <3> QED
            BY <3>1 DEF Tombs, TombsOf, IsDeleted, AddTombstone
    <2>5. Changes(d, e, item, id)
        BY <2>1, <2>3, <2>4 DEF Changes, Goes, Ids
    <2> QED
        BY <2>1, <2>5 DEF e
<1> QED
    BY <1>1, <1>2

LEMMA ItemChanges ==
    ASSUME NEW d \in Tables, NEW item \in PushItem, ItemError(d, item) = "Ok"
    PROVE  Changes(d, ItemEffect(d, item), item, ItemId(item))
BY PushCardsChanges, PushTagsChanges, DeletesChange DEF PushItem

-----------------------------------------------------------------------------
(* The invariant *)

TouchedIds(items) == {ItemId(items[i]) : i \in DOMAIN items}

\* An entity that the open transaction has touched and not deleted has one row,
\* whose chain is longer than the committed one, and will be stamped; one that
\* it has deleted has one tombstone.
HasGrown(id) ==
    /\ Tombs(tx.work, id) = {}
    /\ id \in IdsTouched(tx.items, {IF id \in CardIds THEN "cards" ELSE "tags"})
    /\ \E r \in CardRow \cup TagRow :
          Live(tx.work, id) = {r} /\ Longer(ChainIn(db, id), r.ver.hash)

HasGone(id) ==
    /\ Live(tx.work, id) = {} /\ id \in DeletedBy(tx.items)
    /\ \E t \in DeletedRow : Tombs(tx.work, id) = {t}

TouchedMoved ==
    \A id \in TouchedIds(tx.items) :
        id \in Ids /\ Tombs(db, id) = {} /\ (HasGrown(id) \/ HasGone(id))

OthersAsBefore ==
    \A id : id \notin TouchedIds(tx.items) =>
        Live(tx.work, id) = Live(db, id) /\ Tombs(tx.work, id) = Tombs(db, id)

LInv ==
    /\ RInv /\ TombstonesExclusive
    /\ tx.open => TouchedMoved /\ OthersAsBefore

LEMMA TouchedByAppend ==
    ASSUME NEW items \in Seq(PushItem), NEW item \in PushItem
    PROVE  /\ TouchedIds(Append(items, item)) = TouchedIds(items) \cup {ItemId(item)}
           /\ \A ops : IdsTouched(items, ops) \subseteq IdsTouched(Append(items, item), ops)
           /\ \A ops : item.op \in ops => ItemId(item) \in IdsTouched(Append(items, item), ops)
<1> DEFINE more == Append(items, item)
<1>1. /\ DOMAIN more = DOMAIN items \cup {Len(items) + 1}
      /\ more[Len(items) + 1] = item
      /\ \A i \in DOMAIN items : more[i] = items[i]
    OBVIOUS
<1> HIDE DEF more
<1>2. TouchedIds(more) = TouchedIds(items) \cup {ItemId(item)}
    BY <1>1 DEF TouchedIds
<1>3. \A ops : IdsTouched(items, ops) \subseteq IdsTouched(more, ops)
    BY <1>1 DEF IdsTouched
<1>4. \A ops : item.op \in ops => ItemId(item) \in IdsTouched(more, ops)
    BY <1>1 DEF IdsTouched
<1> QED
    BY <1>2, <1>3, <1>4 DEF more

LEMMA HashesTyped ==
    /\ \A v \in CardVersion \cup TagVersion : v.hash \in Seq(CardBody \cup TagBody)
    /\ \A d \in Tables : \A id : ChainIn(d, id) \in Seq(CardBody \cup TagBody)
<1>1. \A v \in CardVersion \cup TagVersion : v.hash \in Seq(CardBody \cup TagBody)
    <2>1. Seq(CardBody) \subseteq Seq(CardBody \cup TagBody) /\ Seq(TagBody) \subseteq Seq(CardBody \cup TagBody)
        OBVIOUS
    <2> QED
        BY <2>1 DEF CardVersion, TagVersion, VersionsOver
<1>2. ASSUME NEW d \in Tables, NEW id PROVE ChainIn(d, id) \in Seq(CardBody \cup TagBody)
    <2> DEFINE rows == RowsOf(d.cards, id) \cup RowsOf(d.tags, id)
    <2>1. \A r \in rows : r.ver \in CardVersion \cup TagVersion
        BY DEF Tables, CardRow, TagRow, RowsOf
    <2>2. CASE rows = {}
        BY <2>2 DEF ChainIn
    <2>3. CASE rows # {}
        <3>1. ChainIn(d, id) = (CHOOSE r \in rows : TRUE).ver.hash
            BY <2>3 DEF ChainIn
        <3>2. (CHOOSE r \in rows : TRUE) \in rows
            BY <2>3
        <3> QED
            BY <3>1, <3>2, <2>1, <1>1
    <2> QED
        BY <2>2, <2>3
<1> QED
    BY <1>1, <1>2

\* The chain of an entity is that of its row.
HashIn(rows) == IF rows = {} THEN << >> ELSE (CHOOSE r \in rows : TRUE).ver.hash

LEMMA ChainOfRows == ASSUME NEW d, NEW id PROVE ChainIn(d, id) = HashIn(Live(d, id))
BY DEF ChainIn, Live, HashIn

LEMMA ChainOfOne ==
    ASSUME NEW d, NEW id, NEW r, Live(d, id) = {r}
    PROVE  ChainIn(d, id) = r.ver.hash
BY ChainOfRows DEF HashIn

LEMMA SameChain ==
    ASSUME NEW d, NEW e, NEW id, Live(d, id) = Live(e, id)
    PROVE  ChainIn(d, id) = ChainIn(e, id)
BY ChainOfRows

LEMMA ApplyItemMatches == ASSUME LInv, NEW item \in PushItem, ApplyItem(item) PROVE LInv'
<1> DEFINE id == ItemId(item)
           e  == ItemEffect(tx.work, item)
<1>1. /\ tx.open /\ ItemError(tx.work, item) = "Ok" /\ db' = db
      /\ tx'.open /\ tx'.work = e /\ tx'.items = Append(tx.items, item)
      /\ tx.work \in Tables /\ tx.items \in Seq(PushItem) /\ db \in Tables
    BY DEF ApplyItem, LInv, RInv, TypeOK, TxState
<1>2. RInv' /\ TombstonesExclusive'
    BY <1>1, ApplyItemRight DEF LInv, TombstonesExclusive
<1>3. Changes(tx.work, e, item, id)
    BY <1>1, ItemChanges
<1>4. /\ TouchedIds(tx'.items) = TouchedIds(tx.items) \cup {id}
      /\ \A ops : IdsTouched(tx.items, ops) \subseteq IdsTouched(tx'.items, ops)
      /\ \A ops : item.op \in ops => id \in IdsTouched(tx'.items, ops)
    BY <1>1, TouchedByAppend
<1>5. TouchedMoved /\ OthersAsBefore
    BY <1>1 DEF LInv
<1>6. \A x : ChainIn(db', x) = ChainIn(db, x) /\ Tombs(db', x) = Tombs(db, x) /\ Live(db', x) = Live(db, x)
    BY <1>1
<1> HIDE DEF id, e
<1>7. ASSUME NEW x, x # id, x \in TouchedIds(tx.items)
      PROVE  x \in Ids /\ Tombs(db', x) = {} /\ (HasGrown(x)' \/ HasGone(x)')
    BY <1>1, <1>3, <1>4, <1>5, <1>6, <1>7 DEF TouchedMoved, Changes, HasGrown, HasGone, DeletedBy
<1>8. id \in Ids /\ Tombs(db, id) = {}
    BY <1>3, <1>5 DEF Changes, TouchedMoved, OthersAsBefore
<1>9. CASE Grows(tx.work, e, item, id)
    <2>1. PICK v \in CardVersion \cup TagVersion :
            Live(e, id) = {Unstamped(v)} /\ Longer(ChainIn(tx.work, id), v.hash)
        BY <1>9 DEF Grows
    <2>2. Longer(ChainIn(db, id), v.hash)
        <3>1. CASE id \notin TouchedIds(tx.items)
            BY <3>1, <2>1, <1>5, SameChain DEF OthersAsBefore
        <3>2. CASE id \in TouchedIds(tx.items) /\ HasGrown(id)
            <4>1. Longer(ChainIn(db, id), ChainIn(tx.work, id))
                BY <3>2, ChainOfOne DEF HasGrown
            <4> QED
                BY <4>1, <2>1, <1>1, HashesTyped, LongerTransitive
        <3>3. CASE id \in TouchedIds(tx.items) /\ HasGone(id)
            BY <3>3, <1>3 DEF HasGone, Changes
        <3> QED
            BY <3>1, <3>2, <3>3, <1>5 DEF TouchedMoved
    <2>3. Unstamped(v) \in CardRow \cup TagRow /\ Unstamped(v).ver = v
        BY DEF Unstamped, CardRow, TagRow
    <2>4. HasGrown(id)'
        BY <2>1, <2>2, <2>3, <1>1, <1>4, <1>6, <1>9 DEF HasGrown, Grows
    <2> QED
        BY <1>1, <1>2, <1>3, <1>4, <1>5, <1>6, <1>7, <1>8, <2>4
        DEF LInv, TouchedMoved, OthersAsBefore, Changes
<1>10. CASE Goes(e, item, id)
    <2>1. [id |-> id, stamp |-> 0] \in DeletedRow
        BY <1>8 DEF DeletedRow, Ids
    <2>2. HasGone(id)'
        BY <2>1, <1>1, <1>4, <1>10 DEF HasGone, Goes, DeletedBy
    <2> QED
        BY <1>1, <1>2, <1>3, <1>4, <1>5, <1>6, <1>7, <1>8, <2>2
        DEF LInv, TouchedMoved, OthersAsBefore, Changes
<1> QED
    BY <1>3, <1>9, <1>10 DEF Changes

-----------------------------------------------------------------------------
(* The commit *)

LEMMA PublishStamps ==
    ASSUME NEW d \in Tables, NEW items
    PROVE  LET p == Publish(d, items)
               seq == d.root.sequence + 1
           IN  /\ p.cards = StampRows(d.cards, IdsTouched(items, {"cards"}), seq)
               /\ p.tags = StampRows(d.tags, IdsTouched(items, {"tags"}), seq)
               /\ p.deleted = StampDeleted(d.deleted, DeletedBy(items), seq)
               /\ p.root.sequence = seq /\ seq \in Nat
<1> DEFINE e == RecomputeRootForIds(d, {ItemId(items[i]) : i \in DOMAIN items})
<1>1. e \in Tables
    BY RecomputeRootTyped
<1>2. /\ e.cards = d.cards /\ e.tags = d.tags /\ e.deleted = d.deleted
      /\ e.root.sequence = d.root.sequence + 1 /\ d.root.sequence \in Nat
    BY DEF RecomputeRootForIds, Tables, RootState
<1>3. Publish(d, items) = StampSequences(e, items)
    BY DEF Publish
<1> HIDE DEF e
<1>4. /\ StampSequences(e, items).cards = StampRows(e.cards, IdsTouched(items, {"cards"}), e.root.sequence)
      /\ StampSequences(e, items).tags = StampRows(e.tags, IdsTouched(items, {"tags"}), e.root.sequence)
      /\ StampSequences(e, items).deleted = StampDeleted(e.deleted, DeletedBy(items), e.root.sequence)
      /\ StampSequences(e, items).root = e.root
    BY <1>1 DEF StampSequences, DeletedBy, Tables
<1> QED
    BY <1>2, <1>3, <1>4

LEMMA PublishHistory ==
    ASSUME NEW d \in Tables, NEW items
    PROVE  Publish(d, items).rootHistory = d.rootHistory \cup {Publish(d, items).root}
<1> DEFINE e == RecomputeRootForIds(d, {ItemId(items[i]) : i \in DOMAIN items})
<1>1. e \in Tables
    BY RecomputeRootTyped
<1>2. e.rootHistory = d.rootHistory \cup {e.root}
    BY DEF RecomputeRootForIds, Tables
<1>3. Publish(d, items) = StampSequences(e, items)
    BY DEF Publish
<1> HIDE DEF e
<1>4. StampSequences(e, items).root = e.root /\ StampSequences(e, items).rootHistory = e.rootHistory
    BY <1>1 DEF StampSequences, Tables
<1> QED
    BY <1>2, <1>3, <1>4

Stamped(r, seq)    == [r EXCEPT !.stamp = seq]
StampedAll(S, seq) == {Stamped(r, seq) : r \in S}

\* Stamping the rows of some ids stamps those of each of them.
LEMMA StampedRows ==
    ASSUME NEW T, T \in SUBSET CardRow \/ T \in SUBSET TagRow, NEW ids, NEW seq \in Nat, NEW id
    PROVE  RowsOf(StampRows(T, ids, seq), id) =
               IF id \in ids THEN StampedAll(RowsOf(T, id), seq) ELSE RowsOf(T, id)
<1> DEFINE S(r) == IF r.ver.body.id \in ids THEN [r EXCEPT !.stamp = seq] ELSE r
<1>1. \A r \in T : S(r).ver = r.ver
    BY DEF CardRow, TagRow
<1>2. \A r \in T : S(r) = IF r.ver.body.id \in ids THEN Stamped(r, seq) ELSE r
    BY DEF Stamped
<1>3. StampRows(T, ids, seq) = {S(r) : r \in T}
    BY DEF StampRows
<1> HIDE DEF S
<1> QED
    BY <1>1, <1>2, <1>3 DEF RowsOf, StampedAll

LEMMA StampedTombs ==
    ASSUME NEW T \in SUBSET DeletedRow, NEW ids, NEW seq \in Nat, NEW id
    PROVE  TombsOf(StampDeleted(T, ids, seq), id) =
               IF id \in ids THEN StampedAll(TombsOf(T, id), seq) ELSE TombsOf(T, id)
<1> DEFINE S(r) == IF r.id \in ids THEN [r EXCEPT !.stamp = seq] ELSE r
<1>1. \A r \in T : S(r).id = r.id
    BY DEF DeletedRow
<1>2. \A r \in T : S(r) = IF r.id \in ids THEN Stamped(r, seq) ELSE r
    BY DEF Stamped
<1>3. StampDeleted(T, ids, seq) = {S(r) : r \in T}
    BY DEF StampDeleted
<1> HIDE DEF S
<1> QED
    BY <1>1, <1>2, <1>3 DEF StampedAll, TombsOf

\* What a commit publishes of each entity.
LEMMA PublishedEntity ==
    ASSUME NEW d \in Tables, NEW items, NEW id
    PROVE  LET p   == Publish(d, items)
               seq == d.root.sequence + 1
           IN  /\ id \notin TouchedIds(items) => Live(p, id) = Live(d, id) /\ Tombs(p, id) = Tombs(d, id)
               /\ Live(d, id) = {} => Live(p, id) = {}
               /\ Tombs(d, id) = {} => Tombs(p, id) = {}
               /\ \A t : Tombs(d, id) = {t} /\ id \in DeletedBy(items) => Tombs(p, id) = {Stamped(t, seq)}
               /\ \A r : /\ Live(d, id) = {r} /\ id \in Ids
                        /\ id \in IdsTouched(items, {IF id \in CardIds THEN "cards" ELSE "tags"})
                        => Live(p, id) = {Stamped(r, seq)}
<1> DEFINE p   == Publish(d, items)
           seq == d.root.sequence + 1
           C   == IdsTouched(items, {"cards"})
           G   == IdsTouched(items, {"tags"})
<1>1. /\ p.cards = StampRows(d.cards, C, seq) /\ p.tags = StampRows(d.tags, G, seq)
      /\ p.deleted = StampDeleted(d.deleted, DeletedBy(items), seq) /\ seq \in Nat
    BY PublishStamps
<1>2. d.cards \in SUBSET CardRow /\ d.tags \in SUBSET TagRow /\ d.deleted \in SUBSET DeletedRow
    BY DEF Tables
<1>3. /\ C \subseteq TouchedIds(items) /\ G \subseteq TouchedIds(items)
      /\ DeletedBy(items) \subseteq TouchedIds(items)
    BY DEF IdsTouched, TouchedIds, DeletedBy
<1> HIDE DEF p, seq, C, G
<1>4. RowsOf(p.cards, id) = IF id \in C THEN StampedAll(RowsOf(d.cards, id), seq) ELSE RowsOf(d.cards, id)
    BY <1>1, <1>2, StampedRows
<1>5. RowsOf(p.tags, id) = IF id \in G THEN StampedAll(RowsOf(d.tags, id), seq) ELSE RowsOf(d.tags, id)
    BY <1>1, <1>2, StampedRows
<1>6. Tombs(p, id) = IF id \in DeletedBy(items) THEN StampedAll(Tombs(d, id), seq) ELSE Tombs(d, id)
    BY <1>1, <1>2, StampedTombs DEF Tombs
<1> \A S : (S = {} => StampedAll(S, seq) = {}) /\ \A r : S = {r} => StampedAll(S, seq) = {Stamped(r, seq)}
    BY DEF StampedAll
<1>7. id \notin TouchedIds(items) => Live(p, id) = Live(d, id) /\ Tombs(p, id) = Tombs(d, id)
    BY <1>3, <1>4, <1>5, <1>6 DEF Live
<1>8. (Live(d, id) = {} => Live(p, id) = {}) /\ (Tombs(d, id) = {} => Tombs(p, id) = {})
    BY <1>4, <1>5, <1>6 DEF Live
<1>9. \A t : Tombs(d, id) = {t} /\ id \in DeletedBy(items) => Tombs(p, id) = {Stamped(t, seq)}
    BY <1>6
<1>10. ASSUME NEW r, Live(d, id) = {r}, id \in Ids,
              id \in IdsTouched(items, {IF id \in CardIds THEN "cards" ELSE "tags"})
       PROVE  Live(p, id) = {Stamped(r, seq)}
    <2>1. CASE id \in CardIds
        <3>1. RowsOf(d.tags, id) = {} /\ RowsOf(d.cards, id) = {r}
            BY <2>1, <1>10, OneTable
        <3> QED
            BY <3>1, <2>1, <1>4, <1>5, <1>10 DEF Live, C
    <2>2. CASE id \notin CardIds
        <3>1. RowsOf(d.cards, id) = {} /\ RowsOf(d.tags, id) = {r}
            BY <2>2, <1>10, OneTable DEF Ids
        <3> QED
            BY <3>1, <2>2, <1>4, <1>5, <1>10 DEF Live, G
    <2> QED
        BY <2>1, <2>2
<1> QED
    BY <1>7, <1>8, <1>9, <1>10 DEF p, seq

\* A commit publishes longer chains and new tombstones, all with the next
\* sequence number, of the ids of its items and of nothing else.
GrownAt(id, seq) ==
    /\ Tombs(db', id) = {}
    /\ \E r \in CardRow \cup TagRow :
          Live(db', id) = {r} /\ r.stamp = seq /\ Longer(ChainIn(db, id), r.ver.hash)

GoneAt(id, seq) ==
    Live(db', id) = {} /\ \E t \in DeletedRow : Tombs(db', id) = {t} /\ t.stamp = seq

Published(S) ==
    LET seq == db.root.sequence + 1
    IN  /\ S \in SUBSET Ids /\ S # {} /\ db'.root.sequence = seq
        /\ \A id \in S : Tombs(db, id) = {} /\ (GrownAt(id, seq) \/ GoneAt(id, seq))
        /\ \A id : id \notin S => Live(db', id) = Live(db, id) /\ Tombs(db', id) = Tombs(db, id)

LEMMA StampedTyped ==
    ASSUME NEW r, NEW seq \in Nat
    PROVE  /\ r \in CardRow \cup TagRow => /\ Stamped(r, seq) \in CardRow \cup TagRow
                                           /\ Stamped(r, seq).stamp = seq /\ Stamped(r, seq).ver = r.ver
           /\ r \in DeletedRow => Stamped(r, seq) \in DeletedRow /\ Stamped(r, seq).stamp = seq
BY DEF Stamped, CardRow, TagRow, DeletedRow

LEMMA CommitPublishes == ASSUME LInv, Commit PROVE Published(TouchedIds(tx.items))
<1> DEFINE d   == tx.work
           seq == db.root.sequence + 1
           S   == TouchedIds(tx.items)
<1>1. /\ d \in Tables /\ db' = Publish(d, tx.items) /\ tx.open /\ tx.items # << >>
      /\ tx.items \in Seq(PushItem) /\ d.root.sequence + 1 = seq
    BY DEF LInv, RInv, Commit, TypeOK, TxState, RootUnmoved
<1>2. TouchedMoved /\ OthersAsBefore
    BY <1>1 DEF LInv
<1>3. db'.root.sequence = seq /\ seq \in Nat
    BY <1>1, PublishStamps
<1>4. S \in SUBSET Ids /\ S # {}
    <2>1. 1 \in DOMAIN tx.items
        BY <1>1
    <2> QED
        BY <2>1, <1>2 DEF TouchedIds, TouchedMoved
<1> HIDE DEF seq
<1>6. ASSUME NEW id \in S
      PROVE  /\ Tombs(d, id) = {} => Tombs(db', id) = {}
             /\ Live(d, id) = {} => Live(db', id) = {}
             /\ \A t : Tombs(d, id) = {t} /\ id \in DeletedBy(tx.items) => Tombs(db', id) = {Stamped(t, seq)}
             /\ \A r : /\ Live(d, id) = {r} /\ id \in Ids
                      /\ id \in IdsTouched(tx.items, {IF id \in CardIds THEN "cards" ELSE "tags"})
                      => Live(db', id) = {Stamped(r, seq)}
    <2> HIDE DEF d, S
    <2> QED
        BY <1>1, PublishedEntity
<1>5. ASSUME NEW id \in S PROVE Tombs(db, id) = {} /\ (GrownAt(id, seq) \/ GoneAt(id, seq))
    <2>1. CASE HasGrown(id)
        <3>1. PICK r \in CardRow \cup TagRow : Live(d, id) = {r} /\ Longer(ChainIn(db, id), r.ver.hash)
            BY <2>1 DEF HasGrown
        <3>2. Live(db', id) = {Stamped(r, seq)} /\ Tombs(db', id) = {}
            <4>1. /\ id \in Ids /\ Tombs(d, id) = {}
                  /\ id \in IdsTouched(tx.items, {IF id \in CardIds THEN "cards" ELSE "tags"})
                BY <2>1, <1>4 DEF HasGrown
            <4> QED
                BY <3>1, <4>1, <1>6
        <3> QED
            BY <3>1, <3>2, <1>2, <1>3, StampedTyped DEF GrownAt, TouchedMoved
    <2>2. CASE HasGone(id)
        <3>1. PICK t \in DeletedRow : Tombs(d, id) = {t}
            BY <2>2 DEF HasGone
        <3>2. Tombs(db', id) = {Stamped(t, seq)} /\ Live(db', id) = {}
            <4>1. Live(d, id) = {} /\ id \in DeletedBy(tx.items)
                BY <2>2 DEF HasGone
            <4> QED
                BY <3>1, <4>1, <1>6
        <3> QED
            BY <3>1, <3>2, <1>2, <1>3, StampedTyped DEF GoneAt, TouchedMoved
    <2> QED
        BY <2>1, <2>2, <1>2 DEF TouchedMoved
<1>7. ASSUME NEW id, id \notin S PROVE Live(db', id) = Live(db, id) /\ Tombs(db', id) = Tombs(db, id)
    BY <1>1, <1>2, <1>7, PublishedEntity DEF OthersAsBefore
<1> QED
    BY <1>3, <1>4, <1>5, <1>7 DEF Published, seq

\* In the words of ServerList.
LEMMA TombsDeleted ==
    ASSUME NEW d, NEW id
    PROVE  id \in {r.id : r \in d.deleted} <=> Tombs(d, id) # {}
BY DEF Tombs, TombsOf

LEMMA ExclusiveOf ==
    TombstonesExclusive <=> \A id : Tombs(db, id) = {} \/ Live(db, id) = {}
BY DEF TombstonesExclusive, TombstonesExclusiveIn, LiveIds, Tombs, TombsOf, Live, RowsOf

LEMMA ExclusiveNext ==
    TombstonesExclusive' <=> \A id : Tombs(db', id) = {} \/ Live(db', id) = {}
BY DEF TombstonesExclusive, TombstonesExclusiveIn, LiveIds, Tombs, TombsOf, Live, RowsOf

LEMMA StampOfRows ==
    ASSUME NEW d, NEW e, NEW id, Live(d, id) = Live(e, id), Tombs(d, id) = Tombs(e, id)
    PROVE  StampIn(d, id) = StampIn(e, id)
<1> DEFINE Stamps(x) == {r.stamp : r \in Live(x, id)} \cup {r.stamp : r \in Tombs(x, id)}
           Of(s) == IF s = {} THEN 0 ELSE CHOOSE n \in s : TRUE
<1>1. \A x : StampIn(x, id) = Of(Stamps(x))
    BY DEF StampIn, Live, Tombs, TombsOf
<1>2. Stamps(d) = Stamps(e)
    OBVIOUS
<1> HIDE DEF Stamps, Of
<1> QED
    BY <1>1, <1>2

LEMMA StampOfOne ==
    ASSUME NEW d, NEW id, NEW x, Live(d, id) \cup Tombs(d, id) = {x}
    PROVE  StampIn(d, id) = x.stamp
<1> DEFINE stamps == {r.stamp : r \in Live(d, id)} \cup {r.stamp : r \in Tombs(d, id)}
<1>1. StampIn(d, id) = IF stamps = {} THEN 0 ELSE CHOOSE s \in stamps : TRUE
    BY DEF StampIn, Live, Tombs, TombsOf
<1>2. stamps = {x.stamp}
    OBVIOUS
<1> HIDE DEF stamps
<1> QED
    BY <1>1, <1>2

LEMMA PublishedStamps ==
    ASSUME NEW S, Published(S), NEW id \in Ids
    PROVE  StampIn(db', id) = IF id \in S THEN db.root.sequence + 1 ELSE StampIn(db, id)
<1> DEFINE seq == db.root.sequence + 1
<1>1. /\ id \in S => GrownAt(id, seq) \/ GoneAt(id, seq)
      /\ id \notin S => Live(db', id) = Live(db, id) /\ Tombs(db', id) = Tombs(db, id)
    BY DEF Published
<1> HIDE DEF seq
<1>2. CASE id \in S /\ GrownAt(id, seq)
    <2>1. PICK r : Live(db', id) = {r} /\ r.stamp = seq /\ Tombs(db', id) = {}
        BY <1>2 DEF GrownAt
    <2>2. Live(db', id) \cup Tombs(db', id) = {r}
        BY <2>1
    <2> QED
        BY <2>1, <2>2, <1>2, StampOfOne DEF seq
<1>3. CASE id \in S /\ GoneAt(id, seq)
    <2>1. PICK t : Tombs(db', id) = {t} /\ t.stamp = seq /\ Live(db', id) = {}
        BY <1>3 DEF GoneAt
    <2>2. Live(db', id) \cup Tombs(db', id) = {t}
        BY <2>1
    <2> QED
        BY <2>1, <2>2, <1>3, StampOfOne DEF seq
<1>4. CASE id \notin S
    BY <1>1, <1>4, StampOfRows
<1> QED
    BY <1>1, <1>2, <1>3, <1>4

LEMMA PublishedChains ==
    ASSUME LInv, NEW S, Published(S), db' \in Tables, NEW id \in Ids
    PROVE  /\ Tombs(db', id) # {} => ChainIn(db', id) = << >>
           /\ id \in S /\ Tombs(db', id) = {} => List!Extends(ChainIn(db, id), ChainIn(db', id))
           /\ id \notin S => ChainIn(db', id) = ChainIn(db, id)
<1>1. /\ id \in S => GrownAt(id, db.root.sequence + 1) \/ GoneAt(id, db.root.sequence + 1)
      /\ id \notin S => Live(db', id) = Live(db, id) /\ Tombs(db', id) = Tombs(db, id)
    BY DEF Published
<1>2. ASSUME Tombs(db', id) # {} PROVE Live(db', id) = {}
    BY <1>1, <1>2, ExclusiveOf DEF LInv, GrownAt, GoneAt
<1>3. ASSUME Tombs(db', id) # {} PROVE ChainIn(db', id) = << >>
    BY <1>2, <1>3, ChainOfRows DEF HashIn
<1>4. ASSUME id \in S, Tombs(db', id) = {} PROVE List!Extends(ChainIn(db, id), ChainIn(db', id))
    <2>1. PICK r \in CardRow \cup TagRow : Live(db', id) = {r} /\ Longer(ChainIn(db, id), r.ver.hash)
        BY <1>1, <1>4 DEF GrownAt, GoneAt
    <2>2. ChainIn(db', id) = r.ver.hash
        BY <2>1, ChainOfOne
    <2>3. ChainIn(db, id) \in Seq(CardBody \cup TagBody) /\ ChainIn(db', id) \in Seq(CardBody \cup TagBody)
        BY HashesTyped DEF LInv, RInv, TypeOK
    <2> QED
        BY <2>1, <2>2, <2>3, LongerExtends
<1>5. id \notin S => ChainIn(db', id) = ChainIn(db, id)
    BY <1>1, SameChain
<1> QED
    BY <1>3, <1>4, <1>5

LEMMA PublishedIsListStep ==
    ASSUME LInv, NEW S, Published(S), db' \in Tables
    PROVE  List!ListNext
<1> DEFINE old == {r.id : r \in db.deleted}
           new == {r.id : r \in db'.deleted}
<1>1. S \in SUBSET Ids /\ S # {} /\ db'.root.sequence = db.root.sequence + 1
    BY DEF Published
<1>2. \A id : (id \in old <=> Tombs(db, id) # {}) /\ (id \in new <=> Tombs(db', id) # {})
    BY TombsDeleted
<1> HIDE DEF old, new
<1>3. /\ \A id \in S : Tombs(db, id) = {}
      /\ \A id : id \notin S => Tombs(db', id) = Tombs(db, id)
    BY DEF Published
<1>4. S \cap old = {} /\ old \subseteq new /\ new \subseteq old \cup S
    BY <1>2, <1>3
<1>5. [id \in Ids |-> StampIn(db', id)] =
          [id \in Ids |-> IF id \in S THEN db.root.sequence + 1 ELSE [x \in Ids |-> StampIn(db, x)][id]]
    BY PublishedStamps
<1>6. ASSUME NEW id \in Ids
      PROVE  /\ id \in new => ChainIn(db', id) = << >>
             /\ id \in S \ new => List!Extends(ChainIn(db, id), ChainIn(db', id))
             /\ id \notin S \cup new => ChainIn(db', id) = ChainIn(db, id)
    BY <1>2, PublishedChains
<1>7. List!PublishChanges(S)
    BY <1>1, <1>4, <1>5, <1>6 DEF List!PublishChanges, old, new
<1> QED
    BY <1>1, <1>7 DEF List!ListNext

LEMMA CommitIsListStep == ASSUME LInv, Commit PROVE List!ListNext /\ LInv'
<1> DEFINE S == TouchedIds(tx.items)
<1>1. Published(S)
    BY CommitPublishes
<1>2. RInv' /\ db' \in Tables
    BY CommitRight DEF LInv, RInv, TypeOK
<1> HIDE DEF S
<1>3. List!ListNext
    <2>1. \E T : Published(T)
        BY <1>1
    <2> QED
        BY <2>1, <1>2, PublishedIsListStep
<1>4. TombstonesExclusive'
    <2> SUFFICES ASSUME NEW id PROVE Tombs(db', id) = {} \/ Live(db', id) = {}
        BY ExclusiveNext
    <2>1. CASE id \in S
        BY <2>1, <1>1 DEF Published, GrownAt, GoneAt
    <2>2. CASE id \notin S
        BY <2>2, <1>1, ExclusiveOf DEF Published, LInv
    <2> QED
        BY <2>1, <2>2
<1> QED
    BY <1>2, <1>3, <1>4 DEF LInv, Commit, NoTx

LEMMA LInvInit == Init => LInv /\ List!ListInit
<1> SUFFICES ASSUME Init PROVE LInv /\ List!ListInit
    OBVIOUS
<1>1. RInv
    BY RInvInit
<1>2. \A id : Live(db, id) = {} /\ Tombs(db, id) = {}
    BY DEF Init, EmptyTables, Live, RowsOf, Tombs, TombsOf
<1>3. LInv
    BY <1>1, <1>2, ExclusiveOf DEF LInv, Init, NoTx
<1>4. \A id : ChainIn(db, id) = << >> /\ StampIn(db, id) = 0
    BY <1>2 DEF ChainIn, StampIn, Live, Tombs, TombsOf
<1>5. {r.id : r \in db.deleted} = {} /\ db.root.sequence = 0
    BY DEF Init, EmptyTables
<1> QED
    BY <1>3, <1>4, <1>5 DEF List!ListInit

\* Only a commit shows in the list.
LEMMA LInvNext == LInv /\ [Next]_vars => LInv' /\ [List!ListNext]_(List!listVars)
<1> SUFFICES ASSUME LInv, [Next]_vars PROVE LInv' /\ [List!ListNext]_(List!listVars)
    OBVIOUS
<1>1. RInv'
    BY RInvNext DEF LInv
<1>2. ASSUME db' = db PROVE TombstonesExclusive' /\ UNCHANGED List!listVars
    BY <1>2 DEF LInv, TombstonesExclusive, List!listVars
<1>3. ASSUME NEW kind \in Kinds, Begin(kind) PROVE LInv' /\ [List!ListNext]_(List!listVars)
    <2>1. db' = db /\ tx'.work = db /\ tx'.items = << >>
        BY <1>3 DEF Begin
    <2>2. TouchedIds(tx'.items) = {}
        BY <2>1 DEF TouchedIds
    <2>3. TouchedMoved' /\ OthersAsBefore'
        BY <2>1, <2>2 DEF TouchedMoved, OthersAsBefore
    <2> QED
        BY <1>1, <1>2, <2>1, <2>3 DEF LInv
<1>4. ASSUME NEW item \in PushItem, ApplyItem(item) PROVE LInv' /\ [List!ListNext]_(List!listVars)
    BY <1>2, <1>4, ApplyItemMatches DEF ApplyItem
<1>5. CASE Commit
    BY <1>5, CommitIsListStep
<1>6. CASE db' = db /\ tx' = NoTx
    BY <1>1, <1>2, <1>6 DEF LInv, NoTx
<1>7. CASE UNCHANGED vars
    BY <1>1, <1>2, <1>7 DEF vars, LInv, TouchedMoved, OthersAsBefore, HasGrown, HasGone
<1> QED
    BY <1>3, <1>4, <1>5, <1>6, <1>7 DEF Next, RejectItem, RejectBatch, Crash

-----------------------------------------------------------------------------
(* Root hashes *)

\* What a root hash tells of the entities.
IdOf(c)   == c[Len(c)].id
Chains(h) == UNION {h[b].cards \cup h[b].tags : b \in Buckets}
GoneIn(h) == UNION {h[b].deleted : b \in Buckets}

LEMMA ContentOf ==
    ASSUME NEW d \in Tables, NEW h, h = [b \in Buckets |-> RecomputeBucket(d, b)]
    PROVE  /\ \A c : c \in Chains(h) <=> \E r \in d.cards \cup d.tags : c = r.ver.hash
           /\ \A id : id \in GoneIn(h) <=> Tombs(d, id) # {}
<1>1. \A r \in d.cards \cup d.tags : BucketOf[r.ver.body.id] \in Buckets
    BY BucketOfTyped DEF Tables, CardRow, TagRow, CardVersion, TagVersion, VersionsOver, CardBody, TagBody
<1>2. \A r \in d.deleted : BucketOf[r.id] \in Buckets
    BY BucketOfTyped DEF Tables, DeletedRow
<1>3. \A b \in Buckets : /\ h[b].cards = {r.ver.hash : r \in {x \in d.cards : BucketOf[x.ver.body.id] = b}}
                         /\ h[b].tags = {r.ver.hash : r \in {x \in d.tags : BucketOf[x.ver.body.id] = b}}
                         /\ h[b].deleted = {r.id : r \in {x \in d.deleted : BucketOf[x.id] = b}}
    BY DEF RecomputeBucket
<1>4. \A c : c \in Chains(h) <=> \E r \in d.cards \cup d.tags : c = r.ver.hash
    BY <1>1, <1>3 DEF Chains
<1>5. \A id : id \in GoneIn(h) <=> \E r \in d.deleted : r.id = id
    BY <1>2, <1>3 DEF GoneIn
<1> QED
    BY <1>4, <1>5 DEF Tombs, TombsOf

Verified(d) == \A r \in d.cards \cup d.tags : Verify(r.ver)

LEMMA IdOfRow ==
    ASSUME NEW d \in Tables, Verified(d), NEW r \in d.cards \cup d.tags
    PROVE  IdOf(r.ver.hash) = r.ver.body.id
<1>1. /\ r.ver.hash = Append(r.ver.ancestor, r.ver.body)
      /\ r.ver.ancestor \in Seq(CardBody) \/ r.ver.ancestor \in Seq(TagBody)
    BY DEF Verified, Verify, CanonicalHash, Tables, CardRow, TagRow, CardVersion, TagVersion, VersionsOver
<1> QED
    BY <1>1 DEF IdOf

\* One content is older than another when its tombstones are among those of
\* the other and each of its chains has been continued, kept or ended there.
Older(h, g) ==
    /\ GoneIn(h) \subseteq GoneIn(g)
    /\ \A c \in Chains(h) :
          \/ IdOf(c) \in GoneIn(g)
          \/ \E e \in Chains(g) : IdOf(e) = IdOf(c) /\ (e = c \/ Longer(c, e))

LEMMA ChainsTyped ==
    ASSUME NEW h \in RootHash
    PROVE  Chains(h) \subseteq Seq(CardBody \cup TagBody)
<1>1. \A b \in Buckets : h[b].cards \subseteq Seq(CardBody) /\ h[b].tags \subseteq Seq(TagBody)
    BY DEF RootHash, BucketHash
<1>2. Seq(CardBody) \subseteq Seq(CardBody \cup TagBody) /\ Seq(TagBody) \subseteq Seq(CardBody \cup TagBody)
    OBVIOUS
<1> QED
    BY <1>1, <1>2 DEF Chains

LEMMA OlderTransitive ==
    ASSUME NEW h \in RootHash, NEW g \in RootHash, NEW f \in RootHash, Older(h, g), Older(g, f)
    PROVE  Older(h, f)
<1>1. GoneIn(h) \subseteq GoneIn(f)
    BY DEF Older
<1>2. ASSUME NEW c \in Chains(h), IdOf(c) \notin GoneIn(f)
      PROVE  \E e \in Chains(f) : IdOf(e) = IdOf(c) /\ (e = c \/ Longer(c, e))
    <2>1. IdOf(c) \notin GoneIn(g)
        BY <1>2 DEF Older
    <2>2. PICK x \in Chains(g) : IdOf(x) = IdOf(c) /\ (x = c \/ Longer(c, x))
        BY <2>1 DEF Older
    <2>3. PICK e \in Chains(f) : IdOf(e) = IdOf(x) /\ (e = x \/ Longer(x, e))
        BY <1>2, <2>2 DEF Older
    <2>4. {c, x, e} \subseteq Seq(CardBody \cup TagBody)
        BY ChainsTyped
    <2>5. Longer(c, x) /\ Longer(x, e) => Longer(c, e)
        BY <2>4, LongerTransitive
    <2> QED
        BY <2>2, <2>3, <2>5
<1> QED
    BY <1>1, <1>2 DEF Older

OneRow == \A id : \A r, s \in Live(db, id) : r = s

FInv ==
    /\ LInv /\ OneRow /\ Verified(db) /\ (tx.open => Verified(tx.work))
    /\ RootHashFresh
    /\ \A x \in db.rootHistory : Older(x.hash, db.root.hash)

LEMMA ItemVerified ==
    ASSUME NEW d \in Tables, NEW item \in PushItem, ItemError(d, item) = "Ok", Verified(d)
    PROVE  Verified(ItemEffect(d, item))
<1> DEFINE v == LastOf(item.chain)
<1>1. ASSUME NEW table, NEW versions, ChainError(d, table, versions, item.chain) = "Ok",
             NEW B, item.chain \in Seq(VersionsOver(B))
      PROVE  Verify(v)
    <2>1. item.chain # << >> /\ \A i \in DOMAIN item.chain : Verify(item.chain[i])
        BY <1>1, OkChainNonEmpty DEF ChainError
    <2> QED
        BY <1>1, <2>1 DEF LastOf
<1>2. CASE item \in CardPushes
    <2>1. /\ item.chain \in Seq(VersionsOver(CardBody))
          /\ ChainError(d, d.cards, d.cardVersions, item.chain) = "Ok"
          /\ ItemEffect(d, item).cards = ReplaceCard(d.cards, v) /\ ItemEffect(d, item).tags = d.tags
        BY <1>2, CardChainsTyped
        DEF CardPushes, CardVersion, ItemError, PushCardsError, ItemEffect, PushCards, Tables
    <2>2. Verify(v)
        BY <2>1, <1>1
    <2> HIDE DEF v
    <2> QED
        BY <2>1, <2>2 DEF Verified, ReplaceCard
<1>3. CASE item \in TagPushes
    <2>1. /\ item.chain \in Seq(VersionsOver(TagBody))
          /\ ChainError(d, d.tags, d.tagVersions, item.chain) = "Ok"
          /\ ItemEffect(d, item).tags = ReplaceTag(d.tags, v) /\ ItemEffect(d, item).cards = d.cards
        BY <1>3, TagChainsTyped
        DEF TagPushes, TagVersion, ItemError, PushTagsError, ItemEffect, PushTags, Tables
    <2>2. Verify(v)
        BY <2>1, <1>1
    <2> HIDE DEF v
    <2> QED
        BY <2>1, <2>2 DEF Verified, ReplaceTag
<1>4. CASE item \in CardDeletes
    BY <1>4 DEF Verified, ItemEffect, CardDeletes, DeleteCard, Tables
<1>5. CASE item \in TagDeletes
    BY <1>5 DEF Verified, ItemEffect, TagDeletes, DeleteTag, Tables
<1> QED
    BY <1>2, <1>3, <1>4, <1>5 DEF PushItem

LEMMA PublishVerified ==
    ASSUME NEW d \in Tables, NEW items, Verified(d)
    PROVE  Verified(Publish(d, items))
<1>1. ASSUME NEW T, T \in SUBSET CardRow \/ T \in SUBSET TagRow, NEW ids, NEW seq \in Nat,
             \A r \in T : Verify(r.ver)
      PROVE  \A r \in StampRows(T, ids, seq) : Verify(r.ver)
    BY <1>1 DEF StampRows, CardRow, TagRow
<1>2. PICK seq \in Nat :
         /\ Publish(d, items).cards = StampRows(d.cards, IdsTouched(items, {"cards"}), seq)
         /\ Publish(d, items).tags = StampRows(d.tags, IdsTouched(items, {"tags"}), seq)
    BY PublishRows
<1>3. d.cards \in SUBSET CardRow /\ d.tags \in SUBSET TagRow
    BY DEF Tables
<1> QED
    BY <1>1, <1>2, <1>3 DEF Verified

LEMMA RowOfLive ==
    ASSUME NEW d, NEW r
    PROVE  /\ r \in d.cards \cup d.tags => r \in Live(d, r.ver.body.id)
           /\ \A id : r \in Live(d, id) => r \in d.cards \cup d.tags /\ r.ver.body.id = id
BY DEF Live, RowsOf

\* A commit publishes a content newer than the one before, and unlike any
\* content that is as old as that one.
LEMMA CommitNewer ==
    ASSUME FInv, NEW S, Published(S), db' \in Tables, Verified(db'),
           db'.root.hash = [b \in Buckets |-> RecomputeBucket(db', b)]
    PROVE  /\ Older(db.root.hash, db'.root.hash)
           /\ \A h : Older(h, db.root.hash) => h # db'.root.hash
           /\ db'.root.hash # ZeroRootHash
<1> DEFINE g == db.root.hash
           f == db'.root.hash
<1>1. /\ db \in Tables /\ Verified(db) /\ g = [b \in Buckets |-> RecomputeBucket(db, b)]
    BY DEF FInv, LInv, RInv, TypeOK, CacheCoherent
<1>2. /\ \A c : c \in Chains(g) <=> \E r \in db.cards \cup db.tags : c = r.ver.hash
      /\ \A id : id \in GoneIn(g) <=> Tombs(db, id) # {}
    BY <1>1, ContentOf
<1>3. /\ \A c : c \in Chains(f) <=> \E r \in db'.cards \cup db'.tags : c = r.ver.hash
      /\ \A id : id \in GoneIn(f) <=> Tombs(db', id) # {}
    BY ContentOf
<1>4. /\ \A id \in S : /\ Tombs(db, id) = {}
                      /\ \/ GrownAt(id, db.root.sequence + 1)
                         \/ GoneAt(id, db.root.sequence + 1)
      /\ \A id : id \notin S => Live(db', id) = Live(db, id) /\ Tombs(db', id) = Tombs(db, id)
      /\ S # {}
    BY DEF Published
<1> HIDE DEF g, f
<1>5. \A id \in S : GrownAt(id, db.root.sequence + 1) =>
         \E e \in Chains(f) : IdOf(e) = id /\ Longer(ChainIn(db, id), e)
    <2> SUFFICES ASSUME NEW id \in S, GrownAt(id, db.root.sequence + 1)
                 PROVE  \E e \in Chains(f) : IdOf(e) = id /\ Longer(ChainIn(db, id), e)
        OBVIOUS
    <2>1. PICK r : Live(db', id) = {r} /\ Longer(ChainIn(db, id), r.ver.hash)
        BY DEF GrownAt
    <2>2. r \in db'.cards \cup db'.tags /\ r.ver.body.id = id
        BY <2>1, RowOfLive
    <2>3. IdOf(r.ver.hash) = id
        BY <2>2, IdOfRow
    <2> QED
        BY <1>3, <2>1, <2>2, <2>3
<1>6. \A id \in S : GoneAt(id, db.root.sequence + 1) => id \in GoneIn(f)
    BY <1>3 DEF GoneAt
<1>7. \A c \in Chains(g) : \E r \in Live(db, IdOf(c)) : c = r.ver.hash
    <2> TAKE c \in Chains(g)
    <2>1. PICK r \in db.cards \cup db.tags : c = r.ver.hash
        BY <1>2
    <2> QED
        BY <2>1, <1>1, IdOfRow, RowOfLive
<1>8. \A c \in Chains(g) : c = ChainIn(db, IdOf(c))
    <2> TAKE c \in Chains(g)
    <2>1. PICK r \in Live(db, IdOf(c)) : c = r.ver.hash
        BY <1>7
    <2>2. Live(db, IdOf(c)) = {r}
        BY <2>1 DEF FInv, OneRow
    <2> QED
        BY <2>1, <2>2, ChainOfOne
<1>9. Older(g, f)
    <2>1. GoneIn(g) \subseteq GoneIn(f)
        BY <1>2, <1>3, <1>4
    <2>2. ASSUME NEW c \in Chains(g), IdOf(c) \notin S PROVE c \in Chains(f)
        BY <2>2, <1>3, <1>4, <1>7, RowOfLive
    <2>3. ASSUME NEW c \in Chains(g), IdOf(c) \in S
          PROVE  \/ IdOf(c) \in GoneIn(f)
                 \/ \E e \in Chains(f) : IdOf(e) = IdOf(c) /\ Longer(c, e)
        BY <2>3, <1>4, <1>5, <1>6, <1>8
    <2> QED
        BY <2>1, <2>2, <2>3 DEF Older
<1>10. PICK id \in S : TRUE
    BY <1>4
<1>11. ASSUME NEW h, Older(h, g), h = f PROVE FALSE
    <2>1. CASE GoneAt(id, db.root.sequence + 1)
        BY <2>1, <1>2, <1>4, <1>6, <1>10, <1>11 DEF Older
    <2>2. CASE GrownAt(id, db.root.sequence + 1)
        <3>1. PICK c \in Chains(f) : IdOf(c) = id /\ Longer(ChainIn(db, id), c)
            BY <2>2, <1>5
        <3>2. PICK e \in Chains(g) : IdOf(e) = id /\ (e = c \/ Longer(c, e))
            BY <3>1, <1>2, <1>4, <1>11 DEF Older
        <3>3. e = ChainIn(db, id)
            BY <3>2, <1>8
        <3>4. f \in RootHash /\ g \in RootHash
            BY <1>1 DEF f, g, Tables, RootState
        <3>5. c \in Seq(CardBody \cup TagBody) /\ e \in Seq(CardBody \cup TagBody)
            BY <3>4, ChainsTyped
        <3> QED
            BY <3>1, <3>2, <3>3, <3>5 DEF Longer
    <2> QED
        BY <2>1, <2>2, <1>4
<1>12. f # ZeroRootHash
    <2>1. Chains(ZeroRootHash) = {} /\ GoneIn(ZeroRootHash) = {}
        BY DEF Chains, GoneIn, ZeroRootHash, EmptyBucket
    <2> QED
        BY <2>1, <1>4, <1>5, <1>6, <1>10
<1> QED
    BY <1>9, <1>11, <1>12 DEF g, f

LEMMA CommitFresh == ASSUME FInv, Commit PROVE FInv'
<1>1. LInv' /\ Published(TouchedIds(tx.items))
    BY CommitIsListStep, CommitPublishes DEF FInv
<1>2. /\ tx.work \in Tables /\ db' = Publish(tx.work, tx.items) /\ tx.open /\ tx' = NoTx
      /\ db \in Tables /\ db' \in Tables
      /\ db'.root.hash = [b \in Buckets |-> RecomputeBucket(db', b)]
    BY <1>1 DEF FInv, LInv, RInv, TypeOK, CacheCoherent, TxState, Commit
<1>3. Verified(db')
    BY <1>2, PublishVerified DEF FInv
<1>4. db'.rootHistory = db.rootHistory \cup {db'.root}
    <2>1. tx.work.rootHistory = db.rootHistory
        BY <1>2 DEF FInv, LInv, RInv, RootUnmoved
    <2>2. Publish(tx.work, tx.items).rootHistory = tx.work.rootHistory \cup {Publish(tx.work, tx.items).root}
        BY <1>2, PublishHistory
    <2> QED
        BY <1>2, <2>1, <2>2
<1>5. /\ Older(db.root.hash, db'.root.hash)
      /\ \A h : Older(h, db.root.hash) => h # db'.root.hash
      /\ db'.root.hash # ZeroRootHash
    <2>1. \E S : Published(S)
        BY <1>1
    <2> QED
        BY <2>1, <1>2, <1>3, CommitNewer
<1>6. \A x \in db.rootHistory : Older(x.hash, db.root.hash) /\ x.hash # ZeroRootHash
    BY DEF FInv, RootHashFresh
<1>7. \A x \in db.rootHistory : x.hash # db'.root.hash
    BY <1>5, <1>6
<1>8. RootHashFresh'
    BY <1>4, <1>5, <1>6, <1>7 DEF FInv, RootHashFresh
<1>9. \A x \in db'.rootHistory : Older(x.hash, db'.root.hash)
    <2>1. \A x \in db.rootHistory : Older(x.hash, db'.root.hash)
        <3> TAKE x \in db.rootHistory
        <3>1. x.hash \in RootHash /\ db.root.hash \in RootHash /\ db'.root.hash \in RootHash
            BY <1>2 DEF Tables, RootState
        <3> QED
            BY <3>1, <1>5, <1>6, OlderTransitive
    <2>2. Older(db'.root.hash, db'.root.hash)
        BY DEF Older
    <2> QED
        BY <1>4, <2>1, <2>2
<1>10. OneRow'
    <2> SUFFICES ASSUME NEW id, NEW r \in Live(db', id), NEW s \in Live(db', id) PROVE r = s
        BY DEF OneRow
    <2>1. CASE id \in TouchedIds(tx.items)
        BY <2>1, <1>1 DEF Published, GrownAt, GoneAt
    <2>2. CASE id \notin TouchedIds(tx.items)
        BY <2>2, <1>1 DEF Published, FInv, OneRow
    <2> QED
        BY <2>1, <2>2
<1> QED
    BY <1>1, <1>2, <1>3, <1>8, <1>9, <1>10 DEF FInv, NoTx

LEMMA FInvInit == Init => FInv
<1> SUFFICES ASSUME Init PROVE FInv
    OBVIOUS
<1>1. \A id : Live(db, id) = {}
    BY DEF Init, EmptyTables, Live, RowsOf
<1> QED
    BY <1>1, LInvInit DEF FInv, OneRow, Verified, RootHashFresh, Init, EmptyTables, NoTx

LEMMA FInvNext == FInv /\ [Next]_vars => FInv'
<1> SUFFICES ASSUME FInv, [Next]_vars PROVE FInv'
    OBVIOUS
<1>1. LInv'
    BY LInvNext DEF FInv
<1>2. ASSUME db' = db, tx'.open => Verified(tx'.work) PROVE FInv'
    BY <1>1, <1>2 DEF FInv, OneRow, RootHashFresh, Verified
<1>3. ASSUME NEW kind \in Kinds, Begin(kind) PROVE FInv'
    <2>1. db' = db /\ tx'.work = db
        BY <1>3 DEF Begin
    <2> QED
        BY <2>1, <1>2 DEF FInv
<1>4. ASSUME NEW item \in PushItem, ApplyItem(item) PROVE FInv'
    <2>1. /\ tx.work \in Tables /\ tx.open /\ ItemError(tx.work, item) = "Ok" /\ db' = db
          /\ tx'.work = ItemEffect(tx.work, item)
        BY <1>4 DEF ApplyItem, FInv, LInv, RInv, TypeOK, TxState
    <2> QED
        BY <2>1, <1>2, ItemVerified DEF FInv
<1>5. CASE db' = db /\ tx' = NoTx
    BY <1>2, <1>5 DEF NoTx
<1>6. CASE UNCHANGED vars
    BY <1>2, <1>6 DEF vars, FInv
<1> QED
    BY <1>3, <1>4, <1>5, <1>6, CommitFresh DEF Next, RejectItem, RejectBatch, Crash

-----------------------------------------------------------------------------
(* Theorems *)

\* What clients see of the store is the list of ServerList: a commit of any
\* operation or batch (SqliteStorage::push_batch and its like) is one step of
\* it, and an aborted transaction none.
THEOREM StoreImplementsList == Spec => ImplementsServerList
BY LInvInit, LInvNext, PTL DEF Spec, ImplementsServerList, List!ListSpec

\* The root hash is right and no content is ever published under two sequence
\* numbers, so that get_changes_since can tell by one history row whether a
\* client's root is of this server's past (recompute_root_for_ids in root.rs).
THEOREM RootTellsContent == Spec => []RootCoherent
<1>1. FInv => RootCoherent
    BY DEF FInv, LInv, RInv, RootCoherent
<1> QED
    BY <1>1, FInvInit, FInvNext, PTL DEF Spec
-----------------------------------------------------------------------------
(* The version rows.  The versions of a live entity are one unbroken chain *)
(* up to its current row, whatever items a batch applies to it; what the   *)
(* commit stamps on the current row it stamps on the version it came from. *)

Prefixes(h) == {SubSeq(h, 1, n) : n \in 1 .. Len(h)}
HashesOf(rows) == {x.ver.hash : x \in rows}

\* A table and its version rows.
History(table, versions) ==
    ChainOf(table, versions) /\ LiveIds(versions) = LiveIds(table)

RowsOver(B) == [ver: VersionsOver(B), stamp: Nat]

\* Each hash of an accepted chain is a prefix of the last one, one longer than
\* the hash before it.
LEMMA HashesArePrefixes ==
    ASSUME NEW B, NEW chain \in Seq(VersionsOver(B)), chain # << >>,
           \A i \in DOMAIN chain : Verify(chain[i]), Linked(chain)
    PROVE  LET h == LastOf(chain).hash
               m == Len(chain[1].ancestor)
           IN  /\ h \in Seq(B) /\ m \in Nat /\ Len(h) = m + Len(chain)
               /\ chain[1].ancestor = SubSeq(h, 1, m)
               /\ \A i \in DOMAIN chain : chain[i].hash = SubSeq(h, 1, m + i)
<1> DEFINE h == LastOf(chain).hash
           m == Len(chain[1].ancestor)
           Wrong == {n \in 1 .. Len(chain) : Len(chain[n].hash) # m + n}
<1>1. ASSUME NEW n \in 1 .. Len(chain)
      PROVE  /\ chain[n].ancestor \in Seq(B) /\ chain[n].hash \in Seq(B) /\ chain[n].body \in B
             /\ chain[n].hash = Append(chain[n].ancestor, chain[n].body)
    <2>1. chain[n] \in VersionsOver(B) /\ Verify(chain[n])
        OBVIOUS
    <2> QED
        BY <2>1 DEF VersionsOver, Verify, CanonicalHash
<1>2. \A n \in 1 .. Len(chain) : Len(chain[n].hash) = Len(chain[n].ancestor) + 1
    BY <1>1
<1>3. Len(chain) \in Nat \ {0} /\ 1 \in 1 .. Len(chain) /\ Len(chain) \in 1 .. Len(chain)
    OBVIOUS
<1>4. m \in Nat /\ h \in Seq(B)
    BY <1>1, <1>3 DEF LastOf
<1>5. Wrong = {}
    <2> SUFFICES ASSUME Wrong # {} PROVE FALSE
        OBVIOUS
    <2> Wrong \in SUBSET Nat
        OBVIOUS
    <2> HIDE DEF Wrong
    <2>1. PICK n \in Wrong : \A k \in Wrong : n <= k
        BY Least
    <2> USE DEF Wrong
    <2>2. CASE n = 1
        BY <2>2, <1>2, <2>1
    <2>3. CASE n # 1
        <3>1. n - 1 \in 1 .. Len(chain) /\ n - 1 \notin Wrong
            BY <2>1, <2>3
        <3>2. chain[n].ancestor = chain[n - 1].hash
            BY <3>1, <2>1 DEF Linked
        <3>3. n \in 1 .. Len(chain) /\ Len(chain[n].hash) # m + n /\ n \in Nat
            BY <2>1
        <3>4. Len(chain[n - 1].hash) = m + (n - 1)
            BY <3>1
        <3>5. Len(chain[n].hash) = Len(chain[n - 1].hash) + 1
            BY <3>2, <3>3, <1>2
        <3> HIDE DEF m
        <3> QED
            BY <3>3, <3>4, <3>5, <1>4
    <2> QED
        BY <2>2, <2>3
<1>6. ASSUME NEW i \in DOMAIN chain PROVE Len(chain[i].hash) = m + i
    BY <1>5
<1>7. ASSUME NEW i \in DOMAIN chain PROVE chain[i].hash = SubSeq(h, 1, m + i)
    <2>1. CASE i = Len(chain)
        <3>1. chain[i].hash = h /\ Len(h) = m + i
            BY <2>1, <1>6 DEF LastOf
        <3> HIDE DEF h, m
        <3> QED
            BY <3>1, <1>4
    <2>2. CASE i # Len(chain)
        <3> DEFINE rest == SubSeq(chain, i + 1, Len(chain))
        <3>1. /\ rest \in Seq(VersionsOver(B)) /\ Len(rest) = Len(chain) - i
              /\ \A j \in 1 .. Len(chain) - i : rest[j] = chain[j + i]
            BY <2>2
        <3> HIDE DEF rest
        <3>2. i \in Nat /\ i < Len(chain) /\ 1 <= i
            BY <2>2
        <3>3. rest # << >> /\ LastOf(rest) = LastOf(chain)
            <4>1. Len(chain) \in Nat /\ Len(rest) = Len(chain) - i
                BY <3>1
            <4>2. Len(rest) \in 1 .. (Len(chain) - i) /\ Len(rest) + i = Len(chain) /\ Len(rest) # 0
                <5>1. \A k, n \in Nat : k < n => n - k \in 1 .. (n - k) /\ (n - k) + k = n /\ n - k # 0
                    OBVIOUS
                <5>2. i \in Nat /\ i < Len(chain)
                    BY <3>2
                <5> QED
                    BY <4>1, <5>1, <5>2
            <4>3. rest[Len(rest)] = chain[Len(rest) + i]
                BY <4>2, <3>1
            <4> QED
                BY <4>2, <4>3 DEF LastOf
        <3>4. rest[1].ancestor = chain[i].hash
            <4>1. rest[1] = chain[1 + i] /\ i \in 1 .. Len(chain) - 1
                BY <3>1, <3>2
            <4>2. chain[i + 1].ancestor = chain[i].hash /\ 1 + i = i + 1
                BY <4>1, <3>2 DEF Linked
            <4> QED
                BY <4>1, <4>2
        <3>5. ASSUME NEW j \in DOMAIN rest PROVE Verify(rest[j])
            <4>1. j + i \in DOMAIN chain /\ rest[j] = chain[j + i]
                BY <3>1, <3>2
            <4> QED
                BY <4>1
        <3>6. ASSUME NEW j \in 1 .. Len(rest) - 1 PROVE rest[j + 1].ancestor = rest[j].hash
            <4>1. /\ j + i \in 1 .. Len(chain) - 1
                  /\ rest[j] = chain[j + i] /\ rest[j + 1] = chain[(j + i) + 1]
                BY <3>1, <3>2
            <4> QED
                BY <4>1 DEF Linked
        <3>7. Longer(chain[i].hash, h)
            BY <3>1, <3>3, <3>4, <3>5, <3>6, ChainExtends DEF Linked
        <3>8. chain[i].hash \in Seq(B) /\ Len(chain[i].hash) = m + i
            BY <1>1, <1>6
        <3> HIDE DEF h, m
        <3> QED
            BY <3>7, <3>8, <1>4 DEF Longer
    <2> QED
        BY <2>1, <2>2
<1>8. chain[1].ancestor = SubSeq(h, 1, m)
    <2>1. Longer(chain[1].ancestor, h)
        BY ChainExtends
    <2>2. chain[1].ancestor \in Seq(B)
        BY <1>1, <1>3
    <2> HIDE DEF h
    <2> QED
        BY <2>1, <2>2, <1>4 DEF Longer
<1>9. Len(h) = m + Len(chain)
    BY <1>3, <1>6 DEF LastOf
<1> QED
    BY <1>4, <1>7, <1>8, <1>9

\* An accepted push: its versions join those of its entity, the last one is
\* the entity's new row.
LEMMA PushKeepsHistory ==
    ASSUME NEW B, NEW table \in SUBSET RowsOver(B), NEW versions \in SUBSET RowsOver(B), NEW d,
           NEW chain \in Seq(VersionsOver(B)), ChainError(d, table, versions, chain) = "Ok",
           \A i \in DOMAIN chain : chain[i].body.id = chain[1].body.id,
           \A i \in DOMAIN chain : Verify(chain[i]) => chain[i].body.count = Len(chain[i].hash),
           History(table, versions),
           NEW new,
           new = {r \in table : r.ver.body.id # chain[1].body.id} \cup {Unstamped(LastOf(chain))}
    PROVE  History(new, InsertVersions(versions, chain))
<1> DEFINE id   == chain[1].body.id
           last == Unstamped(LastOf(chain))
           more == InsertVersions(versions, chain)
           m    == Len(chain[1].ancestor)
           added == {Unstamped(chain[i]) : i \in DOMAIN chain}
<1>1. /\ chain # << >> /\ (\A i \in DOMAIN chain : Verify(chain[i])) /\ Linked(chain)
      /\ chain[1].ancestor = Present(table, id)
    <2>1. chain # << >>
        BY OkChainNonEmpty
    <2>2. \A i \in DOMAIN chain : Verify(chain[i])
        BY <2>1 DEF ChainError
    <2>3. ~IsDeleted(d, id)
        BY <2>1, <2>2 DEF ChainError
    <2>4. chain[1].ancestor = Present(table, id)
        BY <2>1, <2>2, <2>3 DEF ChainError, Present
    <2>5. Linked(chain)
        BY <2>1, <2>2, <2>3, <2>4 DEF ChainError, Present
    <2> QED
        BY <2>1, <2>2, <2>4, <2>5
<1>2. /\ LastOf(chain).hash \in Seq(B) /\ m \in Nat /\ Len(LastOf(chain).hash) = m + Len(chain)
      /\ chain[1].ancestor = SubSeq(LastOf(chain).hash, 1, m)
      /\ \A i \in DOMAIN chain : chain[i].hash = SubSeq(LastOf(chain).hash, 1, m + i)
    BY <1>1, HashesArePrefixes
<1>3. /\ DOMAIN chain = 1 .. Len(chain) /\ Len(chain) \in DOMAIN chain /\ Len(chain) \in Nat
      /\ last = Unstamped(chain[Len(chain)]) /\ last.ver = LastOf(chain) /\ last.ver.body.id = id
    BY <1>1 DEF LastOf, Unstamped
<1>4. more = versions \cup added /\ last \in added
    BY <1>3 DEF InsertVersions, Unstamped
<1>5. \A x \in added : x.ver.body.id = id
    BY DEF Unstamped
<1>6. HashesOf(RowsOf(versions, id)) = Prefixes(chain[1].ancestor)
    <2>1. CASE RowsOf(table, id) = {}
        <3>1. RowsOf(versions, id) = {}
            <4>1. id \notin LiveIds(table)
                BY <2>1 DEF RowsOf, LiveIds
            <4>2. id \notin LiveIds(versions)
                BY <4>1 DEF History
            <4> HIDE DEF id
            <4> QED
                BY <4>2 DEF RowsOf, LiveIds
        <3>2. chain[1].ancestor = << >>
            BY <2>1, <1>1 DEF Present, ZERO_HASH
        <3>3. Prefixes(<< >>) = {}
            BY DEF Prefixes
        <3> QED
            BY <3>1, <3>2, <3>3 DEF HashesOf
    <2>2. CASE RowsOf(table, id) # {}
        <3>1. PICK r \in RowsOf(table, id) : chain[1].ancestor = r.ver.hash
            BY <2>2, <1>1 DEF Present
        <3>2. r \in table /\ r.ver.body.id = id
            BY <3>1 DEF RowsOf
        <3>3. {v.hash : v \in {x.ver : x \in RowsOf(versions, id)}} = Prefixes(r.ver.hash)
            BY <3>2 DEF History, ChainOf, Prefixes
        <3> QED
            BY <3>1, <3>3 DEF HashesOf
    <2> QED
        BY <2>1, <2>2
<1>7. \A x \in RowsOf(versions, id) : Verify(x.ver) /\ x.ver.body.count = Len(x.ver.hash)
    <2> SUFFICES ASSUME NEW x \in RowsOf(versions, id)
                 PROVE  Verify(x.ver) /\ x.ver.body.count = Len(x.ver.hash)
        OBVIOUS
    <2>1. id \in LiveIds(table)
        BY DEF History, LiveIds, RowsOf
    <2>2. PICK r \in table : r.ver.body.id = id
        BY <2>1 DEF LiveIds
    <2> QED
        BY <2>2 DEF History, ChainOf
<1>8. \A x \in added : Verify(x.ver) /\ x.ver.body.count = Len(x.ver.hash)
    BY <1>1 DEF Unstamped
<1>9. Prefixes(LastOf(chain).hash) = Prefixes(chain[1].ancestor) \cup HashesOf(added)
    <2> DEFINE h == LastOf(chain).hash
    <2>1. HashesOf(added) = {SubSeq(h, 1, m + i) : i \in 1 .. Len(chain)}
        <3>1. \A i \in DOMAIN chain : Unstamped(chain[i]).ver.hash = SubSeq(h, 1, m + i)
            BY <1>2 DEF Unstamped
        <3>2. HashesOf(added) = {Unstamped(chain[i]).ver.hash : i \in DOMAIN chain}
            BY DEF HashesOf
        <3> HIDE DEF h, m, added
        <3> QED
            BY <3>1, <3>2, <1>3
    <2>2. h \in Seq(B) /\ m \in Nat /\ Len(h) = m + Len(chain) /\ Len(chain) \in Nat
        BY <1>2, <1>3
    <2>3. chain[1].ancestor = SubSeq(h, 1, m)
        BY <1>2
    <2> HIDE DEF h, added
    <2>4. \A n \in 1 .. m : SubSeq(SubSeq(h, 1, m), 1, n) = SubSeq(h, 1, n)
        BY <2>2
    <2>5. Prefixes(SubSeq(h, 1, m)) = {SubSeq(h, 1, n) : n \in 1 .. m}
        <3>1. Len(SubSeq(h, 1, m)) = m
            BY <2>2
        <3> QED
            BY <2>4, <3>1 DEF Prefixes
    <2> HIDE DEF m
    <2>6. \A n \in 1 .. Len(h) : n \in 1 .. m \/ (n - m \in 1 .. Len(chain) /\ m + (n - m) = n)
        BY <2>2
    <2>7. ASSUME NEW n \in 1 .. Len(h)
          PROVE  SubSeq(h, 1, n) \in {SubSeq(h, 1, k) : k \in 1 .. m} \cup {SubSeq(h, 1, m + i) : i \in 1 .. Len(chain)}
        <3>1. CASE n \in 1 .. m
            BY <3>1
        <3>2. CASE n - m \in 1 .. Len(chain) /\ m + (n - m) = n
            <4>1. SubSeq(h, 1, m + (n - m)) \in {SubSeq(h, 1, m + i) : i \in 1 .. Len(chain)}
                BY <3>2
            <4> QED
                BY <4>1, <3>2
        <3> QED
            BY <2>6, <3>1, <3>2
    <2>8. ASSUME NEW i \in 1 .. Len(chain) PROVE m + i \in 1 .. Len(h)
        BY <2>2
    <2>9. \A n \in 1 .. m : n \in 1 .. Len(h)
        BY <2>2
    <2>10. Prefixes(h) \subseteq {SubSeq(h, 1, k) : k \in 1 .. m} \cup {SubSeq(h, 1, m + i) : i \in 1 .. Len(chain)}
        BY <2>7 DEF Prefixes
    <2>11. {SubSeq(h, 1, k) : k \in 1 .. m} \cup {SubSeq(h, 1, m + i) : i \in 1 .. Len(chain)} \subseteq Prefixes(h)
        BY <2>8, <2>9 DEF Prefixes
    <2> QED
        BY <2>1, <2>3, <2>5, <2>10, <2>11 DEF h
<1> HIDE DEF added, more, last, m
<1>10. RowsOf(more, id) = RowsOf(versions, id) \cup added
    BY <1>4, <1>5 DEF RowsOf
<1>11. \A x : x # id => RowsOf(more, x) = RowsOf(versions, x)
    BY <1>4, <1>5 DEF RowsOf
<1>12. HashesOf(RowsOf(more, id)) = Prefixes(last.ver.hash)
    <2>1. HashesOf(RowsOf(more, id)) = HashesOf(RowsOf(versions, id)) \cup HashesOf(added)
        BY <1>10 DEF HashesOf
    <2> QED
        BY <2>1, <1>3, <1>6, <1>9
<1>13. ASSUME NEW r \in new, r.ver.body.id = id
       PROVE  /\ HashesOf(RowsOf(more, id)) = Prefixes(r.ver.hash)
              /\ \A x \in RowsOf(more, id) : Verify(x.ver) /\ x.ver.body.count = Len(x.ver.hash)
              /\ r \in more
    <2>1. r = last
        BY <1>13 DEF last
    <2> QED
        BY <2>1, <1>4, <1>7, <1>8, <1>10, <1>12
<1>14. ASSUME NEW r \in new, r.ver.body.id # id
       PROVE  /\ HashesOf(RowsOf(more, r.ver.body.id)) = Prefixes(r.ver.hash)
              /\ \A x \in RowsOf(more, r.ver.body.id) : Verify(x.ver) /\ x.ver.body.count = Len(x.ver.hash)
              /\ r \in more
    <2>1. r \in table
        BY <1>14, <1>3 DEF last
    <2>2. RowsOf(more, r.ver.body.id) = RowsOf(versions, r.ver.body.id)
        BY <1>11, <1>14
    <2>3. \A x \in RowsOf(versions, r.ver.body.id) : Verify(x.ver) /\ x.ver.body.count = Len(x.ver.hash)
        BY <2>1 DEF History, ChainOf
    <2>4. {v.hash : v \in {x.ver : x \in RowsOf(versions, r.ver.body.id)}} = Prefixes(r.ver.hash)
        BY <2>1 DEF History, ChainOf, Prefixes
    <2>5. HashesOf(RowsOf(versions, r.ver.body.id)) = Prefixes(r.ver.hash)
        BY <2>4 DEF HashesOf
    <2>6. r \in versions
        BY <2>1 DEF History, ChainOf
    <2> QED
        BY <2>2, <2>3, <2>5, <2>6, <1>4
<1>15. ChainOf(new, more)
    <2> SUFFICES ASSUME NEW r \in new
                 PROVE  LET V == {x.ver : x \in RowsOf(more, r.ver.body.id)}
                        IN  /\ {v.hash : v \in V} = {SubSeq(r.ver.hash, 1, n) : n \in 1 .. Len(r.ver.hash)}
                            /\ \A v \in V : Verify(v) /\ v.body.count = Len(v.hash)
                            /\ r \in more
        BY DEF ChainOf
    <2>1. /\ HashesOf(RowsOf(more, r.ver.body.id)) = Prefixes(r.ver.hash)
          /\ \A x \in RowsOf(more, r.ver.body.id) : Verify(x.ver) /\ x.ver.body.count = Len(x.ver.hash)
          /\ r \in more
        BY <1>13, <1>14
    <2>2. {v.hash : v \in {x.ver : x \in RowsOf(more, r.ver.body.id)}} = HashesOf(RowsOf(more, r.ver.body.id))
        BY DEF HashesOf
    <2> QED
        BY <2>1, <2>2 DEF Prefixes
<1>16. LiveIds(more) = LiveIds(new)
    <2>1. LiveIds(more) = LiveIds(versions) \cup {id}
        BY <1>4, <1>5 DEF LiveIds
    <2>2. LiveIds(new) = (LiveIds(table) \ {id}) \cup {id}
        <3>1. new = {r \in table : r.ver.body.id # id} \cup {last}
            BY DEF last
        <3> HIDE DEF id
        <3> QED
            BY <3>1, <1>3 DEF LiveIds
    <2> QED
        BY <2>1, <2>2 DEF History
<1> QED
    BY <1>15, <1>16 DEF History, more

\* A deletion takes the row and every version of its entity.
LEMMA DeleteKeepsHistory ==
    ASSUME NEW table, NEW versions, NEW id, History(table, versions)
    PROVE  History(table \ RowsOf(table, id), versions \ RowsOf(versions, id))
<1> DEFINE left == table \ RowsOf(table, id)
           kept == versions \ RowsOf(versions, id)
<1>1. /\ \A r \in left : r \in table /\ r.ver.body.id # id
      /\ \A r \in kept : r \in versions /\ r.ver.body.id # id
      /\ \A r \in versions : r.ver.body.id # id => r \in kept
    BY DEF RowsOf
<1>2. \A x : x # id => RowsOf(kept, x) = RowsOf(versions, x)
    BY DEF RowsOf
<1>3. LiveIds(left) = LiveIds(table) \ {id} /\ LiveIds(kept) = LiveIds(versions) \ {id}
    BY DEF LiveIds, RowsOf
<1> HIDE DEF left, kept
<1>4. ChainOf(left, kept)
    BY <1>1, <1>2 DEF ChainOf, History
<1> QED
    BY <1>3, <1>4 DEF History, left, kept

\* The rows of the entities a transaction has pushed are not stamped yet.
FreshRows(table, ids) == \A r \in table : r.ver.body.id \in ids => r.stamp = 0

\* A commit stamps a current row and the version it came from alike.
LEMMA StampKeepsHistory ==
    ASSUME NEW B, NEW table \in SUBSET RowsOver(B), NEW versions \in SUBSET RowsOver(B),
           NEW ids, NEW seq \in Nat, History(table, versions), FreshRows(table, ids)
    PROVE  History(StampRows(table, ids, seq), StampVersions(versions, ids, seq))
<1> DEFINE now  == StampRows(table, ids, seq)
           then == StampVersions(versions, ids, seq)
           Row(r) == IF r.ver.body.id \in ids THEN [r EXCEPT !.stamp = seq] ELSE r
           Ver(r) == IF r.ver.body.id \in ids /\ r.stamp = 0 THEN [r EXCEPT !.stamp = seq] ELSE r
<1>1. now = {Row(r) : r \in table} /\ then = {Ver(r) : r \in versions}
    BY DEF StampRows, StampVersions
<1>2. ASSUME NEW r \in RowsOver(B) PROVE Row(r).ver = r.ver /\ Ver(r).ver = r.ver
    BY DEF RowsOver
<1>3. \A r \in table : Row(r) = Ver(r)
    BY DEF FreshRows
<1> HIDE DEF now, then, Row, Ver
<1>4. LiveIds(now) = LiveIds(table) /\ LiveIds(then) = LiveIds(versions)
    BY <1>1, <1>2 DEF LiveIds
<1>5. ASSUME NEW x PROVE {v.ver : v \in RowsOf(then, x)} = {v.ver : v \in RowsOf(versions, x)}
    BY <1>1, <1>2 DEF RowsOf
<1>6. ChainOf(now, then)
    <2> SUFFICES ASSUME NEW q \in now
                 PROVE  LET V == {x.ver : x \in RowsOf(then, q.ver.body.id)}
                        IN  /\ {v.hash : v \in V} = {SubSeq(q.ver.hash, 1, n) : n \in 1 .. Len(q.ver.hash)}
                            /\ \A v \in V : Verify(v) /\ v.body.count = Len(v.hash)
                            /\ q \in then
        BY DEF ChainOf
    <2> PICK r \in table : q = Row(r)
        BY <1>1
    <2>1. r \in versions
        BY DEF History, ChainOf
    <2>2. Row(r) \in then
        BY <2>1, <1>1, <1>3
    <2>3. /\ {v.hash : v \in {x.ver : x \in RowsOf(versions, r.ver.body.id)}}
                = {SubSeq(r.ver.hash, 1, n) : n \in 1 .. Len(r.ver.hash)}
          /\ \A v \in {x.ver : x \in RowsOf(versions, r.ver.body.id)} : Verify(v) /\ v.body.count = Len(v.hash)
        BY DEF History, ChainOf
    <2>4. Row(r).ver = r.ver
        BY <1>2
    <2> QED
        BY <2>2, <2>3, <2>4, <1>5
<1> QED
    BY <1>4, <1>6 DEF History, now, then

\* What holds of the committed tables and of the rows an open transaction sees.
HInv ==
    /\ TypeOK /\ HistoryIsChain
    /\ tx.open =>
        /\ History(tx.work.cards, tx.work.cardVersions)
        /\ History(tx.work.tags, tx.work.tagVersions)
        /\ FreshRows(tx.work.cards, IdsTouched(tx.items, {"cards"}))
        /\ FreshRows(tx.work.tags, IdsTouched(tx.items, {"tags"}))

\* What an item does to one kind of rows: it leaves them alone, adds a chain,
\* or removes an entity.
Kept(table, versions, new, newVersions) == new = table /\ newVersions = versions

Pushed(B, d, chain, table, versions, new, newVersions) ==
    /\ chain \in Seq(VersionsOver(B)) /\ ChainError(d, table, versions, chain) = "Ok"
    /\ \A i \in DOMAIN chain : chain[i].body.id = chain[1].body.id
    /\ \A i \in DOMAIN chain : Verify(chain[i]) => chain[i].body.count = Len(chain[i].hash)
    /\ new = {r \in table : r.ver.body.id # chain[1].body.id} \cup {Unstamped(LastOf(chain))}
    /\ newVersions = InsertVersions(versions, chain)

Removed(id, table, versions, new, newVersions) ==
    new = table \ RowsOf(table, id) /\ newVersions = versions \ RowsOf(versions, id)

\* Each of them keeps the history, and rows without a stamp where they belong.
LEMMA PushedKeeps ==
    ASSUME NEW B, NEW table \in SUBSET RowsOver(B), NEW versions \in SUBSET RowsOver(B), NEW d,
           NEW chain, NEW new, NEW newVersions, NEW ids,
           History(table, versions), FreshRows(table, ids),
           Pushed(B, d, chain, table, versions, new, newVersions)
    PROVE  History(new, newVersions) /\ FreshRows(new, ids \cup {chain[1].body.id})
<1>1. FreshRows(new, ids \cup {chain[1].body.id})
    BY DEF Pushed, FreshRows, Unstamped
<1>2. History(new, InsertVersions(versions, chain))
    BY PushKeepsHistory DEF Pushed
<1> QED
    BY <1>1, <1>2 DEF Pushed

LEMMA RemovedKeeps ==
    ASSUME NEW id, NEW table, NEW versions, NEW new, NEW newVersions, NEW ids,
           History(table, versions), FreshRows(table, ids),
           Removed(id, table, versions, new, newVersions)
    PROVE  History(new, newVersions) /\ FreshRows(new, ids)
<1>1. FreshRows(new, ids)
    BY DEF Removed, FreshRows
<1> QED
    BY <1>1, DeleteKeepsHistory DEF Removed

LEMMA TouchedAlso ==
    ASSUME NEW items \in Seq(PushItem), NEW item \in PushItem, NEW ops
    PROVE  IdsTouched(Append(items, item), ops)
             = IF item.op \in ops THEN IdsTouched(items, ops) \cup {ItemId(item)}
                                  ELSE IdsTouched(items, ops)
<1> DEFINE more == Append(items, item)
<1>1. /\ DOMAIN more = DOMAIN items \cup {Len(items) + 1}
      /\ more[Len(items) + 1] = item
      /\ \A i \in DOMAIN items : more[i] = items[i]
    OBVIOUS
<1> HIDE DEF more
<1>2. IdsTouched(more, ops)
        = {ItemId(items[i]) : i \in {j \in DOMAIN items : items[j].op \in ops}}
          \cup {ItemId(item) : i \in {j \in {Len(items) + 1} : item.op \in ops}}
    BY <1>1 DEF IdsTouched
<1> QED
    BY <1>2 DEF IdsTouched, more

LEMMA PushCardsRows ==
    ASSUME NEW d \in Tables, NEW item \in CardPushes, ItemError(d, item) = "Ok"
    PROVE  LET e == ItemEffect(d, item)
           IN  /\ Pushed(CardBody, d, item.chain, d.cards, d.cardVersions, e.cards, e.cardVersions)
               /\ Kept(d.tags, d.tagVersions, e.tags, e.tagVersions)
<1> DEFINE chain == item.chain
           v == LastOf(chain)
           e == PushCards(d, chain)
<1>1. item.op = "cards" /\ chain \in CardChains /\ PushCardsError(d, chain) = "Ok"
      /\ ItemEffect(d, item) = e
    BY DEF ItemError, ItemEffect, CardPushes
<1>2. ChainError(d, d.cards, d.cardVersions, chain) = "Ok" /\ ~PriorityTaken(d, v)
    BY <1>1 DEF PushCardsError
<1>3. chain \in Seq(VersionsOver(CardBody)) /\ chain # << >>
    BY <1>1, <1>2, CardChainsTyped, OkChainNonEmpty DEF CardVersion
<1>4. /\ \A i \in DOMAIN chain : chain[i].body.id = chain[1].body.id
      /\ \A i \in DOMAIN chain : Verify(chain[i]) => chain[i].body.count = Len(chain[i].hash)
    BY <1>1, ChainsOfOneEntity, CountsOfChains
<1>5. v.body.id = chain[1].body.id
    BY <1>3, <1>4 DEF LastOf
<1>6. /\ e.cards = ReplaceCard(d.cards, v) /\ e.cardVersions = InsertVersions(d.cardVersions, chain)
      /\ e.tags = d.tags /\ e.tagVersions = d.tagVersions
    BY DEF PushCards, Tables
<1> HIDE DEF e, v, chain
<1>7. ReplaceCard(d.cards, v) = {r \in d.cards : r.ver.body.id # chain[1].body.id} \cup {Unstamped(v)}
    <2>1. {r \in d.cards : r.ver.body.id # v.body.id /\ r.ver.body.priority # v.body.priority}
            = {r \in d.cards : r.ver.body.id # v.body.id}
        BY <1>2 DEF PriorityTaken
    <2> QED
        BY <2>1, <1>5 DEF ReplaceCard, Unstamped
<1>8. Kept(d.tags, d.tagVersions, e.tags, e.tagVersions)
    BY <1>6 DEF Kept
<1>9. Pushed(CardBody, d, chain, d.cards, d.cardVersions, e.cards, e.cardVersions)
    BY <1>2, <1>3, <1>4, <1>6, <1>7 DEF Pushed, v
<1> QED
    BY <1>1, <1>8, <1>9 DEF chain

LEMMA PushTagsRows ==
    ASSUME NEW d \in Tables, NEW item \in TagPushes, ItemError(d, item) = "Ok"
    PROVE  LET e == ItemEffect(d, item)
           IN  /\ Pushed(TagBody, d, item.chain, d.tags, d.tagVersions, e.tags, e.tagVersions)
               /\ Kept(d.cards, d.cardVersions, e.cards, e.cardVersions)
<1> DEFINE chain == item.chain
           v == LastOf(chain)
           e == PushTags(d, chain)
<1>1. item.op = "tags" /\ chain \in TagChains /\ PushTagsError(d, chain) = "Ok"
      /\ ItemEffect(d, item) = e
    BY DEF ItemError, ItemEffect, TagPushes
<1>2. ChainError(d, d.tags, d.tagVersions, chain) = "Ok"
    BY <1>1 DEF PushTagsError
<1>3. chain \in Seq(VersionsOver(TagBody)) /\ chain # << >>
    BY <1>1, <1>2, TagChainsTyped, OkChainNonEmpty DEF TagVersion
<1>4. /\ \A i \in DOMAIN chain : chain[i].body.id = chain[1].body.id
      /\ \A i \in DOMAIN chain : Verify(chain[i]) => chain[i].body.count = Len(chain[i].hash)
    BY <1>1, ChainsOfOneEntity, CountsOfChains
<1>5. v.body.id = chain[1].body.id
    BY <1>3, <1>4 DEF LastOf
<1>6. /\ e.tags = ReplaceTag(d.tags, v) /\ e.tagVersions = InsertVersions(d.tagVersions, chain)
      /\ e.cards = d.cards /\ e.cardVersions = d.cardVersions
    BY DEF PushTags, Tables
<1> HIDE DEF e, v, chain
<1>7. ReplaceTag(d.tags, v) = {r \in d.tags : r.ver.body.id # chain[1].body.id} \cup {Unstamped(v)}
    BY <1>5 DEF ReplaceTag, RowsOf, Unstamped
<1>8. Kept(d.cards, d.cardVersions, e.cards, e.cardVersions)
    BY <1>6 DEF Kept
<1>9. Pushed(TagBody, d, chain, d.tags, d.tagVersions, e.tags, e.tagVersions)
    BY <1>2, <1>3, <1>4, <1>6, <1>7 DEF Pushed, v
<1> QED
    BY <1>1, <1>8, <1>9 DEF chain

LEMMA DeleteRows ==
    ASSUME NEW d \in Tables, NEW item \in CardDeletes \cup TagDeletes
    PROVE  LET e == ItemEffect(d, item)
           IN  \/ /\ Removed(item.id, d.cards, d.cardVersions, e.cards, e.cardVersions)
                  /\ Kept(d.tags, d.tagVersions, e.tags, e.tagVersions)
               \/ /\ Removed(item.id, d.tags, d.tagVersions, e.tags, e.tagVersions)
                  /\ Kept(d.cards, d.cardVersions, e.cards, e.cardVersions)
<1>1. CASE item \in CardDeletes
    <2>1. ItemEffect(d, item) = DeleteCard(d, item.id)
        BY <1>1 DEF CardDeletes, ItemEffect
    <2> QED
        BY <2>1 DEF DeleteCard, Tables, Removed, Kept
<1>2. CASE item \in TagDeletes
    <2>1. ItemEffect(d, item) = DeleteTag(d, item.id)
        BY <1>2 DEF TagDeletes, ItemEffect
    <2> QED
        BY <2>1 DEF DeleteTag, Tables, Removed, Kept
<1> QED
    BY <1>1, <1>2

LEMMA ApplyItemHistory == ASSUME HInv, NEW item \in PushItem, ApplyItem(item) PROVE HInv'
<1> DEFINE d == tx.work
           e == ItemEffect(d, item)
           items == tx.items
           more == Append(items, item)
<1>1. /\ tx.open /\ db' = db /\ ItemError(d, item) = "Ok"
      /\ d \in Tables /\ items \in Seq(PushItem)
      /\ tx'.open /\ tx'.work = e /\ tx'.items = more
    BY DEF ApplyItem, HInv, TypeOK, TxState
<1>2. TypeOK' /\ HistoryIsChain'
    BY <1>1, TypeInductive DEF HInv, Next, HistoryIsChain
<1>3. /\ d.cards \in SUBSET RowsOver(CardBody) /\ d.cardVersions \in SUBSET RowsOver(CardBody)
      /\ d.tags \in SUBSET RowsOver(TagBody) /\ d.tagVersions \in SUBSET RowsOver(TagBody)
    BY <1>1 DEF Tables, RowsOver, CardRow, TagRow, CardVersion, TagVersion
<1>4. /\ History(d.cards, d.cardVersions) /\ FreshRows(d.cards, IdsTouched(items, {"cards"}))
      /\ History(d.tags, d.tagVersions) /\ FreshRows(d.tags, IdsTouched(items, {"tags"}))
    BY <1>1 DEF HInv
<1>5. \A ops : IdsTouched(more, ops)
                 = IF item.op \in ops THEN IdsTouched(items, ops) \cup {ItemId(item)}
                                      ELSE IdsTouched(items, ops)
    BY <1>1, TouchedAlso
<1> HIDE DEF d, e, items, more
<1>6. CASE item \in CardPushes
    <2>1. item.op = "cards" /\ ItemId(item) = item.chain[1].body.id
        BY <1>6 DEF CardPushes, ItemId
    <2>2. /\ IdsTouched(more, {"cards"}) = IdsTouched(items, {"cards"}) \cup {item.chain[1].body.id}
          /\ IdsTouched(more, {"tags"}) = IdsTouched(items, {"tags"})
        BY <2>1, <1>5
    <2>3. /\ Pushed(CardBody, d, item.chain, d.cards, d.cardVersions, e.cards, e.cardVersions)
          /\ Kept(d.tags, d.tagVersions, e.tags, e.tagVersions)
        BY <1>1, <1>6, PushCardsRows DEF e
    <2>4. History(e.cards, e.cardVersions) /\ FreshRows(e.cards, IdsTouched(more, {"cards"}))
        <3>1. /\ History(e.cards, e.cardVersions)
              /\ FreshRows(e.cards, IdsTouched(items, {"cards"}) \cup {item.chain[1].body.id})
            BY <2>3, <1>3, <1>4, PushedKeeps
        <3> QED
            BY <3>1, <2>2
    <2>5. History(e.tags, e.tagVersions) /\ FreshRows(e.tags, IdsTouched(more, {"tags"}))
        BY <2>2, <2>3, <1>4 DEF Kept
    <2> QED
        BY <2>4, <2>5, <1>1, <1>2 DEF HInv
<1>7. CASE item \in TagPushes
    <2>1. item.op = "tags" /\ ItemId(item) = item.chain[1].body.id
        BY <1>7 DEF TagPushes, ItemId
    <2>2. /\ IdsTouched(more, {"tags"}) = IdsTouched(items, {"tags"}) \cup {item.chain[1].body.id}
          /\ IdsTouched(more, {"cards"}) = IdsTouched(items, {"cards"})
        BY <2>1, <1>5
    <2>3. /\ Pushed(TagBody, d, item.chain, d.tags, d.tagVersions, e.tags, e.tagVersions)
          /\ Kept(d.cards, d.cardVersions, e.cards, e.cardVersions)
        BY <1>1, <1>7, PushTagsRows DEF e
    <2>4. History(e.tags, e.tagVersions) /\ FreshRows(e.tags, IdsTouched(more, {"tags"}))
        <3>1. /\ History(e.tags, e.tagVersions)
              /\ FreshRows(e.tags, IdsTouched(items, {"tags"}) \cup {item.chain[1].body.id})
            BY <2>3, <1>3, <1>4, PushedKeeps
        <3> QED
            BY <3>1, <2>2
    <2>5. History(e.cards, e.cardVersions) /\ FreshRows(e.cards, IdsTouched(more, {"cards"}))
        BY <2>2, <2>3, <1>4 DEF Kept
    <2> QED
        BY <2>4, <2>5, <1>1, <1>2 DEF HInv
<1>8. CASE item \in CardDeletes \cup TagDeletes
    <2>1. item.op \in {"deleteCard", "deleteTag"}
        BY <1>8 DEF CardDeletes, TagDeletes
    <2>2. /\ IdsTouched(more, {"tags"}) = IdsTouched(items, {"tags"})
          /\ IdsTouched(more, {"cards"}) = IdsTouched(items, {"cards"})
        BY <2>1, <1>5
    <2>3. \/ /\ Removed(item.id, d.cards, d.cardVersions, e.cards, e.cardVersions)
             /\ Kept(d.tags, d.tagVersions, e.tags, e.tagVersions)
          \/ /\ Removed(item.id, d.tags, d.tagVersions, e.tags, e.tagVersions)
             /\ Kept(d.cards, d.cardVersions, e.cards, e.cardVersions)
        BY <1>1, <1>8, DeleteRows DEF e
    <2>4. History(e.cards, e.cardVersions) /\ FreshRows(e.cards, IdsTouched(more, {"cards"}))
        BY <2>2, <2>3, <1>4, RemovedKeeps DEF Kept
    <2>5. History(e.tags, e.tagVersions) /\ FreshRows(e.tags, IdsTouched(more, {"tags"}))
        BY <2>2, <2>3, <1>4, RemovedKeeps DEF Kept
    <2> QED
        BY <2>4, <2>5, <1>1, <1>2 DEF HInv
<1> QED
    BY <1>6, <1>7, <1>8 DEF PushItem

LEMMA CommitHistory == ASSUME HInv, Commit PROVE HInv'
<1> DEFINE d == tx.work
           items == tx.items
           p == Publish(d, items)
           seq == d.root.sequence + 1
<1>1. tx.open /\ db' = p /\ ~tx'.open /\ d \in Tables
    BY DEF Commit, NoTx, HInv, TypeOK, TxState
<1>2. /\ p.cards = StampRows(d.cards, IdsTouched(items, {"cards"}), seq)
      /\ p.tags = StampRows(d.tags, IdsTouched(items, {"tags"}), seq)
      /\ p.cardVersions = StampVersions(d.cardVersions, IdsTouched(items, {"cards"}), seq)
      /\ p.tagVersions = StampVersions(d.tagVersions, IdsTouched(items, {"tags"}), seq)
      /\ seq \in Nat
    <2> DEFINE e == RecomputeRootForIds(d, {ItemId(items[i]) : i \in DOMAIN items})
    <2>1. e \in Tables
        BY <1>1, RecomputeRootTyped
    <2>2. /\ e.cards = d.cards /\ e.tags = d.tags
          /\ e.cardVersions = d.cardVersions /\ e.tagVersions = d.tagVersions
          /\ e.root.sequence = seq /\ seq \in Nat
        BY <1>1 DEF RecomputeRootForIds, Tables, RootState
    <2>3. p = StampSequences(e, items)
        BY DEF Publish
    <2> HIDE DEF e, p, seq, d, items
    <2>4. /\ StampSequences(e, items).cards = StampRows(e.cards, IdsTouched(items, {"cards"}), e.root.sequence)
          /\ StampSequences(e, items).tags = StampRows(e.tags, IdsTouched(items, {"tags"}), e.root.sequence)
          /\ StampSequences(e, items).cardVersions
                = StampVersions(e.cardVersions, IdsTouched(items, {"cards"}), e.root.sequence)
          /\ StampSequences(e, items).tagVersions
                = StampVersions(e.tagVersions, IdsTouched(items, {"tags"}), e.root.sequence)
        BY <2>1 DEF StampSequences, Tables
    <2> QED
        BY <2>2, <2>3, <2>4
<1>3. /\ d.cards \in SUBSET RowsOver(CardBody) /\ d.cardVersions \in SUBSET RowsOver(CardBody)
      /\ d.tags \in SUBSET RowsOver(TagBody) /\ d.tagVersions \in SUBSET RowsOver(TagBody)
    BY <1>1 DEF Tables, RowsOver, CardRow, TagRow, CardVersion, TagVersion
<1>4. /\ History(d.cards, d.cardVersions) /\ FreshRows(d.cards, IdsTouched(items, {"cards"}))
      /\ History(d.tags, d.tagVersions) /\ FreshRows(d.tags, IdsTouched(items, {"tags"}))
    BY <1>1 DEF HInv
<1>5. TypeOK'
    BY TypeInductive DEF HInv, Next
<1> HIDE DEF d, items, p, seq
<1>6. History(p.cards, p.cardVersions) /\ History(p.tags, p.tagVersions)
    BY <1>2, <1>3, <1>4, StampKeepsHistory
<1>7. HistoryIsChain'
    BY <1>1, <1>6 DEF HistoryIsChain, History
<1> QED
    BY <1>1, <1>5, <1>7 DEF HInv

LEMMA HInvInit == Init => HInv
<1> SUFFICES ASSUME Init PROVE HInv
    OBVIOUS
<1>1. TypeOK
    BY EmptyTyped DEF Init, TypeOK, EmptyTables
<1>2. db = EmptyTables /\ ~tx.open
    BY DEF Init, NoTx
<1>3. HistoryIsChain
    BY <1>2 DEF HistoryIsChain, ChainOf, LiveIds, EmptyTables
<1> QED
    BY <1>1, <1>2, <1>3 DEF HInv

LEMMA HInvNext == HInv /\ [Next]_vars => HInv'
<1> SUFFICES ASSUME HInv, [Next]_vars PROVE HInv'
    OBVIOUS
<1>0. TypeOK'
    BY TypeInductive DEF HInv
<1>1. ASSUME NEW kind \in Kinds, Begin(kind) PROVE HInv'
    <2>1. db' = db /\ tx'.work = db /\ tx'.items = << >>
        BY <1>1 DEF Begin
    <2>2. \A ops : IdsTouched(<< >>, ops) = {}
        BY DEF IdsTouched
    <2>3. HistoryIsChain'
        BY <2>1 DEF HInv, HistoryIsChain
    <2>4. History(db.cards, db.cardVersions) /\ History(db.tags, db.tagVersions)
        BY DEF HInv, HistoryIsChain, History
    <2> QED
        BY <1>0, <2>1, <2>2, <2>3, <2>4 DEF HInv, FreshRows
<1>2. ASSUME NEW item \in PushItem, ApplyItem(item) PROVE HInv'
    BY <1>2, ApplyItemHistory
<1>3. ASSUME db' = db, tx' = NoTx PROVE HInv'
    BY <1>0, <1>3 DEF HInv, HistoryIsChain, NoTx
<1>4. CASE Commit
    BY <1>4, CommitHistory
<1>5. CASE UNCHANGED vars
    BY <1>0, <1>5 DEF vars, HInv, HistoryIsChain
<1> QED
    BY <1>1, <1>2, <1>3, <1>4, <1>5 DEF Next, RejectItem, RejectBatch, Crash

\* The version rows of a live entity are one unbroken chain from its first
\* version to its current row, with the stamp of that row, and a deleted entity
\* has none left: batches that push and delete one entity several times, races
\* for a priority, rejected and crashed transactions included. It rests on
\* the counts clients give their versions (CountsOfChains).
THEOREM HistoryStaysChain == Spec => []HistoryIsChain
<1>1. HInv => HistoryIsChain
    BY DEF HInv
<1> QED
    BY <1>1, HInvInit, HInvNext, PTL DEF Spec
=============================================================================
