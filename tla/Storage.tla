------------------------------ MODULE Storage -------------------------------
(***************************************************************************)
(* The server's SQLite store (server/src/storage/sqlite).                  *)
(*                                                                         *)
(* `db` is what is committed: one set of rows per table.  `tx` is the      *)
(* transaction the holder of the writer mutex has open: its own view of    *)
(* the tables and the items it has applied so far.  Readers use the other  *)
(* connection and see `db` only.                                           *)
(***************************************************************************)
EXTENDS Entity

CONSTANTS CardChains,   \* version chains clients may push for a card
          TagChains,    \* version chains clients may push for a tag
          Buckets,      \* the 256 buckets of the root hash
          BucketOf,     \* the bucket of each id
          MaxSequence,  \* bound on committed transactions
          MaxItems      \* bound on the items of one batch

ASSUME CardChainsTyped == CardChains \subseteq Seq(CardVersion)
ASSUME TagChainsTyped  == TagChains \subseteq Seq(TagVersion)
\* Card::next and Tag::next keep the id of the version they replace.  The
\* store relies on it: it looks up the id of the first version only.
ASSUME ChainsOfOneEntity ==
    \A chain \in CardChains \cup TagChains :
        \A i \in DOMAIN chain : chain[i].body.id = chain[1].body.id
\* Card::first and Tag::first count 1, `next` adds one to the count of the
\* version it replaces.  The store never compares counts with hashes.
ASSUME CountsOfChains ==
    \A chain \in CardChains \cup TagChains :
        \A i \in DOMAIN chain : Verify(chain[i]) => chain[i].body.count = Len(chain[i].hash)
ASSUME BucketOfTyped   == BucketOf \in [CardIds \cup TagIds -> Buckets]
ASSUME BoundsNat       == MaxSequence \in Nat /\ MaxItems \in Nat

VARIABLES db, tx

vars == <<db, tx>>

-----------------------------------------------------------------------------
(* Tables *)

CardRow    == [ver: CardVersion, stamp: Nat]
TagRow     == [ver: TagVersion, stamp: Nat]
DeletedRow == [id: CardIds \cup TagIds, stamp: Nat]

\* The runs of card, tag and tombstone hashes a bucket hash is computed
\* from; a tombstone's hash covers its id only.
BucketHash == [cards: SUBSET Seq(CardBody), tags: SUBSET Seq(TagBody),
               deleted: SUBSET (CardIds \cup TagIds)]
RootHash   == [Buckets -> BucketHash]
RootState  == [hash: RootHash, sequence: Nat]

Tables == [cards: SUBSET CardRow, cardVersions: SUBSET CardRow,
           tags: SUBSET TagRow, tagVersions: SUBSET TagRow,
           deleted: SUBSET DeletedRow,
           buckets: RootHash, root: RootState, rootHistory: SUBSET RootState]

EmptyBucket   == [cards |-> {}, tags |-> {}, deleted |-> {}]
ZeroRootHash  == [b \in Buckets |-> EmptyBucket]

EmptyTables ==
    [cards |-> {}, cardVersions |-> {}, tags |-> {}, tagVersions |-> {},
     deleted |-> {}, buckets |-> ZeroRootHash,
     root |-> [hash |-> ZeroRootHash, sequence |-> 0], rootHistory |-> {}]

\* SELECT ... WHERE id = ?
RowsOf(table, id) == {r \in table : r.ver.body.id = id}

IsDeleted(d, id) == \E r \in d.deleted : r.id = id

LiveIds(table) == {r.ver.body.id : r \in table}

-----------------------------------------------------------------------------
(* push_card_versions_inner, push_tag_versions_inner *)

LastOf(chain) == chain[Len(chain)]

\* The checks both pushes make, in their order, up to and including the
\* INSERTs into the versions table with its key (id, count).
ChainError(d, table, versions, chain) ==
    IF chain = << >> THEN "EmptyChain" ELSE
    LET id  == chain[1].body.id
        row == RowsOf(table, id)
        expected == IF row = {} THEN ZERO_HASH
                                ELSE (CHOOSE r \in row : TRUE).ver.hash
    IN  IF \E i \in DOMAIN chain : ~Verify(chain[i])
          THEN "HashVerificationFailed"
        ELSE IF IsDeleted(d, id)
          THEN "AlreadyDeleted"
        ELSE IF chain[1].ancestor # expected
          THEN IF row # {} THEN "AncestorMismatch" ELSE "HashVerificationFailed"
        ELSE IF ~Linked(chain)
          THEN "HashVerificationFailed"
        ELSE IF \E i \in DOMAIN chain :
                   \/ \E r \in versions : /\ r.ver.body.id = chain[i].body.id
                                          /\ r.ver.body.count = chain[i].body.count
                   \/ \E j \in DOMAIN chain : j # i /\ chain[j].body.count = chain[i].body.count
          THEN "Internal"
        ELSE "Ok"

\* Mutant: the priority of a first version only is checked.
PriorityTakenOnCreate(d, v) ==
    /\ v.body.count = 1
    /\ \E r \in d.cards : /\ r.ver.body.priority = v.body.priority
                          /\ r.ver.body.id # v.body.id

\* Another live card that already has the pushed priority.
PriorityTaken(d, v) ==
    \E r \in d.cards : /\ r.ver.body.priority = v.body.priority
                       /\ r.ver.body.id # v.body.id

PushCardsError(d, chain) ==
    LET e == ChainError(d, d.cards, d.cardVersions, chain)
    IN  IF e = "Ok" /\ PriorityTaken(d, LastOf(chain))
          THEN "DuplicatePriority" ELSE e

PushTagsError(d, chain) == ChainError(d, d.tags, d.tagVersions, chain)

\* Mutant: only the latest version of the chain is recorded.
InsertLastVersion(versions, chain) ==
    versions \cup {[ver |-> LastOf(chain), stamp |-> 0]}

\* INSERT INTO ..._versions for each version; rows start unstamped.
InsertVersions(versions, chain) ==
    versions \cup {[ver |-> chain[i], stamp |-> 0] : i \in DOMAIN chain}

\* INSERT OR REPLACE: every row in conflict with the new one on the primary
\* key or on a unique index is removed.  Card priorities have such an index.
ReplaceTag(table, v) ==
    (table \ RowsOf(table, v.body.id)) \cup {[ver |-> v, stamp |-> 0]}

\* Mutant: the INSERT leaves the sequence column out.
ReplaceCardUnstamped(table, v) ==
    (table \ RowsOf(table, v.body.id)) \cup {[ver |-> v]}

ReplaceCard(table, v) ==
    {r \in table : /\ r.ver.body.id # v.body.id
                   /\ r.ver.body.priority # v.body.priority}
    \cup {[ver |-> v, stamp |-> 0]}

PushCards(d, chain) ==
    [d EXCEPT !.cardVersions = InsertVersions(@, chain),
              !.cards = ReplaceCard(@, LastOf(chain))]

PushTags(d, chain) ==
    [d EXCEPT !.tagVersions = InsertVersions(@, chain),
              !.tags = ReplaceTag(@, LastOf(chain))]

-----------------------------------------------------------------------------
(* delete_card_inner, delete_tag_inner *)

DeleteCardError(d, id) ==
    IF IsDeleted(d, id) THEN "AlreadyDeleted"
    ELSE IF RowsOf(d.cards, id) = {} THEN "NotFound"
    ELSE "Ok"

\* Mutant: tags that imply the deleted one are not looked at.
DeleteTagCardsOnly(d, id) ==
    IF IsDeleted(d, id) THEN "AlreadyDeleted"
    ELSE IF RowsOf(d.tags, id) = {} THEN "NotFound"
    ELSE IF \E r \in d.cards : id \in r.ver.body.tags
      THEN "OrphanedTagReference"
    ELSE "Ok"

DeleteTagError(d, id) ==
    IF IsDeleted(d, id) THEN "AlreadyDeleted"
    ELSE IF RowsOf(d.tags, id) = {} THEN "NotFound"
    ELSE IF \E r \in d.cards : id \in r.ver.body.tags
      THEN "OrphanedTagReference"
    ELSE IF \E r \in d.tags : r.ver.body.id # id /\ id \in r.ver.body.implies
      THEN "OrphanedTagImpliesReference"
    ELSE "Ok"

AddTombstone(deleted, id) ==
    {r \in deleted : r.id # id} \cup {[id |-> id, stamp |-> 0]}

DeleteCard(d, id) ==
    [d EXCEPT !.cardVersions = @ \ RowsOf(@, id),
              !.cards = @ \ RowsOf(@, id),
              !.deleted = AddTombstone(@, id)]

DeleteTag(d, id) ==
    [d EXCEPT !.tagVersions = @ \ RowsOf(@, id),
              !.tags = @ \ RowsOf(@, id),
              !.deleted = AddTombstone(@, id)]

-----------------------------------------------------------------------------
(* Items of a transaction *)

CardPushes  == [op: {"cards"}, chain: CardChains]
TagPushes   == [op: {"tags"}, chain: TagChains]
CardDeletes == [op: {"deleteCard"}, id: CardIds]
TagDeletes  == [op: {"deleteTag"}, id: TagIds]
PushItem    == CardPushes \cup TagPushes \cup CardDeletes \cup TagDeletes

ItemError(d, item) ==
    CASE item.op = "cards"      -> PushCardsError(d, item.chain)
      [] item.op = "tags"       -> PushTagsError(d, item.chain)
      [] item.op = "deleteCard" -> DeleteCardError(d, item.id)
      [] item.op = "deleteTag"  -> DeleteTagError(d, item.id)

ItemEffect(d, item) ==
    CASE item.op = "cards"      -> PushCards(d, item.chain)
      [] item.op = "tags"       -> PushTags(d, item.chain)
      [] item.op = "deleteCard" -> DeleteCard(d, item.id)
      [] item.op = "deleteTag"  -> DeleteTag(d, item.id)

\* The id an item changes: that of the first version of a pushed chain.
ItemId(item) ==
    IF item.op \in {"cards", "tags"} THEN item.chain[1].body.id ELSE item.id

IdsTouched(items, ops) ==
    {ItemId(items[i]) : i \in {j \in DOMAIN items : items[j].op \in ops}}

-----------------------------------------------------------------------------
(* validate_batch_implications *)

\* The last item of the batch, if any, that the validator lays over the
\* row of `id`: the pushed latest version, or the removal.
ItemsOn(items, id) == {i \in DOMAIN items : ItemId(items[i]) = id}
LastItemOn(items, id) ==
    items[CHOOSE i \in ItemsOn(items, id) : \A j \in ItemsOn(items, id) : j <= i]

\* The bodies of one kind after the overlay, keyed by id.
Overlay(table, items, ids, pushOp) ==
    LET Touched == {id \in ids : ItemsOn(items, id) # {}}
    IN  {r.ver.body : r \in {x \in table : x.ver.body.id \notin Touched}}
        \cup {LastOf(LastItemOn(items, id).chain).body :
                 id \in {t \in Touched : LastItemOn(items, t).op = pushOp}}

OverlayTags(d, items)  == Overlay(d.tags, items, TagIds, "tags")
OverlayCards(d, items) == Overlay(d.cards, items, CardIds, "cards")

\* TagGraph::from_pairs
GraphOf(tagBodies) ==
    [t \in {b.id : b \in tagBodies} |->
        (CHOOSE b \in tagBodies : b.id = t).implies]

ValidationError(d, items) ==
    LET g     == GraphOf(OverlayTags(d, items))
        cards == OverlayCards(d, items)
    IN  IF Dangling(g) # {} THEN "TagImpliesUnknown"
        ELSE IF ~Acyclic(g) THEN "TagImplicationCycle"
        ELSE IF \E c \in cards : MissingForCard(g, c.tags) # {}
          THEN "TagImplicationViolation"
        ELSE "Ok"

-----------------------------------------------------------------------------
(* recompute_root_for_ids and the stamping that follows it *)

RecomputeBucket(d, b) ==
    [cards   |-> {r.ver.hash : r \in {x \in d.cards : BucketOf[x.ver.body.id] = b}},
     tags    |-> {r.ver.hash : r \in {x \in d.tags : BucketOf[x.ver.body.id] = b}},
     deleted |-> {r.id : r \in {x \in d.deleted : BucketOf[x.id] = b}}]

\* Mutant: the bucket of an id deleted in this transaction is not refreshed.
RecomputeRootForLiveIds(d, ids) ==
    LET touched == {BucketOf[id] : id \in {i \in ids : ~IsDeleted(d, i)}}
        buckets == [b \in Buckets |-> IF b \in touched THEN RecomputeBucket(d, b)
                                                       ELSE d.buckets[b]]
        root    == [hash |-> buckets, sequence |-> d.root.sequence + 1]
    IN  [d EXCEPT !.buckets = buckets, !.root = root,
                  !.rootHistory = @ \cup {root}]

\* Only the buckets of the given ids are recomputed; the root hash is taken
\* from the cached hashes of all buckets.
RecomputeRootForIds(d, ids) ==
    LET touched == {BucketOf[id] : id \in ids}
        buckets == [b \in Buckets |-> IF b \in touched THEN RecomputeBucket(d, b)
                                                       ELSE d.buckets[b]]
        root    == [hash |-> buckets, sequence |-> d.root.sequence + 1]
    IN  [d EXCEPT !.buckets = buckets, !.root = root,
                  !.rootHistory = @ \cup {root}]

\* Mutant: the sequence number read before the root was advanced.
StampRowsEarly(table, ids, seq) ==
    {IF r.ver.body.id \in ids THEN [r EXCEPT !.stamp = seq - 1] ELSE r : r \in table}

StampRows(table, ids, seq) ==
    {IF r.ver.body.id \in ids THEN [r EXCEPT !.stamp = seq] ELSE r : r \in table}

StampVersions(versions, ids, seq) ==
    {IF r.ver.body.id \in ids /\ r.stamp = 0 THEN [r EXCEPT !.stamp = seq] ELSE r :
        r \in versions}

\* Mutant: the UPDATE has no WHERE clause.
StampAllDeleted(deleted, ids, seq) == {[r EXCEPT !.stamp = seq] : r \in deleted}

StampDeleted(deleted, ids, seq) ==
    {IF r.id \in ids THEN [r EXCEPT !.stamp = seq] ELSE r : r \in deleted}

StampSequences(d, items) ==
    LET cardIds == IdsTouched(items, {"cards"})
        tagIds  == IdsTouched(items, {"tags"})
        delIds  == IdsTouched(items, {"deleteCard", "deleteTag"})
        seq     == d.root.sequence
    IN  [d EXCEPT !.cards = StampRows(@, cardIds, seq),
                  !.cardVersions = StampVersions(@, cardIds, seq),
                  !.tags = StampRows(@, tagIds, seq),
                  !.tagVersions = StampVersions(@, tagIds, seq),
                  !.deleted = StampDeleted(@, delIds, seq)]

Publish(d, items) ==
    StampSequences(
        RecomputeRootForIds(d, {ItemId(items[i]) : i \in DOMAIN items}), items)

-----------------------------------------------------------------------------
(* Transactions *)

Kinds == {"single", "batch"}

NoTx == [open |-> FALSE, kind |-> "single", work |-> EmptyTables, items |-> << >>]

Init == db = EmptyTables /\ tx = NoTx

\* Take the writer mutex and open a transaction: one of the four single
\* operations, or push_batch with at least one item.
Begin(kind) ==
    /\ ~tx.open
    /\ db.root.sequence < MaxSequence
    /\ tx' = [open |-> TRUE, kind |-> kind, work |-> db, items |-> << >>]
    /\ UNCHANGED db

\* The request has another item to process.
HasRoom == Len(tx.items) < (IF tx.kind = "single" THEN 1 ELSE MaxItems)

ApplyItem(item) ==
    /\ tx.open /\ HasRoom
    /\ ItemError(tx.work, item) = "Ok"
    /\ tx' = [tx EXCEPT !.work = ItemEffect(@, item), !.items = Append(@, item)]
    /\ UNCHANGED db

\* Any error drops the transaction, which rolls it back.
RejectItem(item) ==
    /\ tx.open /\ HasRoom
    /\ ItemError(tx.work, item) # "Ok"
    /\ tx' = NoTx
    /\ UNCHANGED db

\* delete_card and delete_tag do not run the validator.
Validated ==
    \/ tx.kind = "single" /\ tx.items[1].op \in {"deleteCard", "deleteTag"}
    \/ ValidationError(tx.work, tx.items) = "Ok"

RejectBatch ==
    /\ tx.open /\ tx.items # << >>
    /\ ~Validated
    /\ tx' = NoTx
    /\ UNCHANGED db

Commit ==
    /\ tx.open /\ tx.items # << >>
    /\ Validated
    /\ db' = Publish(tx.work, tx.items)
    /\ tx' = NoTx

\* The process dies with the transaction open; SQLite rolls it back.
Crash ==
    /\ tx.open
    /\ tx' = NoTx
    /\ UNCHANGED db

Next ==
    \/ \E kind \in Kinds : Begin(kind)
    \/ \E item \in PushItem : ApplyItem(item)
    \/ \E item \in PushItem : RejectItem(item)
    \/ RejectBatch
    \/ Commit
    \/ Crash

Spec == Init /\ [][Next]_vars

-----------------------------------------------------------------------------
(* Properties *)

TxState == [open: BOOLEAN, kind: Kinds, work: Tables, items: Seq(PushItem)]

\* Type correctness of the committed tables and of the open transaction.
TypeOK == db \in Tables /\ tx \in TxState

\* A live card leaves the list only by getting a tombstone.  The INSERT OR
\* REPLACE of a push would evict any card with the same priority, versions
\* left behind and no tombstone written, so everything rests on the priority
\* check made item by item against the transaction's own rows.
CardsNeverVanish ==
    [][LiveIds(db.cards) \subseteq LiveIds(db'.cards) \cup {r.id : r \in db'.deleted}]_vars

TombstonesExclusiveIn(d) ==
    \A r \in d.deleted : r.id \notin LiveIds(d.cards) \cup LiveIds(d.tags)

\* An id is never live and tombstoned at the same time, although the
\* deletes and the pushes test different tables.
TombstonesExclusive == TombstonesExclusiveIn(db)

\* A tombstone outlives every later transaction with its stamp unchanged, so
\* a client that is behind still learns of the deletion and no stale client
\* can create the entity again.
TombstonesKept == [][db.deleted \subseteq db'.deleted]_vars

ChainOf(table, versions) ==
    \A r \in table :
        LET V == {x.ver : x \in RowsOf(versions, r.ver.body.id)}
        IN  /\ {v.hash : v \in V} =
                 {SubSeq(r.ver.hash, 1, n) : n \in 1 .. Len(r.ver.hash)}
            /\ \A v \in V : Verify(v) /\ v.body.count = Len(v.hash)
            /\ r \in versions

\* The version rows of a live entity are exactly one unbroken chain from its
\* first version to its current row, the current row carries the stamp of its
\* version row, and a deleted entity has no version rows left.
HistoryIsChain ==
    /\ ChainOf(db.cards, db.cardVersions)
    /\ ChainOf(db.tags, db.tagVersions)
    /\ LiveIds(db.cardVersions) = LiveIds(db.cards)
    /\ LiveIds(db.tagVersions) = LiveIds(db.tags)

\* The cached bucket hashes, of which a commit recomputes only the affected
\* ones, and the root hash taken from them are those of the live tables.
CacheCoherent ==
    /\ db.buckets = [b \in Buckets |-> RecomputeBucket(db, b)]
    /\ db.root.hash = db.buckets
    /\ db.root.sequence > 0 => db.root \in db.rootHistory

\* No root hash is ever published under two sequence numbers: the store never
\* returns to an earlier content, which is what lets get_changes_since compare
\* the client's hash with one history row.
RootHashFresh ==
    \A x, y \in db.rootHistory :
        /\ x.hash = y.hash => x = y
        /\ x.hash # ZeroRootHash

\* The root by which a client is told what it lacks says what the tables hold.
RootCoherent == CacheCoherent /\ RootHashFresh

BodiesOf(table) == {r.ver.body : r \in table}

ImplicationsHoldIn(d) ==
    LET g == GraphOf(BodiesOf(d.tags))
    IN  /\ Dangling(g) = {}
        /\ Acyclic(g)
        /\ \A r \in d.cards : MissingForCard(g, r.ver.body.tags) = {}

\* Committed tags form an acyclic graph without dangling edges and every
\* committed card is closed under it, also after delete_card and delete_tag,
\* which never run the validator.
ImplicationsHold == ImplicationsHoldIn(db)

\* The validator's overlay of the batch on its snapshot is the state the items
\* left in the tables, whatever mix of pushes and deletes of one id the batch
\* holds ("This mirrors how `push_*_inner` mutates the real rows").
OverlayMirrorsRows ==
    tx.open =>
        /\ OverlayTags(tx.work, tx.items) = BodiesOf(tx.work.tags)
        /\ OverlayCards(tx.work, tx.items) = BodiesOf(tx.work.cards)

-----------------------------------------------------------------------------
(* Refinement of ServerList *)

Ids == CardIds \cup TagIds

ChainIn(d, id) ==
    LET rows == RowsOf(d.cards, id) \cup RowsOf(d.tags, id)
    IN  IF rows = {} THEN << >> ELSE (CHOOSE r \in rows : TRUE).ver.hash

StampIn(d, id) ==
    LET stamps == {r.stamp : r \in RowsOf(d.cards, id) \cup RowsOf(d.tags, id)}
                  \cup {r.stamp : r \in {x \in d.deleted : x.id = id}}
    IN  IF stamps = {} THEN 0 ELSE CHOOSE s \in stamps : TRUE

List == INSTANCE ServerList WITH
    chain    <- [id \in Ids |-> ChainIn(db, id)],
    deleted  <- {r.id : r \in db.deleted},
    stamp    <- [id \in Ids |-> StampIn(db, id)],
    sequence <- db.root.sequence

\* Every commit, of a single operation or of a batch that touches one entity
\* several times, is one step of the list: each changed entity's chain only
\* grows or ends in a tombstone, exactly the changed entities get the new
\* sequence number, and nothing else moves.
ImplementsServerList == List!ListSpec
=============================================================================
