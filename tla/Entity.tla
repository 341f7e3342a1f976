------------------------------- MODULE Entity -------------------------------
(***************************************************************************)
(* Versioned entities: the hash chain of protocol/src/hash, card and tag.  *)
(*                                                                         *)
(* A version is a body (every field the canonical hash covers apart from   *)
(* the ancestor), the hash of the version it replaces and its own hash.    *)
(* BLAKE3 is taken to be free of collisions, so a hash is represented by   *)
(* what was hashed: the bodies from the first version to this one.         *)
(***************************************************************************)
EXTENDS Naturals, Sequences, TagGraph

CONSTANTS CardIds,      \* UUIDs used for cards
          Contents,     \* content, blazed flag and dates of a card
          Priorities    \* i64 priorities

ASSUME IdsDisjoint == CardIds \cap TagIds = {}

CardBody == [id: CardIds, count: Nat, content: Contents,
             priority: Priorities, tags: SUBSET TagIds]

TagBody == [id: TagIds, count: Nat, implies: SUBSET TagIds]

VersionsOver(Body) == [body: Body, ancestor: Seq(Body), hash: Seq(Body)]

CardVersion == VersionsOver(CardBody)
TagVersion  == VersionsOver(TagBody)

ZERO_HASH == << >>

CanonicalHash(body, ancestor) == Append(ancestor, body)

Verify(v) == v.hash = CanonicalHash(v.body, v.ancestor)

\* Card::first and Tag::first
First(body) ==
    LET b == [body EXCEPT !.count = 1]
    IN  [body |-> b, ancestor |-> ZERO_HASH, hash |-> CanonicalHash(b, ZERO_HASH)]

\* Card::next and Tag::next
NextVersion(prev, body) ==
    LET b == [body EXCEPT !.id = prev.body.id, !.count = prev.body.count + 1]
    IN  [body |-> b, ancestor |-> prev.hash, hash |-> CanonicalHash(b, prev.hash)]

\* Each version of the chain names the one before it as its ancestor.
Linked(chain) ==
    \A i \in 1 .. Len(chain) - 1 : chain[i + 1].ancestor = chain[i].hash
=============================================================================
