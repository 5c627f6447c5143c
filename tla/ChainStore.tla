----------------------------- MODULE ChainStore -----------------------------
(***************************************************************************)
(* The local chain cache of one network: the blocks ingested so far and    *)
(* the chain head pointer.  Its implementation (the ChainStore trait of    *)
(* graph-node's Postgres store) is not part of this repository, so its     *)
(* operations are modelled from the cache contract of the specification:   *)
(* chain_head_ptr, upsert_block, attempt_chain_head_update and             *)
(* cleanup_cached_blocks.                                                  *)
(*                                                                         *)
(* A block is identified by its path from genesis: the sequence of fork    *)
(* choices taken at numbers 1..n.  The path plays the role of the block    *)
(* hash (two blocks are equal iff their hashes are), its length is the     *)
(* block number and the parent is the path without its last choice, so a   *)
(* block always carries the parent hash the chain gave it.                 *)
(***************************************************************************)
EXTENDS Naturals, Sequences

CONSTANTS
  Forks,          \* the fork choices a block producer can make at a height
  MaxNumber,      \* the highest block number the model lets the chain reach
  AncestorCount,  \* ancestor_count: blocks behind the head kept resolvable
  NoBlock         \* "None": no chain head yet / no missing ancestor

ASSUME ForksAssumption == Forks # {}
ASSUME MaxNumberAssumption == MaxNumber \in Nat
ASSUME AncestorCountAssumption == AncestorCount \in Nat
ASSUME NoBlockAssumption == NoBlock \notin Seq(Forks)

VARIABLES
  cache,   \* the blocks stored in the cache (the ethereum_blocks rows)
  head     \* the chain head pointer of the network, or NoBlock

storeVars == <<cache, head>>

Blocks == UNION {[1 .. n -> Forks] : n \in 0 .. MaxNumber}

Number(b) == Len(b)

(* The ancestor of block b with number k, for k \in 0 .. Number(b).        *)
Ancestor(b, k) == SubSeq(b, 1, k)

(* The largest of a non-empty finite set of numbers.                       *)
Highest(S) == CHOOSE n \in S : \A m \in S : m <= n

StoreTypeOK ==
  /\ cache \subseteq Blocks
  /\ head \in Blocks \cup {NoBlock}

(* Faults the properties must catch.                                       *)
WindowEdgeGenesis(b) == 0
UpsertedDropped(c, b) == c
RetiredInsideWindow(c, h) ==
  IF h = NoBlock THEN {} ELSE {b \in c : Number(b) + AncestorCount <= Number(h)}

-----------------------------------------------------------------------------
(***************************************************************************)
(* attempt_chain_head_update(ancestor_count).  The candidate is the        *)
(* highest cached block above the current head (any cached block on a     *)
(* cold start); ties are broken by a fixed order on hashes.  Walking the    *)
(* parent hashes down from the candidate to the window edge                *)
(* max(0, candidate - ancestor_count), the first ancestor not in the cache *)
(* is reported as missing; when there is none the head moves to the       *)
(* candidate.                                                              *)
(***************************************************************************)
Above(c, h) == {b \in c : h = NoBlock \/ Number(b) > Number(h)}

Candidate(c, h) ==
  LET top == Highest({Number(b) : b \in Above(c, h)})
  IN  CHOOSE b \in Above(c, h) : Number(b) = top

WindowEdge(b) == IF Number(b) > AncestorCount THEN Number(b) - AncestorCount ELSE 0

MissingNumbers(c, b) == {k \in WindowEdge(b) .. Number(b) - 1 : Ancestor(b, k) \notin c}

MissingParent(c, b) ==
  IF MissingNumbers(c, b) = {} THEN NoBlock
  ELSE Ancestor(b, Highest(MissingNumbers(c, b)))

(* The hash attempt_chain_head_update returns: a missing ancestor, or None. *)
AttemptMissing(c, h) ==
  IF Above(c, h) = {} THEN NoBlock ELSE MissingParent(c, Candidate(c, h))

(* The head attempt_chain_head_update leaves behind.                       *)
AttemptHead(c, h) ==
  IF Above(c, h) = {} \/ MissingParent(c, Candidate(c, h)) # NoBlock THEN h
  ELSE Candidate(c, h)

(* upsert_block: storing a block is idempotent.                            *)
Upserted(c, b) == c \cup {b}

(* cleanup_cached_blocks(ancestor_count): the blocks it drops, those more  *)
(* than ancestor_count below the head; nothing without a head.            *)
Retired(c, h) ==
  IF h = NoBlock THEN {} ELSE {b \in c : Number(b) + AncestorCount < Number(h)}

-----------------------------------------------------------------------------
(***************************************************************************)
(* The cache on its own, driven by a client that may call any operation   *)
(* with any block, in any order.                                           *)
(***************************************************************************)
StoreInit ==
  /\ cache = {}
  /\ head = NoBlock

UpsertBlock(b) ==
  /\ cache' = Upserted(cache, b)
  /\ UNCHANGED head

AttemptChainHeadUpdate ==
  /\ head' = AttemptHead(cache, head)
  /\ UNCHANGED cache

CleanupCachedBlocks ==
  /\ cache' = cache \ Retired(cache, head)
  /\ UNCHANGED head

StoreNext ==
  \/ \E b \in Blocks : UpsertBlock(b)
  \/ AttemptChainHeadUpdate
  \/ CleanupCachedBlocks

StoreSpec == StoreInit /\ [][StoreNext]_storeVars

-----------------------------------------------------------------------------
(***************************************************************************)
(* Every ancestor of the head within the ancestor window, from number      *)
(* max(0, head - ancestor_count) up to the head itself, is in the cache:   *)
(* the head advances only over a connected window, and cleanup never       *)
(* retires a block inside it.                                              *)
(***************************************************************************)
HeadWindowResolvable ==
  head # NoBlock =>
    \A k \in 0 .. Number(head) :
      k + AncestorCount >= Number(head) => Ancestor(head, k) \in cache
=============================================================================
