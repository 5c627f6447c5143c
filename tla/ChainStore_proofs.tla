-------------------------- MODULE ChainStore_proofs --------------------------
(***************************************************************************)
(* Proofs, for every value of the constants, of the invariants that        *)
(* MC_ChainStore checks on a small instance: the cache and the head keep   *)
(* their types, and every ancestor of the head within ancestor_count of it *)
(* stays in the cache.                                                     *)
(***************************************************************************)
EXTENDS ChainStore, SequenceTheorems, WellFoundedInduction, TLAPS

-----------------------------------------------------------------------------
(* Every block is a sequence of fork choices numbered 0 .. MaxNumber.      *)
LEMMA BlockIsSeq ==
  ASSUME NEW b \in Blocks
  PROVE  /\ b \in Seq(Forks)
         /\ Number(b) \in 0 .. MaxNumber
<1>1. PICK n \in 0 .. MaxNumber : b \in [1 .. n -> Forks]
  BY DEF Blocks
<1>2. b \in Seq(Forks)
  BY <1>1, SeqDef, MaxNumberAssumption
<1>3. DOMAIN b = 1 .. Len(b) /\ Len(b) \in Nat
  BY <1>2, LenProperties
<1>4. Len(b) = n
  BY <1>1, <1>3
<1>. QED
  BY <1>2, <1>4 DEF Number

(* The ancestor of b at number k is a sequence with number k; the ancestor *)
(* at b's own number is b.                                                 *)
LEMMA AncestorNumber ==
  ASSUME NEW b \in Seq(Forks), NEW k \in 0 .. Len(b)
  PROVE  /\ Ancestor(b, k) \in Seq(Forks)
         /\ Number(Ancestor(b, k)) = k
         /\ Ancestor(b, Len(b)) = b
<1>1. \A i \in 1 .. k : b[i] \in Forks
  BY ElementOfSeq
<1>2. Ancestor(b, k) \in Seq(Forks) /\ Len(Ancestor(b, k)) = k
  BY <1>1, SubSeqProperties DEF Ancestor
<1>3. Ancestor(b, Len(b)) = b
  BY SubSeqFull DEF Ancestor
<1>. QED
  BY <1>2, <1>3 DEF Number

(* A non-empty set of naturals bounded by N has a largest element, and     *)
(* Highest returns it.                                                     *)
LEMMA HighestIsMax ==
  ASSUME NEW S \in SUBSET Nat, NEW N \in Nat, S # {}, \A s \in S : s <= N
  PROVE  /\ Highest(S) \in S
         /\ \A m \in S : m <= Highest(S)
<1>. DEFINE Bounds == {n \in Nat : \A m \in S : m <= n}
<1>1. Bounds \subseteq Nat /\ Bounds # {}
  OBVIOUS
<1>2. PICK x \in Bounds : \A y \in Bounds : ~(<<y, x>> \in OpToRel(<, Nat))
  BY <1>1, NatLessThanWellFounded, WFMin
<1>3. x \in S
  <2>1. SUFFICES ASSUME x \notin S PROVE FALSE
    OBVIOUS
  <2>a. x \in Nat /\ \A m \in S : m <= x
    OBVIOUS
  <2>b. \A m \in S : m <= x - 1
    BY <2>1, <2>a
  <2>c. x # 0
    <3>1. PICK s \in S : TRUE
      OBVIOUS
    <3>2. s \in Nat /\ s <= x - 1
      BY <2>b
    <3>. QED
      BY <3>2, <2>a
  <2>2. x # 0 /\ x - 1 \in Bounds
    BY <2>a, <2>b, <2>c
  <2>3. <<x - 1, x>> \in OpToRel(<, Nat)
    BY <2>2 DEF OpToRel
  <2>. QED
    BY <1>2, <2>2, <2>3
<1>4. \E n \in S : \A m \in S : m <= n
  BY <1>3
<1>. QED
  BY <1>4 DEF Highest
(* The candidate of attempt_chain_head_update is one of the cached blocks  *)
(* above the head, whenever there is one.                                  *)
LEMMA CandidateAbove ==
  ASSUME NEW c \in SUBSET Blocks, NEW h, Above(c, h) # {}
  PROVE  Candidate(c, h) \in Above(c, h)
<1>. DEFINE Nums == {Number(b) : b \in Above(c, h)}
<1>1. Nums \subseteq Nat /\ Nums # {} /\ \A n \in Nums : n <= MaxNumber
  BY BlockIsSeq, MaxNumberAssumption DEF Above
<1>2. Highest(Nums) \in Nums
  BY <1>1, HighestIsMax, MaxNumberAssumption
<1>3. \E b \in Above(c, h) : Number(b) = Highest(Nums)
  BY <1>2
<1>. QED
  BY <1>3 DEF Candidate

(* A missing parent, when there is one, is a sequence, so it is not None.  *)
LEMMA MissingParentNone ==
  ASSUME NEW c, NEW b \in Seq(Forks), MissingParent(c, b) = NoBlock
  PROVE  MissingNumbers(c, b) = {}
<1>1. SUFFICES ASSUME MissingNumbers(c, b) # {} PROVE FALSE
  OBVIOUS
<1>2. MissingNumbers(c, b) \subseteq 0 .. Len(b) /\ \A n \in MissingNumbers(c, b) : n <= Len(b)
  BY AncestorCountAssumption DEF MissingNumbers, WindowEdge, Number
<1>a. Len(b) \in Nat
  BY LenProperties
<1>b. MissingNumbers(c, b) \in SUBSET Nat
  BY <1>2
<1>c. Highest(MissingNumbers(c, b)) \in MissingNumbers(c, b)
  BY <1>1, <1>2, <1>a, <1>b, HighestIsMax
<1>3. Highest(MissingNumbers(c, b)) \in 0 .. Len(b)
  BY <1>c, <1>2
<1>4. Ancestor(b, Highest(MissingNumbers(c, b))) \in Seq(Forks)
  BY <1>3, AncestorNumber
<1>. QED
  BY <1>1, <1>4, NoBlockAssumption DEF MissingParent

-----------------------------------------------------------------------------
(* The ancestor window of head h in cache c (HeadWindowResolvable is the   *)
(* window of the store's own cache and head).                              *)
WindowOf(c, h) ==
  h # NoBlock =>
    \A k \in 0 .. Number(h) :
      k + AncestorCount >= Number(h) => Ancestor(h, k) \in c

(* An ancestor of a block is a block.                                      *)
LEMMA AncestorIsBlock ==
  ASSUME NEW b \in Blocks, NEW k \in 0 .. Number(b)
  PROVE  Ancestor(b, k) \in Blocks
<1>1. b \in Seq(Forks) /\ Number(b) \in 0 .. MaxNumber
  BY BlockIsSeq
<1>2. Ancestor(b, k) \in Seq(Forks) /\ Len(Ancestor(b, k)) = k
  BY <1>1, AncestorNumber DEF Number
<1>3. Ancestor(b, k) \in [1 .. k -> Forks]
  BY <1>2, LenProperties
<1>. QED
  BY <1>1, <1>3, MaxNumberAssumption DEF Blocks

(* A block below the height bound extended by a fork choice is a block.  *)
LEMMA AppendIsBlock ==
  ASSUME NEW b \in Blocks, NEW f \in Forks, Number(b) < MaxNumber
  PROVE  Append(b, f) \in Blocks
<1>1. b \in Seq(Forks) /\ Number(b) \in 0 .. MaxNumber
  BY BlockIsSeq
<1>2. Append(b, f) \in Seq(Forks) /\ Len(Append(b, f)) = Len(b) + 1
  BY <1>1, AppendProperties
<1>3. Append(b, f) \in [1 .. Len(b) + 1 -> Forks]
  BY <1>2, LenProperties
<1>. QED
  BY <1>1, <1>3, MaxNumberAssumption DEF Blocks, Number

(* The hash attempt_chain_head_update returns is a block, or None.         *)
LEMMA AttemptMissingIsBlock ==
  ASSUME NEW c \in SUBSET Blocks, NEW h
  PROVE  AttemptMissing(c, h) \in Blocks \cup {NoBlock}
<1>1. CASE Above(c, h) = {}
  BY <1>1 DEF AttemptMissing
<1>2. CASE Above(c, h) # {}
  <2>. DEFINE cand == Candidate(c, h)
           MN == MissingNumbers(c, cand)
  <2>1. cand \in Blocks
    BY <1>2, CandidateAbove DEF Above
  <2>2. Number(cand) \in Nat
    BY <2>1, BlockIsSeq
  <2>3. CASE MN = {}
    BY <1>2, <2>3 DEF AttemptMissing, MissingParent
  <2>4. CASE MN # {}
    <3>1. MN \in SUBSET Nat /\ \A n \in MN : n <= Number(cand)
      BY <2>2, AncestorCountAssumption DEF MissingNumbers, WindowEdge
    <3>2. Highest(MN) \in MN
      BY <2>2, <2>4, <3>1, HighestIsMax
    <3>3. Highest(MN) \in 0 .. Number(cand)
      BY <3>1, <3>2
    <3>. QED
      BY <1>2, <2>1, <2>4, <3>3, AncestorIsBlock DEF AttemptMissing, MissingParent
  <2>. QED
    BY <2>3, <2>4
<1>. QED
  BY <1>1, <1>2

(* upsert_block never shrinks the window.                                  *)
LEMMA UpsertKeepsWindow ==
  ASSUME NEW c, NEW h, NEW b, WindowOf(c, h)
  PROVE  WindowOf(Upserted(c, b), h)
  BY DEF WindowOf, Upserted

(* attempt_chain_head_update leaves a block or None as the head, and moves *)
(* it only to a candidate whose window is in the cache.                    *)
LEMMA AttemptKeepsWindow ==
  ASSUME NEW c \in SUBSET Blocks, NEW h \in Blocks \cup {NoBlock}, WindowOf(c, h)
  PROVE  /\ AttemptHead(c, h) \in Blocks \cup {NoBlock}
         /\ WindowOf(c, AttemptHead(c, h))
<1>1. CASE Above(c, h) = {} \/ MissingParent(c, Candidate(c, h)) # NoBlock
  BY <1>1 DEF AttemptHead
<1>2. CASE ~(Above(c, h) = {} \/ MissingParent(c, Candidate(c, h)) # NoBlock)
  <2>. DEFINE cand == Candidate(c, h)
  <2>1. AttemptHead(c, h) = cand
    BY <1>2 DEF AttemptHead
  <2>2. cand \in c /\ cand \in Blocks
    BY <1>2, CandidateAbove DEF Above
  <2>3. cand \in Seq(Forks) /\ Len(cand) \in Nat
    BY <2>2, BlockIsSeq, LenProperties
  <2>4. MissingNumbers(c, cand) = {}
    BY <1>2, <2>3, MissingParentNone
  <2>5. ASSUME NEW k \in 0 .. Len(cand), k + AncestorCount >= Len(cand)
        PROVE  Ancestor(cand, k) \in c
    <3>1. CASE k = Len(cand)
      BY <2>2, <2>3, <3>1, AncestorNumber
    <3>2. CASE k < Len(cand)
      <4>1. k \in WindowEdge(cand) .. Number(cand) - 1
        BY <2>3, <2>5, <3>2, AncestorCountAssumption DEF WindowEdge, Number
      <4>. QED
        BY <2>4, <4>1 DEF MissingNumbers
    <3>. QED
      BY <3>1, <3>2, <2>3
  <2>. QED
    BY <2>1, <2>2, <2>5 DEF WindowOf, Number
<1>. QED
  BY <1>1, <1>2

(* cleanup_cached_blocks retires no block of the window.                   *)
LEMMA CleanupKeepsWindow ==
  ASSUME NEW c, NEW h \in Blocks \cup {NoBlock}, WindowOf(c, h)
  PROVE  WindowOf(c \ Retired(c, h), h)
<1>. SUFFICES ASSUME h # NoBlock, NEW k \in 0 .. Number(h), k + AncestorCount >= Number(h)
              PROVE  Ancestor(h, k) \in c \ Retired(c, h)
  BY DEF WindowOf
<1>1. h \in Seq(Forks)
  BY BlockIsSeq
<1>2. Ancestor(h, k) \in c
  BY DEF WindowOf
<1>3. Number(Ancestor(h, k)) = k
  BY <1>1, AncestorNumber DEF Number
<1>4. Ancestor(h, k) \notin Retired(c, h)
  BY <1>3, <1>1, LenProperties, AncestorCountAssumption DEF Retired, Number
<1>. QED
  BY <1>2, <1>4

-----------------------------------------------------------------------------
(***************************************************************************)
(* The inductive invariant: the type invariant together with the window.   *)
(* The window alone is not inductive, since cleanup and the head update    *)
(* rely on the head being a block, so that the numbers of its ancestors   *)
(* are known.                                                              *)
(***************************************************************************)
StoreInv == StoreTypeOK /\ HeadWindowResolvable

LEMMA InitStoreInv == StoreInit => StoreInv
  BY DEF StoreInit, StoreInv, StoreTypeOK, HeadWindowResolvable

(* Every step of the cache preserves StoreInv.                             *)
LEMMA NextStoreInv == StoreInv /\ [StoreNext]_storeVars => StoreInv'
<1>. SUFFICES ASSUME StoreInv, [StoreNext]_storeVars PROVE StoreInv'
  OBVIOUS
<1>. USE DEF StoreInv, StoreTypeOK
<1>0. WindowOf(cache, head)
  BY DEF HeadWindowResolvable, WindowOf
<1>1. CASE \E b \in Blocks : UpsertBlock(b)
  BY <1>0, <1>1, UpsertKeepsWindow DEF UpsertBlock, Upserted, HeadWindowResolvable, WindowOf
<1>2. CASE AttemptChainHeadUpdate
  BY <1>0, <1>2, AttemptKeepsWindow DEF AttemptChainHeadUpdate, HeadWindowResolvable, WindowOf
<1>3. CASE CleanupCachedBlocks
  BY <1>0, <1>3, CleanupKeepsWindow DEF CleanupCachedBlocks, HeadWindowResolvable, WindowOf
<1>4. CASE UNCHANGED storeVars
  BY <1>4 DEF storeVars, HeadWindowResolvable
<1>. QED
  BY <1>1, <1>2, <1>3, <1>4 DEF StoreNext

(***************************************************************************)
(* Whatever the fork choices, the height bound and ancestor_count, and     *)
(* whatever order upsert_block, attempt_chain_head_update and              *)
(* cleanup_cached_blocks are called in, the cache and head keep their       *)
(* types.                                                                   *)
(***************************************************************************)
THEOREM StoreTypeCorrect == StoreSpec => []StoreTypeOK
<1>1. StoreSpec => []StoreInv
  BY InitStoreInv, NextStoreInv, PTL DEF StoreSpec
<1>. QED
  BY <1>1, PTL DEF StoreInv

(***************************************************************************)
(* For every value of the constants, every ancestor of the chain head      *)
(* within ancestor_count blocks of it is in the cache: the head moves only *)
(* to a candidate whose window attempt_chain_head_update found complete,   *)
(* and cleanup_cached_blocks retires only blocks below that window.        *)
(***************************************************************************)
THEOREM StoreHeadWindow == StoreSpec => []HeadWindowResolvable
<1>1. StoreSpec => []StoreInv
  BY InitStoreInv, NextStoreInv, PTL DEF StoreSpec
<1>. QED
  BY <1>1, PTL DEF StoreInv
=============================================================================
