--------------------- MODULE PollingBlockIngestor_proofs ---------------------
(***************************************************************************)
(* Proofs, for every value of the constants, that the polling ingestor     *)
(* keeps its types and the ancestor window of the chain head, whatever the *)
(* source does between its steps.  The facts about the cache operations    *)
(* are those of ChainStore_proofs, applied to the cache and head the run   *)
(* loop leaves behind.                                                     *)
(***************************************************************************)
EXTENDS PollingBlockIngestor, ChainStore_proofs

IngestorInv == TypeOK /\ HeadWindowResolvable

LEMMA InitIngestorInv == Init => IngestorInv
<1>. SUFFICES ASSUME Init PROVE IngestorInv
  OBVIOUS
<1>1. << >> \in Blocks
  BY MaxNumberAssumption DEF Blocks
<1>. QED
  BY <1>1, MaxReorgsAssumption, MaxFailuresAssumption, MaxAttemptAssumption
  DEF Init, StoreInit, IngestorInv, TypeOK, StoreTypeOK, HeadWindowResolvable

(* The blocks the provider may report are blocks.                          *)
LEMMA ReportedIsBlock ==
  ASSUME tip \in Blocks
  PROVE  {tip} \cup LaggingBlocks \subseteq Blocks
<1>1. Number(tip) \in Nat
  BY BlockIsSeq
<1>. QED
  BY <1>1, AncestorIsBlock DEF LaggingBlocks

(* The failure budget stays within its bound.                              *)
LEMMA FailKeepsBudget ==
  ASSUME failures \in 0 .. MaxFailures, Fail
  PROVE  failures' \in 0 .. MaxFailures
  BY MaxFailuresAssumption DEF Fail

(* The source keeps its tip a block and its reorganisations counted.       *)
LEMMA SourceStep ==
  ASSUME IngestorInv, Source
  PROVE  IngestorInv'
<1>. USE DEF IngestorInv, TypeOK, StoreTypeOK
<1>1. CASE SourceNewBlock
  <2>1. tip' \in Blocks
    BY <1>1, AppendIsBlock DEF SourceNewBlock
  <2>. QED
    BY <1>1, <2>1 DEF SourceNewBlock, storeVars, ingestorVars, failVars, HeadWindowResolvable
<1>2. CASE SourceReorg
  <2>1. PICK d \in 1 .. MaxReorgDepth, f \in Forks :
          /\ d <= Number(tip)
          /\ tip' = Append(Ancestor(tip, Number(tip) - d), f)
    BY <1>2 DEF SourceReorg
  <2>2. Number(tip) \in 0 .. MaxNumber
    BY BlockIsSeq
  <2>3. Ancestor(tip, Number(tip) - d) \in Blocks
    BY <2>1, <2>2, AncestorIsBlock
  <2>a. tip \in Seq(Forks) /\ Number(tip) - d \in 0 .. Len(tip)
    BY <2>1, <2>2, BlockIsSeq DEF Number
  <2>b. Number(Ancestor(tip, Number(tip) - d)) = Number(tip) - d
    BY <2>a, AncestorNumber DEF Number
  <2>4. Number(Ancestor(tip, Number(tip) - d)) < MaxNumber
    BY <2>1, <2>2, <2>b, MaxReorgDepthAssumption, MaxNumberAssumption DEF Number
  <2>5. tip' \in Blocks
    BY <2>1, <2>3, <2>4, AppendIsBlock
  <2>. QED
    BY <1>2, <2>5, MaxReorgsAssumption
    DEF SourceReorg, storeVars, ingestorVars, failVars, HeadWindowResolvable
<1>. QED
  BY <1>1, <1>2 DEF Source
(* Every step of the run loop preserves IngestorInv: the cache changes only *)
(* by upsert_block, attempt_chain_head_update and cleanup_cached_blocks.   *)
LEMMA IngestorStep ==
  ASSUME IngestorInv, Ingestor
  PROVE  IngestorInv'
<1>. USE DEF IngestorInv, TypeOK, StoreTypeOK
<1>0. WindowOf(cache, head)
  BY DEF HeadWindowResolvable, WindowOf
<1>a. failures' = failures \/ Fail => failures' \in 0 .. MaxFailures
  BY FailKeepsBudget
<1>1. CASE AcquireAdapter
  BY <1>1, MaxAttemptAssumption DEF AcquireAdapter, storeVars, failVars, sourceVars, HeadWindowResolvable
<1>2. CASE AcquireAdapterFails
  BY <1>2, <1>a, MaxAttemptAssumption DEF AcquireAdapterFails, storeVars, sourceVars, HeadWindowResolvable
<1>3. CASE PollUpToDate
  BY <1>3, <1>a DEF PollUpToDate, Reports, storeVars, sourceVars, HeadWindowResolvable
<1>4. CASE PollBackwards
  BY <1>4, <1>a DEF PollBackwards, Reports, storeVars, sourceVars, HeadWindowResolvable
<1>5. CASE PollNewBlock
  <2>1. missing' \in Blocks
    BY <1>5, ReportedIsBlock DEF PollNewBlock
  <2>. QED
    BY <1>5, <1>a, <2>1 DEF PollNewBlock, Reports, storeVars, sourceVars, HeadWindowResolvable
<1>6. CASE PollFails
  BY <1>6, <1>a DEF PollFails, storeVars, sourceVars, HeadWindowResolvable
<1>7. CASE IngestBlock
  <2>. DEFINE c == Upserted(cache, missing)
  <2>1. /\ pc = "Ingest" /\ cache' = c /\ head' = AttemptHead(c, head)
        /\ missing' = AttemptMissing(c, head)
        /\ pc' = IF AttemptMissing(c, head) = NoBlock THEN "Cleanup" ELSE "Ingest"
        /\ iters' = IF AttemptMissing(c, head) = NoBlock \/ iters > AncestorCount
                    THEN iters ELSE iters + 1
        /\ UNCHANGED <<attempt, failures, tip, reorgs>>
    BY <1>7 DEF IngestBlock, failVars, sourceVars
  <2>2. c \in SUBSET Blocks /\ WindowOf(c, head)
    BY <1>0, <2>1, UpsertKeepsWindow DEF Upserted
  <2>3. head' \in Blocks \cup {NoBlock} /\ WindowOf(c, head')
    BY <2>1, <2>2, AttemptKeepsWindow
  <2>4. missing' \in Blocks \cup {NoBlock}
    BY <2>1, <2>2, AttemptMissingIsBlock
  <2>5. HeadWindowResolvable'
    BY <2>1, <2>3 DEF HeadWindowResolvable, WindowOf
  <2>6. pc' \in {"Acquire", "Poll", "Ingest", "Cleanup"} /\ (pc' = "Ingest" => missing' \in Blocks)
    BY <2>1, <2>4
  <2>7. iters' \in Nat
    BY <2>1
  <2>. QED
    BY <2>1, <2>2, <2>3, <2>5, <2>6, <2>7
<1>8. CASE IngestBlockFails
  BY <1>8, <1>a DEF IngestBlockFails, storeVars, sourceVars, HeadWindowResolvable
<1>11. CASE IngestBlockHeadUpdateFails
  <2>1. pc = "Ingest" /\ cache' = Upserted(cache, missing) /\ head' = head
    BY <1>11 DEF IngestBlockHeadUpdateFails
  <2>2. WindowOf(cache', head')
    BY <1>0, <2>1, UpsertKeepsWindow
  <2>. QED
    BY <1>11, <1>a, <2>1, <2>2 DEF IngestBlockHeadUpdateFails, Upserted, sourceVars, HeadWindowResolvable, WindowOf
<1>9. CASE CleanupCachedBlocksStep
  <2>1. head' = head /\ cache' = IF CleanupBlocks THEN cache \ Retired(cache, head) ELSE cache
    BY <1>9 DEF CleanupCachedBlocksStep
  <2>2. WindowOf(cache', head')
    BY <1>0, <2>1, CleanupKeepsWindow
  <2>. QED
    BY <1>9, <2>1, <2>2 DEF CleanupCachedBlocksStep, failVars, sourceVars, HeadWindowResolvable, WindowOf
<1>10. CASE CleanupFails
  BY <1>10, <1>a DEF CleanupFails, storeVars, sourceVars, HeadWindowResolvable
<1>. QED
  BY <1>1, <1>2, <1>3, <1>4, <1>5, <1>6, <1>7, <1>8, <1>9, <1>10, <1>11 DEF Ingestor

LEMMA NextIngestorInv == IngestorInv /\ [Next]_vars => IngestorInv'
<1>. SUFFICES ASSUME IngestorInv, [Next]_vars PROVE IngestorInv'
  OBVIOUS
<1>1. CASE Source
  BY <1>1, SourceStep
<1>2. CASE Ingestor
  BY <1>2, IngestorStep
<1>3. CASE UNCHANGED vars
  BY <1>3 DEF vars, IngestorInv, TypeOK, StoreTypeOK, HeadWindowResolvable
<1>. QED
  BY <1>1, <1>2, <1>3 DEF Next

(***************************************************************************)
(* The ingestor keeps every variable within its type: in particular the   *)
(* loop only ever fetches a block (never None) and the head is a block or  *)
(* None.                                                                   *)
(***************************************************************************)
THEOREM IngestorTypeCorrect == Spec => []TypeOK
<1>1. Spec => []IngestorInv
  BY InitIngestorInv, NextIngestorInv, PTL DEF Spec
<1>. QED
  BY <1>1, PTL DEF IngestorInv
-----------------------------------------------------------------------------
(***************************************************************************)
(* The bound on the ancestor loop of do_poll.  Once the loop fetches        *)
(* missing ancestors (iters >= 1), it works on one candidate: the head is  *)
(* not moved and every block it upserts lies below the candidate, so the  *)
(* candidate stays the same, and the next missing ancestor is the highest *)
(* one still absent, strictly below the last.  Each call thus lowers the  *)
(* number of missing by at least one, starting below the candidate, and    *)
(* that number never leaves the window of the candidate.                  *)
(***************************************************************************)
LoopInv ==
  LET cand == Candidate(cache, head)
  IN  /\ Above(cache, head) # {}
      /\ MissingNumbers(cache, cand) # {}
      /\ missing = MissingParent(cache, cand)
      /\ iters + Number(missing) <= Number(cand)

IterInv ==
  /\ IngestorInv
  /\ iters <= AncestorCount
  /\ pc = "Ingest" /\ iters >= 1 => LoopInv
(* What attempt_chain_head_update says when it names a missing ancestor:   *)
(* the highest absent number of its candidate's window, the head left as  *)
(* it was.                                                                 *)
LEMMA AttemptMissingFacts ==
  ASSUME NEW c \in SUBSET Blocks, NEW h, AttemptMissing(c, h) # NoBlock
  PROVE  LET cand == Candidate(c, h)
             MN   == MissingNumbers(c, cand)
         IN  /\ Above(c, h) # {}
             /\ cand \in Blocks /\ cand \in Seq(Forks) /\ Number(cand) \in Nat
             /\ MN # {}
             /\ AttemptMissing(c, h) = MissingParent(c, cand)
             /\ AttemptHead(c, h) = h
             /\ Highest(MN) \in MN /\ \A n \in MN : n <= Highest(MN)
             /\ MN \subseteq WindowEdge(cand) .. Number(cand) - 1
             /\ Number(AttemptMissing(c, h)) = Highest(MN)
<1> DEFINE cand == Candidate(c, h)
           MN   == MissingNumbers(c, cand)
<1>1. Above(c, h) # {}
  BY DEF AttemptMissing
<1>2. cand \in Blocks /\ cand \in Seq(Forks) /\ Number(cand) \in Nat
  BY <1>1, CandidateAbove, BlockIsSeq DEF Above
<1>3. MN # {}
  BY <1>1 DEF AttemptMissing, MissingParent
<1>4. AttemptMissing(c, h) = MissingParent(c, cand) /\ AttemptHead(c, h) = h
  BY <1>1, <1>3 DEF AttemptMissing, AttemptHead, MissingParent
<1>5. MN \subseteq WindowEdge(cand) .. Number(cand) - 1 /\ MN \in SUBSET Nat
      /\ \A n \in MN : n <= Number(cand)
  BY <1>2, AncestorCountAssumption DEF MissingNumbers, WindowEdge
<1>6. Highest(MN) \in MN /\ \A n \in MN : n <= Highest(MN)
  BY <1>2, <1>3, <1>5, HighestIsMax
<1>7. Number(MissingParent(c, cand)) = Highest(MN)
  <2>1. Highest(MN) \in 0 .. Len(cand)
    BY <1>5, <1>6 DEF Number
  <2>. QED
    BY <1>2, <1>3, <2>1, AncestorNumber DEF MissingParent
<1>. QED
  BY <1>1, <1>2, <1>3, <1>4, <1>5, <1>6, <1>7

(* Upserting the missing ancestor keeps the candidate (it lies below it)   *)
(* and removes exactly its number from the missing ones.                   *)
LEMMA UpsertMissing ==
  ASSUME NEW c \in SUBSET Blocks, NEW h, Above(c, h) # {},
         MissingNumbers(c, Candidate(c, h)) # {}
  PROVE  LET cand == Candidate(c, h)
             MN   == MissingNumbers(c, cand)
             c2   == c \cup {MissingParent(c, cand)}
         IN  /\ Candidate(c2, h) = cand
             /\ MissingNumbers(c2, cand) = MN \ {Highest(MN)}
<1> DEFINE cand == Candidate(c, h)
           MN   == MissingNumbers(c, cand)
           k0   == Highest(MN)
           mp   == MissingParent(c, cand)
           c2   == c \cup {mp}
           Nums1 == {Number(b) : b \in Above(c, h)}
           Nums2 == {Number(b) : b \in Above(c2, h)}
           top  == Highest(Nums1)
<1>1. cand \in Above(c, h) /\ cand \in Seq(Forks) /\ Number(cand) \in Nat
  BY CandidateAbove, BlockIsSeq DEF Above
<1>2. Nums1 \subseteq Nat /\ Nums1 # {} /\ \A n \in Nums1 : n <= MaxNumber
  BY BlockIsSeq, MaxNumberAssumption DEF Above
<1>3. top \in Nums1 /\ \A n \in Nums1 : n <= top
  BY <1>2, HighestIsMax, MaxNumberAssumption
<1>4. Number(cand) = top
  BY <1>3 DEF Candidate
<1>5. MN \subseteq WindowEdge(cand) .. Number(cand) - 1 /\ MN \in SUBSET Nat
      /\ \A n \in MN : n <= Number(cand)
  BY <1>1, AncestorCountAssumption DEF MissingNumbers, WindowEdge
<1>6. k0 \in MN /\ k0 \in 0 .. Number(cand) - 1
  <2>1. MN # {}
    OBVIOUS
  <2>2. k0 \in MN
    BY <1>1, <1>5, <2>1, HighestIsMax
  <2>. QED
    BY <1>1, <1>5, <2>2, AncestorCountAssumption DEF WindowEdge
<1>7. mp = Ancestor(cand, k0) /\ Number(mp) = k0 /\ mp \in Blocks
  <2>1. k0 \in 0 .. Len(cand)
    BY <1>6 DEF Number
  <2>2. cand \in Blocks
    BY <1>1 DEF Above
  <2>. QED
    BY <1>1, <2>1, <2>2, AncestorNumber, AncestorIsBlock DEF MissingParent, Number
<1>8. Highest(Nums2) = top
  <2>1. Nums2 \subseteq Nums1 \cup {k0} /\ top \in Nums2
    BY <1>3, <1>7 DEF Above
  <2>2. Nums2 \subseteq Nat /\ \A n \in Nums2 : n <= top
    <3> SUFFICES ASSUME NEW n \in Nums2 PROVE n \in Nat /\ n <= top
      OBVIOUS
    <3>1. CASE n \in Nums1
      BY <1>2, <1>3, <3>1
    <3>2. CASE n = k0
      BY <1>1, <1>4, <1>6, <3>2
    <3>. QED
      BY <2>1, <3>1, <3>2
  <2>3. Highest(Nums2) \in Nums2 /\ \A n \in Nums2 : n <= Highest(Nums2)
    BY <1>2, <1>3, <2>1, <2>2, HighestIsMax, MaxNumberAssumption
  <2>4. Highest(Nums2) \in Nat /\ Highest(Nums2) <= top
    BY <2>2, <2>3
  <2>5. top \in Nat /\ top <= Highest(Nums2)
    BY <2>1, <2>2, <2>3
  <2>. QED
    BY <2>4, <2>5
<1>9. \A b : (b \in Above(c2, h) /\ Number(b) = top) <=> (b \in Above(c, h) /\ Number(b) = top)
  BY <1>4, <1>6, <1>7 DEF Above
<1>10. Candidate(c2, h) = cand
  BY <1>8, <1>9 DEF Candidate
<1>11. MissingNumbers(c2, cand) = MN \ {k0}
  <2>1. \A k \in WindowEdge(cand) .. Number(cand) - 1 : Ancestor(cand, k) = mp <=> k = k0
    <3> SUFFICES ASSUME NEW k \in WindowEdge(cand) .. Number(cand) - 1
                 PROVE  Ancestor(cand, k) = mp <=> k = k0
      OBVIOUS
    <3>1. k \in 0 .. Len(cand)
      BY <1>1, AncestorCountAssumption DEF WindowEdge, Number
    <3>2. Number(Ancestor(cand, k)) = k
      BY <1>1, <3>1, AncestorNumber
    <3>. QED
      BY <1>7, <3>2
  <2>. QED
    BY <2>1 DEF MissingNumbers
<1>. QED
  BY <1>10, <1>11
(* One call of ingest_block in the loop keeps the bound.                   *)
LEMMA IngestLoopStep ==
  ASSUME IterInv, IngestBlock
  PROVE  iters' <= AncestorCount /\ (pc' = "Ingest" /\ iters' >= 1 => LoopInv')
<1> DEFINE c == Upserted(cache, missing)
           m == AttemptMissing(c, head)
<1>1. /\ pc = "Ingest" /\ missing \in Blocks /\ cache \subseteq Blocks /\ iters \in Nat
      /\ iters <= AncestorCount
  BY DEF IngestBlock, IterInv, IngestorInv, TypeOK, StoreTypeOK
<1>2. /\ cache' = c /\ head' = AttemptHead(c, head) /\ missing' = m
      /\ pc' = IF m = NoBlock THEN "Cleanup" ELSE "Ingest"
      /\ iters' = IF m = NoBlock \/ iters > AncestorCount THEN iters ELSE iters + 1
  BY DEF IngestBlock
<1>3. c \in SUBSET Blocks
  BY <1>1 DEF Upserted
<1>4. CASE m = NoBlock
  BY <1>1, <1>2, <1>4
<1>5. CASE m # NoBlock
  <2> DEFINE cand2 == Candidate(c, head)
             MN2   == MissingNumbers(c, cand2)
  <2>1. /\ Above(c, head) # {} /\ Number(cand2) \in Nat /\ MN2 # {}
        /\ m = MissingParent(c, cand2) /\ AttemptHead(c, head) = head
        /\ Highest(MN2) \in MN2 /\ MN2 \subseteq WindowEdge(cand2) .. Number(cand2) - 1
        /\ Number(m) = Highest(MN2)
    BY <1>3, <1>5, AttemptMissingFacts
  <2>2. /\ cache' = c /\ head' = head /\ missing' = m /\ pc' = "Ingest"
        /\ iters' = iters + 1
    BY <1>1, <1>2, <1>5, <2>1, AncestorCountAssumption
  <2>3. Number(m) \in Nat /\ Number(m) + AncestorCount >= Number(cand2)
    BY <2>1, AncestorCountAssumption DEF WindowEdge
  <2>4. iters' + Number(m) <= Number(cand2)
    <3>1. CASE iters = 0
      BY <2>1, <2>2, <3>1
    <3>2. CASE iters # 0
      <4> DEFINE cand == Candidate(cache, head)
                 MN   == MissingNumbers(cache, cand)
      <4>1. LoopInv
        BY <1>1, <3>2 DEF IterInv
      <4>2. Above(cache, head) # {} /\ MN # {} /\ missing = MissingParent(cache, cand)
            /\ iters + Number(missing) <= Number(cand)
        BY <4>1 DEF LoopInv
      <4>3. Candidate(c, head) = cand /\ MN2 = MN \ {Highest(MN)}
        BY <1>1, <4>2, UpsertMissing DEF Upserted
      <4>4. AttemptMissing(cache, head) = missing /\ missing # NoBlock
        <5>1. missing # NoBlock
          BY <1>1, BlockIsSeq, NoBlockAssumption
        <5>. QED
          BY <4>2, <5>1 DEF AttemptMissing, MissingParent
      <4>5. /\ Number(missing) = Highest(MN) /\ MN \in SUBSET Nat /\ Number(cand) \in Nat
            /\ \A n \in MN : n <= Number(cand)
        <5>1. Number(AttemptMissing(cache, head)) = Highest(MN)
              /\ MN \subseteq WindowEdge(cand) .. Number(cand) - 1 /\ Number(cand) \in Nat
          BY <1>1, <4>4, AttemptMissingFacts
        <5>. QED
          BY <4>4, <5>1, AncestorCountAssumption DEF WindowEdge
      <4>6. Number(m) < Number(missing)
        <5>1. Highest(MN2) \in MN /\ Highest(MN2) # Highest(MN)
          BY <2>1, <4>3
        <5>2. Highest(MN) \in MN /\ Highest(MN2) <= Highest(MN)
          BY <4>2, <4>5, <5>1, HighestIsMax
        <5>. QED
          BY <2>1, <4>5, <5>1, <5>2
      <4>7. Number(missing) \in Nat
        <5>1. Highest(MN) \in MN
          BY <4>2, <4>5, HighestIsMax
        <5>. QED
          BY <4>5, <5>1
      <4>8. Number(cand2) = Number(cand)
        BY <4>3
      <4>. QED
        BY <1>1, <2>2, <2>3, <4>2, <4>5, <4>6, <4>7, <4>8
    <3>. QED
      BY <3>1, <3>2
  <2>5. iters' <= AncestorCount
    BY <1>1, <2>1, <2>2, <2>3, <2>4, AncestorCountAssumption
  <2>6. LoopInv'
    BY <2>1, <2>2, <2>4 DEF LoopInv
  <2>. QED
    BY <2>5, <2>6
<1>. QED
  BY <1>4, <1>5
LEMMA InitIterInv == Init => IterInv
  BY InitIngestorInv, AncestorCountAssumption DEF Init, IterInv

LEMMA NextIterInv == IterInv /\ [Next]_vars => IterInv'
<1> SUFFICES ASSUME IterInv, [Next]_vars PROVE IterInv'
  OBVIOUS
<1>1. IngestorInv'
  BY NextIngestorInv DEF IterInv
<1>2. CASE IngestBlock
  BY <1>1, <1>2, IngestLoopStep DEF IterInv
<1>3. CASE Source \/ UNCHANGED vars
  <2>1. UNCHANGED <<cache, head, missing, iters, pc>>
    BY <1>3 DEF Source, SourceNewBlock, SourceReorg, storeVars, ingestorVars, vars
  <2>. QED
    BY <1>1, <2>1 DEF IterInv, LoopInv
<1>4. CASE Ingestor /\ ~IngestBlock
  <2>1. /\ pc' # "Ingest" \/ iters' = 0
        /\ iters' = iters \/ iters' = 0
    BY <1>4 DEF Ingestor, AcquireAdapter, AcquireAdapterFails, PollUpToDate, PollBackwards,
               PollNewBlock, PollFails, IngestBlockFails, IngestBlockHeadUpdateFails,
               CleanupCachedBlocksStep, CleanupFails
  <2>. QED
    BY <1>1, <2>1, AncestorCountAssumption DEF IterInv
<1>. QED
  BY <1>2, <1>3, <1>4 DEF Next

(***************************************************************************)
(* The claim of the comment above the while-let loop of do_poll, for every *)
(* ancestor_count and whatever the source and the provider do: one poll    *)
(* calls ingest_block for missing ancestors at most ancestor_count times.  *)
(***************************************************************************)
THEOREM PollLoopBounded == Spec => []PollIterationsBounded
<1>1. Spec => []IterInv
  BY InitIterInv, NextIterInv, PTL DEF Spec
<1>. QED
  BY <1>1, PTL DEF IterInv, PollIterationsBounded
=============================================================================
