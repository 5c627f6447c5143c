------------------------- MODULE PollingBlockIngestor -------------------------
(***************************************************************************)
(* The polling block ingestor of chain/ethereum (ingestor.rs) driving the  *)
(* chain cache of its network, against a block source whose canonical     *)
(* chain grows and reorganises while the ingestor polls it.                *)
(*                                                                         *)
(* The ingestor is one sequential task (run): acquire an adapter with      *)
(* exponential backoff, run one do_poll, optionally clean the cache, sleep *)
(* and start again.  Its only suspension points are the calls to the      *)
(* source and to the store; the store has no other writer, so each call   *)
(* of ingest_block (fetch, upsert_block, attempt_chain_head_update) is one *)
(* step, and the source may change between any two steps.                  *)
(***************************************************************************)
EXTENDS ChainStore

CONSTANTS
  ProviderLag,    \* how far behind the tip the provider's latest header can be
  MaxReorgDepth,  \* the deepest reorganisation of the source
  MaxReorgs,      \* bound on the number of reorganisations in a behaviour
  MaxFailures,    \* bound on the transient provider failures in a behaviour
  MaxAttempt,     \* bound on the backoff attempt counter
  CleanupBlocks   \* ENV_VARS.cleanup_blocks

ASSUME ProviderLagAssumption == ProviderLag \in Nat
ASSUME MaxReorgDepthAssumption == MaxReorgDepth \in Nat \ {0}
ASSUME MaxReorgsAssumption == MaxReorgs \in Nat
ASSUME MaxFailuresAssumption == MaxFailures \in Nat
ASSUME MaxAttemptAssumption == MaxAttempt \in Nat
ASSUME CleanupBlocksAssumption == CleanupBlocks \in BOOLEAN

VARIABLES
  tip,      \* the block source: the tip of its canonical chain
  reorgs,   \* the number of reorganisations so far
  failures, \* the number of transient provider failures so far
  pc,       \* where the run loop is: "Acquire", "Poll", "Ingest", "Cleanup"
  missing,  \* the hash the ingest loop fetches next (missing_block_hash)
  iters,    \* ingest_block calls for missing ancestors in this poll
  attempt   \* the attempt counter of the ExponentialBackoff, counted up to
            \* MaxAttempt, the attempt whose delay reaches the 30s ceiling

sourceVars == <<tip, reorgs>>
failVars == <<failures>>
ingestorVars == <<pc, missing, iters, attempt>>
vars == <<cache, head, tip, reorgs, failures, pc, missing, iters, attempt>>

Canonical(b) == Number(b) <= Number(tip) /\ Ancestor(tip, Number(b)) = b

TypeOK ==
  /\ StoreTypeOK
  /\ tip \in Blocks
  /\ reorgs \in 0 .. MaxReorgs
  /\ failures \in 0 .. MaxFailures
  /\ pc \in {"Acquire", "Poll", "Ingest", "Cleanup"}
  /\ missing \in Blocks \cup {NoBlock}
  /\ pc = "Ingest" => missing \in Blocks
  /\ iters \in Nat
  /\ attempt \in 0 .. MaxAttempt

Init ==
  /\ StoreInit
  /\ tip = << >>
  /\ reorgs = 0
  /\ failures = 0
  /\ pc = "Acquire"
  /\ missing = NoBlock
  /\ iters = 0
  /\ attempt = 0

-----------------------------------------------------------------------------
(* The block source: a new block on the tip, or a reorganisation that     *)
(* replaces the last d blocks of the chain by a sibling branch.            *)
SourceNewBlock ==
  /\ Number(tip) < MaxNumber
  /\ \E f \in Forks : tip' = Append(tip, f)
  /\ UNCHANGED <<reorgs, failVars, storeVars, ingestorVars>>

SourceReorg ==
  /\ reorgs < MaxReorgs
  /\ \E d \in 1 .. MaxReorgDepth, f \in Forks :
       /\ d <= Number(tip)
       /\ f # tip[Number(tip) - d + 1]
       /\ tip' = Append(Ancestor(tip, Number(tip) - d), f)
  /\ reorgs' = reorgs + 1
  /\ UNCHANGED <<failVars, storeVars, ingestorVars>>

(* A transient failure of the provider (an RPC error, a lagging node)     *)
(* spends one unit of the failure budget.                                  *)
Fail == failures < MaxFailures /\ failures' = failures + 1

(* latest_block_header: the provider's tip; a lagging provider (a         *)
(* transient failure) may report an ancestor up to ProviderLag below it.  *)
LaggingBlocks ==
  {Ancestor(tip, k) : k \in {n \in 0 .. Number(tip) - 1 : n + ProviderLag >= Number(tip)}}

Reports(l) ==
  \/ l = tip /\ UNCHANGED failures
  \/ l \in LaggingBlocks /\ Fail

-----------------------------------------------------------------------------
(* run: eth_adapter() succeeds and the backoff is reset, or it fails and  *)
(* the loop sleeps for the next backoff delay and tries again.            *)
AcquireAdapter ==
  /\ pc = "Acquire"
  /\ pc' = "Poll"
  /\ attempt' = 0
  /\ UNCHANGED <<missing, iters, failVars, storeVars, sourceVars>>

AcquireAdapterFails ==
  /\ pc = "Acquire"
  /\ Fail
  /\ attempt' = IF attempt < MaxAttempt THEN attempt + 1 ELSE attempt
  /\ UNCHANGED <<pc, missing, iters, storeVars, sourceVars>>

(* do_poll up to its first ingest_block: chain_head_ptr, then the latest  *)
(* header; a provider reporting the head, or a block below it, ends the   *)
(* poll without touching the cache.                                        *)
PollUpToDate ==
  /\ pc = "Poll"
  /\ head # NoBlock
  /\ Reports(head)
  /\ pc' = "Cleanup"
  /\ UNCHANGED <<missing, iters, attempt, storeVars, sourceVars>>

PollBackwards ==
  /\ pc = "Poll"
  /\ head # NoBlock
  /\ \E l \in {tip} \cup LaggingBlocks :
       /\ Number(l) < Number(head)
       /\ Reports(l)
  /\ pc' = "Cleanup"
  /\ UNCHANGED <<missing, iters, attempt, storeVars, sourceVars>>

PollNewBlock ==
  /\ pc = "Poll"
  /\ \E l \in {tip} \cup LaggingBlocks :
       /\ head # NoBlock => l # head /\ Number(l) >= Number(head)
       /\ Reports(l)
       /\ missing' = l
  /\ iters' = 0
  /\ pc' = "Ingest"
  /\ UNCHANGED <<attempt, storeVars, sourceVars>>

(* chain_head_ptr or latest_block fails: the poll error is logged.        *)
PollFails ==
  /\ pc = "Poll"
  /\ Fail
  /\ pc' = "Cleanup"
  /\ UNCHANGED <<missing, iters, attempt, storeVars, sourceVars>>

(* A fault the properties must catch: the loop ignores the end of input.  *)
IngestBlockNoExit ==
  /\ pc = "Ingest"
  /\ LET c == Upserted(cache, missing)
         m == AttemptMissing(c, head)
     IN  /\ cache' = c
         /\ head' = AttemptHead(c, head)
         /\ missing' = m
         /\ pc' = "Ingest"
         /\ iters' = IF m = NoBlock \/ iters > AncestorCount THEN iters ELSE iters + 1
  /\ UNCHANGED <<attempt, failVars, sourceVars>>

(* ingest_block(missing) succeeds: the block is fetched, upserted, and    *)
(* attempt_chain_head_update either moves the head or names the next     *)
(* missing ancestor, which the while-let loop fetches next.  An uncled    *)
(* block may still be served by the provider.                              *)
IngestBlock ==
  /\ pc = "Ingest"
  /\ LET c == Upserted(cache, missing)
         m == AttemptMissing(c, head)
     IN  /\ cache' = c
         /\ head' = AttemptHead(c, head)
         /\ missing' = m
         /\ pc' = IF m = NoBlock THEN "Cleanup" ELSE "Ingest"
         /\ iters' = IF m = NoBlock \/ iters > AncestorCount THEN iters ELSE iters + 1
  /\ UNCHANGED <<attempt, failVars, sourceVars>>

(* ingest_block fails and the poll ends with the error logged: the block  *)
(* left the canonical chain (BlockUnavailable, which may last), or a      *)
(* transient error (missing receipts, RPC or store errors).                *)
IngestBlockFails ==
  /\ pc = "Ingest"
  /\ \/ ~Canonical(missing) /\ UNCHANGED failures
     \/ Fail
  /\ pc' = "Cleanup"
  /\ UNCHANGED <<missing, iters, attempt, storeVars, sourceVars>>

(* upsert_block stores the block but attempt_chain_head_update fails      *)
(* (IngestorError::Unknown): the block stays cached, the head is left as   *)
(* it was and the poll ends with the error logged.                         *)
IngestBlockHeadUpdateFails ==
  /\ pc = "Ingest"
  /\ Fail
  /\ cache' = Upserted(cache, missing)
  /\ pc' = "Cleanup"
  /\ UNCHANGED <<head, missing, iters, attempt, sourceVars>>

(* cleanup_cached_blocks when enabled (its errors are swallowed), then    *)
(* the polling interval sleep.                                             *)
CleanupCachedBlocksStep ==
  /\ pc = "Cleanup"
  /\ cache' = IF CleanupBlocks THEN cache \ Retired(cache, head) ELSE cache
  /\ pc' = "Acquire"
  /\ UNCHANGED <<head, missing, iters, attempt, failVars, sourceVars>>

CleanupFails ==
  /\ pc = "Cleanup"
  /\ CleanupBlocks
  /\ Fail
  /\ pc' = "Acquire"
  /\ UNCHANGED <<missing, iters, attempt, storeVars, sourceVars>>

-----------------------------------------------------------------------------
Source == SourceNewBlock \/ SourceReorg

Ingestor ==
  \/ AcquireAdapter \/ AcquireAdapterFails
  \/ PollUpToDate \/ PollBackwards \/ PollNewBlock \/ PollFails
  \/ IngestBlock \/ IngestBlockFails \/ IngestBlockHeadUpdateFails
  \/ CleanupCachedBlocksStep \/ CleanupFails

Next == Source \/ Ingestor

(* The ingestor task is always scheduled again and every call it awaits  *)
(* returns, with a result or an error; transient failures are bounded by  *)
(* MaxFailures, so weak fairness of the task is all that is assumed.       *)
Fairness == WF_vars(Ingestor)

Spec == Init /\ [][Next]_vars /\ Fairness

-----------------------------------------------------------------------------
(***************************************************************************)
(* The claim of the comment above the while-let loop of do_poll: a poll   *)
(* calls ingest_block for missing ancestors at most ancestor_count times,  *)
(* because each missing parent is one number below the previous one and   *)
(* none lies below the window edge of the candidate.  (iters stops        *)
(* counting once it exceeds the bound.)                                    *)
(***************************************************************************)
PollIterationsBounded == iters <= AncestorCount

(***************************************************************************)
(* Bounded convergence, as the specification states it: once the source   *)
(* has stopped changing, the run loop eventually brings the head of the   *)
(* cache up to the number of the source's tip and keeps it there.          *)
(***************************************************************************)
HeadCatchesUp == <>[](head # NoBlock /\ Number(head) >= Number(tip))

(* No cached block at or above the tip's number is off the canonical     *)
(* chain (an uncled block the source may never serve the parents of).      *)
NoOrphanAtTip == \A b \in cache : Canonical(b) \/ Number(b) < Number(tip)

(***************************************************************************)
(* Convergence as the code achieves it: attempt_chain_head_update always   *)
(* works on the highest cached block, so once no uncled block at or above  *)
(* the tip stays in the cache, the head catches up with the tip and stays  *)
(* there, despite reorganisations, lagging providers, failed fetches and   *)
(* cleanups on the way.                                                    *)
(***************************************************************************)
HeadCatchesUpPastOrphans ==
  <>[]NoOrphanAtTip => <>[](head # NoBlock /\ Number(head) >= Number(tip))
=============================================================================
