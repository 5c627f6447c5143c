# TLA+ models of graph-node: block ingestion, entity versions, IPFS, chains, settings

This directory holds TLA+ specifications of parts of graph-node. The TLC
configurations model-check them on small instances, and the TLAPS proofs
establish the main invariants for every value of the constants.

## The system and its parts

| Part | Source | What it does | Module |
|---|---|---|---|
| Polling block ingestor | `chain/ethereum/src/ingestor.rs` | It is a long-running task. It polls an Ethereum provider for the latest block, fetches the missing ancestors into the local chain cache, moves the cache's chain head and retires old blocks. | `PollingBlockIngestor` |
| Chain cache (`ChainStore`) | the trait is used from `ingestor.rs`; its implementation is not in this repository | `upsert_block`, `attempt_chain_head_update`, `chain_head_ptr` and `cleanup_cached_blocks`. | `ChainStore` (from the specification) |
| Block-range predicates | `store/postgres/src/block_range.rs` | They generate the SQL that selects entity versions by their `block_range` (mutable tables) or `block$` (immutable tables): `contains`, `latest`, `clamp`, `changed_since` and `EntityBlockRange`. | `BlockRange` |
| Entity version store | the writer is not in this repository; its predicates come from `block_range.rs` | It inserts, updates (clamp plus insert) and deletes (clamp) versions, block by block. | `EntityVersions`, abstract `EntityHistory` |
| IPFS client construction | `graph/src/ipfs/mod.rs` | `new_ipfs_client` and `use_first_valid_api`. For each address they probe the gateway and RPC APIs concurrently, then cache the client and build a single client or a pool. | `IpfsClientContract`, `IpfsConnect` |
| Blockchain registry and traits | `graph/src/blockchain/mod.rs` | Trait declarations; `BlockchainKind` and its parsing from a manifest; `BlockchainMap`, the registry of chains by kind and network; the order of a block's triggers; `ChainStoreBlock`'s timestamp string. | `BlockchainMap`, `Trigger`, `ChainStoreBlock` |
| Mapping settings | `graph/src/env/mappings.rs` | They read environment variables into `EnvVarsMapping` at start-up, validate the IPFS cache location and compute the entity cache size. | `MappingEnv` |
| Ethereum crate root | `chain/ethereum/src/lib.rs` | Module declarations only. | nothing to model |

How the parts interact:

- **Ingestor and cache.** The ingestor is the only writer of a network's chain
  cache. Its `do_poll` relies on the cache contract:
  `attempt_chain_head_update(ancestor_count)` works on the highest cached
  block above the head. It either moves the head there or returns the hash of
  the highest missing ancestor within `ancestor_count` blocks. The ingestor
  then fetches that hash (the `while let` loop).
- **Entity store and predicates.** The entity store's readers and writers use
  the `block_range.rs` predicates to find the version visible at a block, to
  close the current version.
- **IPFS clients.** `new_ipfs_client` is called once at start-up. Its result
  is shared by everything that reads from IPFS. Its local cache directory is
  `GRAPH_IPFS_CACHE_LOCATION`, checked by the mapping settings.
- **Chains and deployments.** At start-up the node inserts one chain per
  (kind, network) into a `BlockchainMap`. A deployment finds its kind in its
  manifest (`from_manifest`) and looks its chain up with `get::<C>`. The
  chain's triggers for a block are sorted and deduplicated with `Trigger`'s
  `Ord` and `PartialEq`.

## Modules

A block is represented by its hash, which is its path from genesis: a sequence
over a small set `Forks`. Its number is the sequence's length, and its
ancestor at number `k` is the prefix of length `k`. Two blocks of the same
number on different forks are therefore different blocks with different
ancestors, and no recursion is needed.

- **`ChainStore`** is spec-modelled, because the store is not under `src/`.
  - State: `cache` is the set of cached blocks and `head` is the chain head
    (or `NoBlock`).
  - `Candidate` is the highest cached block above the head.
  - `MissingParent` is the highest ancestor of the candidate in the window
    `[max(0, n - AncestorCount), n)` that is not cached. `AttemptHead` and
    `AttemptMissing` give the two outcomes of `attempt_chain_head_update`.
  - `Retired` is the set of blocks `cleanup_cached_blocks` deletes: those more
    than `AncestorCount` below the head.
  - Actions: `UpsertBlock`, `AttemptChainHeadUpdate` and `CleanupCachedBlocks`.
  - Property: `HeadWindowResolvable` (every ancestor of the head inside its
    window is cached), whatever depth the caller passes to the cleanup.
- **`PollingBlockIngestor`** is the `run` loop as a program counter `pc`
  (`Acquire`, `Poll`, `Ingest`, `Cleanup`) driving `ChainStore`, plus the
  environment.
  - The environment is the source's canonical chain `tip`. It grows
    (`SourceNewBlock`) and reorganises up to `MaxReorgDepth` blocks deep
    (`SourceReorg`).
  - Actions and the code they model:

    | Action | Code |
    |---|---|
    | `AcquireAdapter`, `AcquireAdapterFails` | `eth_adapter()` with exponential backoff |
    | `PollUpToDate`, `PollBackwards`, `PollNewBlock`, `PollFails` | the early returns and errors of `do_poll` |
    | `IngestBlock` | one `ingest_block` call: fetch, `upsert_block`, `attempt_chain_head_update`, with the `while let` loop's continuation in `pc` and `missing` |
    | `IngestBlockFails` | `BlockUnavailable` for a block that left the canonical chain, or a transient error |
    | `IngestBlockHeadUpdateFails` | upsert done, head update failed |
    | `CleanupCachedBlocksStep`, `CleanupFails` | cleanup when `ENV_VARS.cleanup_blocks` is set; errors are swallowed |

  - `Reports` is `latest_block`. A lagging provider may answer with an
    ancestor up to `ProviderLag` blocks behind the tip.
  - `iters` counts the `ingest_block` calls for missing ancestors in one poll.
- **`BlockRange`** translates the predicates into boolean operators over one
  row `[lower, upper]` (`upper = Unbounded` for NULL).
  - `ContainsSQL` is `BlockRangeColumn::contains`. It covers:
    - the `block_range @> b` clause;
    - the redundant BRIN bounds, added only when `b < BLOCK_NUMBER_MAX`;
    - the `BLOCK_NUMBER_MAX` short-circuit of immutable tables.
  - `LatestSQL` is the `BLOCK_RANGE_CURRENT` test, which checks containment of
    2147483647.
  - `Clamp` sets the upper end, and panics on an immutable table.
  - `RangeValueNew` is the range a new version gets.
  - `ChangedInSQL` and `BorderSQL` are `EntityBlockRange`.
  - `FirstBlockInRange` is the lower end of a Rust `RangeBounds`.
- **`EntityVersions`** models the writer from the specification:
  `InsertEntity`, `UpdateEntity`, `DeleteEntity` and `NextBlock`, each
  using the `BlockRange` operators. Two updates in one block clamp a version
  to the empty range `[b, b)`. `ReadAt(e, b)` is what a
  query at block `b` returns.
- **`EntityHistory`** is the abstract promise to readers. `hist[e][b]` is the
  value visible at `b`. A write at `blk` changes `blk` and later blocks only,
  and an immutable entity is created once and never changed. `EntityVersions` implements it under the
  refinement mapping `hist <- [e |-> [b |-> ReadAt(e, b)]]`, which TLC checks
  as the property `ImplementsHistory` and `EntityVersions_proofs` proves.
- **`IpfsConnect`** models `new_ipfs_client`.
  - `probe[k][a]` is the answer of API `a` at the k-th address (`Ok`, an
    "invalid server" error, or another error). It is fixed in `Init` for up to
    `MaxServers` addresses.
  - `ProbeCompletes(a)` is one `stream.next()` of the `FuturesUnordered`.
    Either probe of an address may complete first.
  - `CacheClient` and `CacheClientFails` model `CachingClient::new`.
  - `Conclude` is the final `match clients.len()`.
- **`IpfsClientContract`** is what `new_ipfs_client` promises, as one
  `Return` step over `probe` and `result`. `Outcomes(probe)` is the set of
  results the answers allow:
  - a client (`ClientsResult`) when every address has an API that answers
    `Ok`;
  - otherwise a failure of the first address reached that may fail
    (`AddressFailures`): another probe error, `InvalidServer` when every API
    rejects it, or the caching error after a connection.
  `IpfsConnect` instantiates it with the identity mapping on `probe` and
  `result` and checks `ImplementsContract`.
- **`BlockchainMap`** models the registry.
  - `map` is the `HashMap` from `(C::KIND, network)` to the entry of the
    insert call that stored it. `log` keeps every entry ever inserted, for
    the properties.
  - The actions are `Insert(C, n)`, `Get(C, n)`, `GetAllByKind(C, k)` and
    `Resolve(m)`. `Resolve` is a deployment parsing a manifest and calling
    `get` for the type of that kind. Lookups record their call and result in
    `last`, including how many inserts preceded them.
  - A manifest is abstracted to the shape of its `dataSources` field, the
    head and rest of the first kind, and the network.
- **`Trigger`** models `Trigger<C>`'s `eq` and `cmp` over records
  `[kind, data]`. The data of either kind is a number in `0..DataMax`. The
  state is a triple of triggers, chosen afresh each step.
- **`ChainStoreBlock`** models `new` and `timestamp`.
  - A string is a sequence of one-character strings.
  - `i64` keeps its two's-complement range at `I64Bits` bits.
    `FromStrRadix` follows `i64::from_str_radix`: an optional sign that is
    not alone, at least one digit, and an error outside the range.
  - Writers are `new` (decimal) and a chain's JSON (hexadecimal quantity).
- **`MappingEnv`** models `EnvVarsMapping::try_from`.
  - A location is abstracted to its first path component, whether it is
    absolute, and what `canonicalize`, `is_dir`, `metadata` and the mode
    find. Whether the node's user may really write there is a separate fact.
  - `usize` keeps its width `UsizeBits`. The overflowing product either
    panics or wraps, because which one happens depends on the build.
  - Its one run, `cache_dir_writable`, is a violation run (Finding 4).
- **`MC_*`** modules define model values for TLC. The `*_proofs` modules hold
  the TLAPS proofs.

## Runs

| Run | cfg | Result | What it shows |
|---|---|---|---|
| `chain_store` | `MC_ChainStore.cfg` | pass (about 164k states) | Arbitrary sequences of cache calls, cleanup with any depth included, keep `HeadWindowResolvable`. |
| `ingestor` | `MC_PollingBlockIngestor.cfg` | pass (about 90k states) | Against new blocks, a reorganisation of depth 2, lagging providers and two transient failures, which can hit any call: the ancestor loop calls `ingest_block` at most `ancestor_count` times (`PollIterationsBounded`). Under weak fairness of the ingestor task, the head catches up with the tip once no uncled block stays at or above the tip (`HeadCatchesUpPastOrphans`). |
| `ingestor_stall` | `MC_PollingBlockIngestor_stall.cfg` | violation of `HeadCatchesUp` | Finding 1 below. |
| `entity_versions` | `MC_EntityVersions.cfg` | pass (about 14k states) | Versions of an entity never overlap, also after two updates in one block (`VersionsDisjoint`). The generated SQL selects exactly the right rows at every block up to `BLOCK_NUMBER_MAX`, with or without `filters_by_id` (`PredicatesExact`). The readers' view implements `EntityHistory` (`ImplementsHistory`). |
| `entity_changed_in` | `MC_EntityVersions_changed.cfg` | violation of `ChangedInExact` | Finding 2 below. |
| `ipfs_connect` | `MC_IpfsConnect.cfg` | pass | A client is returned only after every address is connected through an API that answered `Ok` (`SuccessMeansAllConnected`). "Unknown server kind" is returned only when both APIs rejected an address (`InvalidServerMeansNoApi`). The call implements its contract (`ImplementsContract`). |
| `ipfs_probe_race` | `MC_IpfsConnect_race.cfg` | violation of `ConnectsWhenEveryServerHasAnApi` | Finding 3 below. |
| `trigger_order` | `MC_Trigger.cfg` | pass (216 states) | `Trigger::cmp` is antisymmetric and transitive (`CmpTotalOrder`), and agrees with `eq` (`CmpAgreesWithEq`), on every triple. |
| `blockchain_map` | `MC_BlockchainMap.cfg` | pass (about 54k states) | Lookups interleaved with the start-up inserts return the chain of the last insert of that type and network before them, or "no network" (`LookupsSeeLatestChain`). `get_all_by_kind` returns exactly the latest chain of each network (`GetAllByKindExact`). |
| `cache_dir_writable` | `MC_MappingEnv_writable.cfg` | violation of `AcceptedLocationWritable` | Finding 4 below. |
| `timestamp_round_trip` | `MC_ChainStoreBlock.cfg` | pass (385 states) | `timestamp()` reads back every `i64` that `new` wrote, `i64::MIN` included, and every hexadecimal quantity (`TimestampRoundTrip`). |

Every property of a passing run has a mutant in `PROJECT.json`: a plausible
bug in the modelled code, under which TLC finds the property violated.
Examples:

- a cleanup that retires a block inside the window;
- a window that reaches genesis;
- a dropped upsert;
- a clamp that forgets the row;
- BRIN bounds also at `BLOCK_NUMBER_MAX`;
- a new version valid from the next block;
- a missing zero arm in the final match;
- treating every probe error as "invalid server";
- mixed trigger arms that both answer `Greater`, or `eq` on the data only;
- a registry keyed by network only, or `get_all_by_kind` without its filter;
- a timestamp parse that does not skip `0x`.

### Bounds

- **Chain.** Two forks, block numbers up to 3, `ancestor_count = 1`.
  - A window of one block already separates "the parent is cached" from "the
    parent is missing but inside the window" and "outside the window".
  - A reorganisation of depth 2 replaces the head's parent as well, so uncled
    blocks appear both above and below the head.
  - Two failures let a failure happen at any call while a reorganisation is
    pending.
- **Entities.** Blocks `0..2` with `BLOCK_NUMBER_MAX = 2`, one mutable and one
  immutable entity, two values.
  - The maximum is shrunk to 2, so the sentinel cases (`BLOCK_NUMBER_MAX`,
    the 2147483647 coalescing) happen at a block the writer actually reaches.
  - Three blocks are enough for two updates in one block (an empty range),
    a clamp at a later block, and a reader before and after each.
- **IPFS.** Up to two addresses, every combination of probe answers and both
  completion orders.

- **Chains.** Three chain types (one per kind), two networks and three
  inserts: enough for a replacing insert and for lookups before and after
  it, of every type, kind and manifest shape.
- **Triggers.** `DataMax = 2`: three data values give every order relation
  between the three triggers of a triple, within and across kinds.
- **Settings.** `usize` at 20 bits, so `usize::MAX / 1000` is 1048, and
  every combination of location facts.
- **Timestamps.** `i64` at 8 bits (`-128..127`), every value. Then `"-128"`
  is `i64::MIN` and `"0x7f"` the largest hexadecimal quantity.

The registry, trigger, settings and timestamp models have no concurrency of their own. `BlockchainMap`
interleaves inserts with lookups, and its lookups record the number of
inserts before them. The other three are single steps over all inputs.
`MappingEnv` stops after its step, so its runs do not check deadlock.
`ChainStoreBlock` checks the strings the two writers produce. The fallback of
an unreadable string to 0 (`unwrap_or(0)`) is the code's documented choice,
so no property is stated about other strings.

### Fairness

`Fairness == WF_vars(Ingestor)`. The ingestor is a single tokio task in an
endless loop. Every call it awaits returns, either with a result or an error
(the backoff sleeps end). So the task is never disabled forever, only
delayed.

The provider's transient failures are not constrained by fairness. Instead
they are bounded by the budget `MaxFailures`, which plays the role that
"failures eventually stop" plays in the argument. Uncled blocks that the
provider never serves again are not bounded: that is Finding 1.

## Findings

1. **The head can stall (spec gap, `ingestor.rs:195`).**
   `attempt_chain_head_update` always works on the highest cached block.
   Suppose a reorganisation uncles a cached block at or above the new tip,
   and its missing parent is no longer served. Then every poll ends in
   `BlockUnavailable` and the head stays where it is. It is even `None` after
   a cold start. This lasts until the canonical chain grows past the uncled
   block. The specification's bounded convergence (`HeadCatchesUp`) does not
   hold. The version restricted to behaviours without such a block
   (`HeadCatchesUpPastOrphans`) does hold.
2. **Off-by-one in `EntityBlockRange` (spec/code divergence,
   `block_range.rs:198`).** `EntityBlockRange::new` turns the Rust range
   `start..end` into `(Included(start), Excluded(end))`, but `contains` emits
   `col <= end` for an excluded end. TLC finds a row with `lower = end`
   selected although the range excludes `end`, for example `0..0`, the empty
   range.
3. **The first probe result decides (`ipfs/mod.rs:124`).**
   `use_first_valid_api` returns the first probe error that is not "invalid
   server", even when the other API of the same address would answer `Ok`.
   With a working gateway and a failing RPC endpoint, whether the node starts
   depends on which probe finishes first.

4. **"Writable" means a write bit (`env/mappings.rs:193`).**
   `permissions().readonly()` looks only at the mode. A root-owned `0755`
   directory is accepted, although the message says the location must be a
   writable directory. The failure comes later, when the cache writes.
Two further behaviours are modelled but not reported as defects:

- `from_str` maps the data source kind `subgraph` to `Ethereum`
  (`blockchain/mod.rs:587`). The TODO beside it already marks this as a known
  limitation.
- `entity_cache_size_in_kb * 1000` (`env/mappings.rs:106`) panics or wraps
  above `usize::MAX / 1000` kilobytes. `MappingEnv` has both outcomes. The
  bound is far beyond any real setting.

## Proofs

TLAPS proves the following for every value of the constants satisfying the
modules' `ASSUME`s:

- `ChainStore_proofs`:
  - `StoreTypeCorrect == StoreSpec => []StoreTypeOK`
  - `StoreHeadWindow == StoreSpec => []HeadWindowResolvable`
- `PollingBlockIngestor_proofs`:
  - `IngestorTypeCorrect == Spec => []TypeOK`
  - `PollLoopBounded == Spec => []PollIterationsBounded`. See the loop
    argument below.
- `Trigger`:
  - `TriggerOrderTotal`: for all triggers `t1, t2, t3`, `cmp` is
    antisymmetric, transitive on `Less` and agrees with `eq`. It rests on the
    lemma `DataCmpOrder` about the order of the data.
  - `TriggerInvariants == Spec => [](CmpTotalOrder /\ CmpAgreesWithEq)`.
    Only `TypeOK` is needed as the invariant, because the properties hold of
    every triple. `CmpAgreesWithEqAlways` states the second conjunct alone.
- `BlockchainMap_proofs`, for every set of chain types, networks and
  insert bound (assuming the kinds of the chain types are distinct and the
  marker `"none"` is not a chain type):
  - `LookupsSeeLatest == Spec => []LookupsSeeLatestChain`
  - `LookupsSeeLatestChain` is not inductive on its own: it speaks of the
    insert history, while `get` reads the map. The strengthening `MapInv`
    relates the two. Every insert has its own id, at most `inserts`. Every
    chain in the map was inserted under its own key. Every inserted chain's
    key is in the map, holding that chain or a later one.
  - `GetCorrect` shows that `get` then returns the latest chain, using
    `KindInjective` to turn the key back into a type. An insert leaves the
    recorded lookup's result valid, because its id is above the lookup's
    horizon `last.at` (`InsertInv`). A lookup's horizon is all of `log`
    (`LookupInv`).
  - `GetAllByKindSeesLatest == Spec => []GetAllByKindExact`. The lemma
    `GetAllCorrect` shows that under `MapInv` the map's entries of a kind
    are exactly the latest chain of each network inserted with it. The
    invariant is `IInv /\ GetAllByKindExact`.
- `EntityVersions_proofs`, for every set of entities, values and
  `BLOCK_NUMBER_MAX`:
  - `EntityTypeCorrect == Spec => []TypeOK`
  - `VersionsNeverOverlap == Spec => []VersionsDisjoint`
  - `PredicatesAreExact == Spec => []PredicatesExact`
  - `StoreImplementsHistory == Spec => ImplementsHistory`, the refinement
    of `EntityHistory`.
- `IpfsConnect_proofs`, for every `MaxServers`:
  - `AllConnectedOnSuccess == Spec => []SuccessMeansAllConnected`
  - `InvalidServerOnlyWithoutApi == Spec => []InvalidServerMeansNoApi`
  - `ContractKept == Spec => ImplementsContract`, the refinement of
    `IpfsClientContract`.

**Why the window invariant needs strengthening.** `HeadWindowResolvable`
alone is not inductive: its preservation depends on the cache and the head
being blocks. `attempt_chain_head_update` only moves the head when its window
is complete. The inductive invariant is therefore `StoreTypeOK /\
HeadWindowResolvable` for the store. The ingestor's proofs use `TypeOK /\
HeadWindowResolvable` as well (`IngestorInv`), because the loop bound below
needs the head's window: whenever `pc = "Ingest"`, `missing` is a block.

**How the proof goes.**

- The proof has one case per action.
- The cache changes only by three operations. Each has a lemma saying it
  keeps the window of the head (`WindowOf`):
  - `UpsertKeepsWindow`: adding a block;
  - `AttemptKeepsWindow`: the head moves only to a candidate with
    `MissingParent = NoBlock`, whose whole window is therefore cached;
  - `CleanupKeepsWindow`: retired blocks lie below the window.
- These rest on two facts about the candidate:
  - `HighestIsMax`: the maximum of a finite non-empty set of naturals exists.
    It is proved with the well-founded-induction library instead of a
    recursive operator.
  - `MissingParentNone`.
- The source's actions leave the cache alone. A reorganisation keeps `tip` a
  block (`SourceStep`).

**The ancestor loop bound.** `PollIterationsBounded` is not inductive. It
needs `LoopInv`, which holds once the loop runs (`iters >= 1`):

- the candidate exists and still has missing numbers;
- `missing` is its `MissingParent`;
- `iters + Number(missing) <= Number(candidate)`.

`UpsertMissing` shows why. Upserting `missing` keeps the same candidate,
because the block lies below it and the head does not move. The next missing
ancestor is the highest number still absent, strictly below the last. So
each call lowers `Number(missing)` by at least one. `IterInv` was checked by
TLC as an invariant with `AncestorCount` 1 and 2 before it was proved.

**Entity versions.** `VersionsDisjoint` is not inductive. An update clamps
the current version at `blk`. That is safe only when every row was written
at or before `blk`, so the invariant `Inv` adds two facts:

- every bound is at most `blk`;
- the rows of an immutable entity stay unbounded.

`Inv` also states disjointness by the order of the bounds (`Separated`),
which each action preserves by a local argument:

- insert: `AddSeparate`;
- clamp: `ClampSeparate`, also when the clamp leaves `[blk, blk)`.

`VersionsDisjoint` and `PredicatesExact` follow from `Inv` for every state.

The refinement maps the rows to the history
`Map[e][b] = ReadAt(e, b)`, the value of the version `contains` selects.

- Under `Inv`, this equals `H(rows)` (`MapIsH`).
- Insert, update and delete change `H` only from `blk` on (`InsertView`,
  `UpdateView`, `DeleteView`).
- So every step is a `History!Write`, a `History!Advance` or a stutter
  (`StepRefines`).

**IPFS client construction.** The invariant `IInv` relates the connected
clients to the probes they answered. It says:

- `Len(clients) = server - 1`, and every client's probe answered `Ok`;
- in `Probe`, the APIs no longer pending answered `InvalidServer`;
- in `Cache`, the chosen API answered `Ok`;
- a finished result was computed by `Finish(Servers)` after the last server.

`IInv` was checked by TLC with `MaxServers = 3` (9,906 states) before it was
proved.

The refinement rests on the same invariant. Every step that leaves `result`
at `"None"` is a stutter of the contract. The step that sets it is `Return`,
because `IInv` says why the loop stopped where it did:

- every address before `server` connected (`ConnectedBefore`), so `server`
  is an address the contract lets end the call (`FailureAllowed`);
- `InvalidServer` comes only when the last pending API rejected the address
  and every other API already had;
- `CacheError` comes only after a chosen API answered `Ok`;
- `Conclude` runs only past the last address, with a client per address.

**Checked only by TLC.**

- **Liveness.** `HeadCatchesUpPastOrphans` rests on weak fairness, and the
  `ENABLED` it implies is beyond TLAPS's provers.
- **`TimestampRoundTrip`.** `FromStrRadix` folds over the digit sequence
  (`FoldLeft`, a RECURSIVE operator), and `Numeral` is a recursive function
  over numbers. Proving that parsing inverts formatting for every value
  is induction over data. The library's induction theorems take an
  operator parameter that the installed provers cannot instantiate, and a
  module reaching `FoldLeft` loses the SMT backend.

## Not modelled, and why

- **The Postgres store's implementation of `ChainStore` and the relational
  writer.** They are not in this repository. Both are modelled from the
  specification and marked `spec_modelled` in `PROJECT.json`.
- **The rollback of a block after a reorganisation.** The specification
  leaves its semantics open and says not to assume a strategy, so neither a
  revert step nor `BlockRangeLowerBoundClause` and
  `BlockRangeUpperBoundClause` (`block_range.rs:98-134`), which only a
  rollback uses, are modelled.
- **The atomicity of clamp plus insert.** It comes from the writer's
  transaction, which is not in this repository, so the model takes the pair
  as one step.
- **`clamp` on an immutable table panics.** No modelled writer calls it.
- **The traits of `graph/src/blockchain/mod.rs`** (`Blockchain`, `Block`,
  `DataSource`, `TriggersAdapter` and the rest). They declare interfaces
  without state. `Display`, `Clone`, `as_chain` and `as_subgraph` are pure
  accessors.
- **The dispatch from a kind to its `Blockchain` type.** It is outside this
  file, so `TypeOf` is modelled from the specification.
- **The other fields of `EnvVarsMapping`.** They are copied unchanged
  (durations, limits, flags), so no property can tell them apart.
- **Logging, metrics and the SQL text.** They are abstracted to what they
  select or decide.
- **Backoff delays.** They are time, so only the saturating attempt counter
  is kept.

## Further work

- Model the rollback of a block once its semantics are specified.
