------------------------------ MODULE BlockRange ------------------------------
(***************************************************************************)
(* The block ranges of entity versions and the SQL the store generates to  *)
(* read and write them (store/postgres/src/block_range.rs), as predicates  *)
(* over one row.                                                           *)
(*                                                                         *)
(* A row of a mutable entity table carries block_range, a Postgres         *)
(* int4range [lower, upper) whose upper bound may be unbounded; a row of   *)
(* an immutable table carries the single column block$, modelled as a row *)
(* whose lower bound is block$ and whose upper bound is unbounded.  Block  *)
(* numbers are i32; BlockNumberMax stands for BLOCK_NUMBER_MAX (i32::MAX,  *)
(* the literal 2147483647 of the SQL), scaled down so that TLC reaches it. *)
(***************************************************************************)
EXTENDS Integers

CONSTANTS
  BlockNumberMax,  \* BLOCK_NUMBER_MAX
  Unbounded        \* Bound::Unbounded / a NULL upper(block_range)

ASSUME BlockNumberMaxAssumption == BlockNumberMax \in Nat \ {0}
ASSUME UnboundedAssumption == Unbounded \notin Int

(* BLOCK_UNVERSIONED: the lower bound of versions visible at every block. *)
BlockUnversioned == -1

BlockNumbers == BlockUnversioned .. BlockNumberMax

Ranges == [lower : BlockNumbers, upper : BlockNumbers \cup {Unbounded}]

(* Postgres semantics of int4range: [l, u) with l = u is the empty range. *)
IsEmpty(r) == r.upper # Unbounded /\ r.upper <= r.lower

(* The reference meaning of a range: the blocks it contains (@>).         *)
RangeContains(r, b) == r.lower <= b /\ (r.upper = Unbounded \/ b < r.upper)

(* coalesce(upper(block_range), 2147483647)                               *)
UpperOrMax(r) == IF r.upper = Unbounded THEN BlockNumberMax ELSE r.upper

-----------------------------------------------------------------------------
(* A fault the properties must catch: the BLOCK_NUMBER_MAX test dropped.  *)
UsesBrinAtMax(accountLike, useBrinForAll, b, filtersById) ==
  accountLike /\ (~filtersById \/ useBrinForAll)

(***************************************************************************)
(* BlockRangeColumn::contains(filters_by_id): block_range @> $block, with  *)
(* the redundant bounds that steer Postgres to the BRIN index added for    *)
(* account-like tables when the block is below BLOCK_NUMBER_MAX and the    *)
(* query does not filter by id (or use_brin_for_all_query_types is set);   *)
(* for immutable tables block$ <= $block, or true at BLOCK_NUMBER_MAX.     *)
(***************************************************************************)
UsesBrin(accountLike, useBrinForAll, b, filtersById) ==
  accountLike /\ b < BlockNumberMax /\ (~filtersById \/ useBrinForAll)

ContainsSQL(immutable, accountLike, useBrinForAll, r, b, filtersById) ==
  IF immutable
  THEN b = BlockNumberMax \/ r.lower <= b
  ELSE /\ RangeContains(r, b)
       /\ UsesBrin(accountLike, useBrinForAll, b, filtersById) =>
            UpperOrMax(r) > b /\ r.lower <= b

(* BlockRangeColumn::latest: block_range @> 2147483647, or true.          *)
LatestSQL(immutable, r) == immutable \/ RangeContains(r, BlockNumberMax)

(* BlockRangeColumn::changed_since: lower(block_range) >= $block (NULL,    *)
(* so false, for an empty range), or block$ >= $block.                     *)
ChangedSinceSQL(immutable, r, b) ==
  IF immutable THEN r.lower >= b ELSE ~IsEmpty(r) /\ r.lower >= b

(* Faults the properties must catch: the clamp closes one block early, or *)
(* does not close the range at all.                                        *)
ClampEarly(r, b) == [r EXCEPT !.upper = b - 1]
ClampMissing(r, b) == r

(* BlockRangeColumn::clamp: block_range = int4range(lower(block_range),    *)
(* $block); only called for mutable tables (it panics on immutable ones).  *)
Clamp(r, b) == [r EXCEPT !.upper = b]

(* A fault the properties must catch: new versions start one block late.  *)
RangeValueLate(b) == [lower |-> b + 1, upper |-> Unbounded]

(* BlockRangeValue::new(table, block, None): the range (block..) of a new *)
(* version, or the block$ value block of an immutable one.                 *)
RangeValueNew(b) == [lower |-> b, upper |-> Unbounded]

(* first_block_in_range: None (here Unbounded) for UNVERSIONED_RANGE,     *)
(* otherwise the included lower bound.                                     *)
FirstBlockInRange(r) ==
  IF r.lower = BlockUnversioned /\ r.upper = Unbounded THEN Unbounded ELSE r.lower

-----------------------------------------------------------------------------
(***************************************************************************)
(* EntityBlockRange::new(immutable, start..end, side).contains: rows whose *)
(* lower bound, upper bound or block$ lies in the interval.  new() turns   *)
(* the Rust range into (Included(start), Excluded(end)); contains() emits  *)
(* col >= start for the included start and col <= end for the excluded    *)
(* end.  A NULL bound (unbounded, or of an empty range) compares as false. *)
(***************************************************************************)
BorderSQL(immutable, r, side) ==
  IF ~immutable /\ side = "Upper" THEN r.upper ELSE r.lower

ChangedInSQL(immutable, r, start, end, side) ==
  LET col == BorderSQL(immutable, r, side)
  IN  /\ immutable \/ ~IsEmpty(r)
      /\ col # Unbounded
      /\ col >= start /\ col <= end
=============================================================================
