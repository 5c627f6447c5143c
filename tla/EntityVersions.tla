---------------------------- MODULE EntityVersions ----------------------------
(***************************************************************************)
(* The entity version store: every version of every entity is a row       *)
(* tagged with its block range, written block by block and read at any    *)
(* block with the predicates of block_range.rs.                            *)
(*                                                                         *)
(* The writer (the relational layer of the Postgres store, which is not   *)
(* part of this repository) is modelled from the specification: a create  *)
(* inserts a version valid from the block being written on, an update     *)
(* clamps the current version and inserts its successor in one            *)
(* transaction, a delete only clamps.  The current version of an entity   *)
(* is found with BlockRangeColumn::latest, its range closed with           *)
(* BlockRangeColumn::clamp, and the range of a new version is              *)
(* BlockRangeValue::new.  An entity key stands for the pair (entity id,   *)
(* causality region) that the rows of one entity share.                   *)
(***************************************************************************)
EXTENDS BlockRange

CONSTANTS
  Entities,           \* entity keys (id, causality region)
  ImmutableEntities,  \* the keys whose entity type is immutable
  Values,             \* entity data, abstracted
  AccountLike,        \* table.is_account_like
  UseBrinForAll,      \* ENV_VARS.store.use_brin_for_all_query_types
  Absent              \* what a query returns when no version is visible

ASSUME ImmutableAssumption == ImmutableEntities \subseteq Entities
ASSUME AbsentAssumption == Absent \notin Values
ASSUME FlagsAssumption == AccountLike \in BOOLEAN /\ UseBrinForAll \in BOOLEAN

VARIABLES
  rows,  \* the stored versions: [key, val, lower, upper]
  blk    \* the block whose changes are being written

vars == <<rows, blk>>

Rows == [key : Entities, val : Values, lower : BlockNumbers, upper : BlockNumbers \cup {Unbounded}]

Immutable(e) == e \in ImmutableEntities

(* The versions of e that BlockRangeColumn::latest selects.               *)
Current(e) == {r \in rows : r.key = e /\ LatestSQL(Immutable(e), r)}

NewVersion(e, v, b) ==
  LET rv == RangeValueNew(b)
  IN  [key |-> e, val |-> v, lower |-> rv.lower, upper |-> rv.upper]

TypeOK ==
  /\ rows \subseteq Rows
  /\ \A r \in rows : r.upper # Unbounded => r.lower <= r.upper
  /\ blk \in 0 .. BlockNumberMax

Init ==
  /\ rows = {}
  /\ blk = 0

(* Insert a new entity (no current version) valid from blk on.            *)
InsertEntity(e, v) ==
  /\ Current(e) = {}
  /\ rows' = rows \cup {NewVersion(e, v, blk)}
  /\ UNCHANGED blk

(* Update a mutable entity: clamp the current version at blk and insert   *)
(* the new one, atomically.  A second update in the same block clamps the *)
(* version to the empty range [blk, blk).                                  *)
UpdateEntity(e, v) ==
  /\ ~Immutable(e)
  /\ Current(e) # {}
  /\ rows' = (rows \ Current(e)) \cup {Clamp(r, blk) : r \in Current(e)}
               \cup {NewVersion(e, v, blk)}
  /\ UNCHANGED blk

(* Delete a mutable entity: clamp its current version at blk.             *)
DeleteEntity(e) ==
  /\ ~Immutable(e)
  /\ Current(e) # {}
  /\ rows' = (rows \ Current(e)) \cup {Clamp(r, blk) : r \in Current(e)}
  /\ UNCHANGED blk

(* The writer moves on to the next block.                                 *)
NextBlock ==
  /\ blk < BlockNumberMax
  /\ blk' = blk + 1
  /\ UNCHANGED rows

Next ==
  \/ \E e \in Entities, v \in Values : InsertEntity(e, v) \/ UpdateEntity(e, v)
  \/ \E e \in Entities : DeleteEntity(e)
  \/ NextBlock

Spec == Init /\ [][Next]_vars

-----------------------------------------------------------------------------
(***************************************************************************)
(* A query for entity e at block b (BlockRangeColumn::contains, not        *)
(* filtering by id, so the BRIN bounds apply to account-like tables).     *)
(***************************************************************************)
VisibleAt(e, b) ==
  {r \in rows : r.key = e /\ ContainsSQL(Immutable(e), AccountLike, UseBrinForAll, r, b, FALSE)}

(* What a query at block b returns for e: the value of the row it selects. *)
ReadAt(e, b) ==
  IF VisibleAt(e, b) = {} THEN Absent ELSE (CHOOSE r \in VisibleAt(e, b) : TRUE).val

History == INSTANCE EntityHistory WITH
  hist <- [e \in Entities |-> [b \in 0 .. BlockNumberMax |-> ReadAt(e, b)]]

(***************************************************************************)
(* The store implements the history its readers are promised: the answers *)
(* of BlockRangeColumn::contains at every block evolve as EntityHistory     *)
(* allows, each write changing the view at blk and later blocks only, and  *)
(* an immutable entity never changing once created.                        *)
(***************************************************************************)
ImplementsHistory == History!HistorySpec

(***************************************************************************)
(* The versions of one entity never overlap: no block lies in the ranges  *)
(* of two of them, so at most one is current.  An update that failed to    *)
(* clamp, or clamped the wrong row, would break it.                        *)
(***************************************************************************)
VersionsDisjoint ==
  \A r1, r2 \in rows :
    r1.key = r2.key /\ r1 # r2 =>
      \A b \in BlockNumbers : ~(RangeContains(r1, b) /\ RangeContains(r2, b))

(***************************************************************************)
(* The SQL of BlockRangeColumn::contains and ::latest selects exactly the  *)
(* rows whose range contains the block, resp. is unbounded, for every row  *)
(* the writer produces, every block up to BLOCK_NUMBER_MAX and either      *)
(* filters_by_id: the BRIN bounds never change the result, and the        *)
(* sentinel short-circuits are exact.                                      *)
(***************************************************************************)
PredicatesExact ==
  \A r \in rows, b \in 0 .. BlockNumberMax, filtersById \in BOOLEAN :
    /\ ContainsSQL(Immutable(r.key), AccountLike, UseBrinForAll, r, b, filtersById)
         = RangeContains(r, b)
    /\ LatestSQL(Immutable(r.key), r) = (r.upper = Unbounded)

(***************************************************************************)
(* EntityBlockRange::new(immutable, start..end, side).contains selects     *)
(* exactly the rows whose lower bound (side Lower, or block$) or upper     *)
(* bound (side Upper) lies in the Rust range start..end, which excludes    *)
(* end.                                                                    *)
(***************************************************************************)
ChangedInExact ==
  \A r \in rows, start \in 0 .. BlockNumberMax, side \in {"Lower", "Upper"} :
    \A end \in start .. BlockNumberMax :
      ~IsEmpty(r) =>
        ChangedInSQL(Immutable(r.key), r, start, end, side) =
          LET col == BorderSQL(Immutable(r.key), r, side)
          IN  col # Unbounded /\ start <= col /\ col < end
=============================================================================
