---------------------------- MODULE EntityHistory ----------------------------
(***************************************************************************)
(* What the entity store promises its readers: for every entity and every  *)
(* block, the version a query at that block returns (or Absent).  Writing  *)
(* an entity at block blk sets its value at blk and every later block and  *)
(* leaves the history before blk alone; an immutable entity is written     *)
(* once, by its creation, and never changes after.                         *)
(***************************************************************************)
EXTENDS Naturals

CONSTANTS Entities, ImmutableEntities, Values, Absent, BlockNumberMax

VARIABLES
  hist,  \* hist[e][b]: the version of e visible at block b
  blk    \* the block being written

Views == Values \cup {Absent}

HistoryTypeOK ==
  /\ hist \in [Entities -> [0 .. BlockNumberMax -> Views]]
  /\ blk \in 0 .. BlockNumberMax

HistoryInit ==
  /\ hist = [e \in Entities |-> [b \in 0 .. BlockNumberMax |-> Absent]]
  /\ blk = 0

(* Write x (a value, or Absent for a delete) for e from blk on.           *)
Write(e, x) ==
  /\ e \in ImmutableEntities => hist[e][blk] = Absent /\ x # Absent
  /\ hist' = [hist EXCEPT ![e] = [b \in 0 .. BlockNumberMax |-> IF b >= blk THEN x ELSE @[b]]]
  /\ UNCHANGED blk

Advance ==
  /\ blk < BlockNumberMax
  /\ blk' = blk + 1
  /\ UNCHANGED hist

HistoryNext == (\E e \in Entities, x \in Views : Write(e, x)) \/ Advance

HistorySpec == HistoryInit /\ [][HistoryNext]_<<hist, blk>>
=============================================================================
