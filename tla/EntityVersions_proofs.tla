------------------------ MODULE EntityVersions_proofs ------------------------
(***************************************************************************)
(* Proofs about the entity version store: the versions of an entity never *)
(* overlap, the generated SQL is exact, and the store implements          *)
(* EntityHistory, for every set of entities and values, both table flags  *)
(* and every BLOCK_NUMBER_MAX.                                             *)
(***************************************************************************)
EXTENDS EntityVersions, TLAPS

(* r1 ends where r2 starts or before.                                     *)
Precedes(r1, r2) == r1.upper # Unbounded /\ r1.upper <= r2.lower

(* Two versions that share no block, by the order of their bounds.        *)
Separate(r1, r2) == IsEmpty(r1) \/ IsEmpty(r2) \/ Precedes(r1, r2) \/ Precedes(r2, r1)

(* The versions of one entity in S are pairwise separate.                 *)
Separated(S) == \A r1, r2 \in S : r1.key = r2.key /\ r1 # r2 => Separate(r1, r2)

(***************************************************************************)
(* The inductive invariant: every version was written at or before blk    *)
(* and closed (if at all) at or before blk; the versions of an immutable   *)
(* entity are never closed; two versions of one entity are separate.       *)
(***************************************************************************)
Inv ==
  /\ TypeOK
  /\ \A r \in rows : r.lower \in 0 .. blk /\ (r.upper # Unbounded => r.upper <= blk)
  /\ \A r \in rows : Immutable(r.key) => r.upper = Unbounded
  /\ Separated(rows)

(* Replacing the upper bound of a row record.                             *)
LEMMA SetUpper ==
  ASSUME NEW k, NEW v, NEW l, NEW u, NEW b
  PROVE  [[key |-> k, val |-> v, lower |-> l, upper |-> u] EXCEPT !.upper = b]
           = [key |-> k, val |-> v, lower |-> l, upper |-> b]
  OBVIOUS

(* What clamp does to a row.                                              *)
LEMMA ClampRow ==
  ASSUME NEW r \in Rows, NEW b
  PROVE  /\ Clamp(r, b) = [key |-> r.key, val |-> r.val, lower |-> r.lower, upper |-> b]
         /\ [r EXCEPT !.upper = b] = [key |-> r.key, val |-> r.val, lower |-> r.lower, upper |-> b]
<1>1. r = [key |-> r.key, val |-> r.val, lower |-> r.lower, upper |-> r.upper]
  BY DEF Rows
<1>. QED
  BY <1>1, SetUpper DEF Clamp


LEMMA InitInv == Init => Inv
  BY BlockNumberMaxAssumption DEF Init, Inv, TypeOK, Separated

(* Numbers the bounds of a row are made of.                               *)
LEMMA BoundsNat ==
  /\ BlockNumberMax \in Nat
  /\ BlockNumbers \subseteq Int
  /\ Unbounded \notin BlockNumbers
  BY BlockNumberMaxAssumption, UnboundedAssumption DEF BlockNumbers, BlockUnversioned

(***************************************************************************)
(* BlockRangeColumn::latest selects the versions that were never closed:   *)
(* no closed range reaches BLOCK_NUMBER_MAX, and immutable versions are    *)
(* never closed.                                                           *)
(***************************************************************************)
LEMMA CurrentRows ==
  ASSUME Inv, NEW e \in Entities
  PROVE  Current(e) = {r \in rows : r.key = e /\ r.upper = Unbounded}
<1>1. ASSUME NEW r \in rows, r.key = e
      PROVE  LatestSQL(Immutable(e), r) <=> r.upper = Unbounded
  <2>1. r.lower \in 0 .. blk /\ blk \in 0 .. BlockNumberMax
    BY <1>1 DEF Inv, TypeOK
  <2>2. r.upper # Unbounded => r.upper \in Int /\ r.upper <= blk
    BY <1>1, BoundsNat DEF Inv, TypeOK, Rows
  <2>3. CASE Immutable(e)
    BY <1>1, <2>3 DEF Inv, LatestSQL
  <2>4. CASE ~Immutable(e)
    BY <2>1, <2>2, <2>4, BoundsNat DEF LatestSQL, RangeContains
  <2>. QED
    BY <2>3, <2>4
<1>. QED
  BY <1>1 DEF Current

(* An entity has at most one version that was never closed.               *)
LEMMA OneCurrent ==
  ASSUME Inv, NEW r1 \in rows, NEW r2 \in rows, r1.key = r2.key,
         r1.upper = Unbounded, r2.upper = Unbounded
  PROVE  r1 = r2
  BY DEF Inv, Separated, Separate, IsEmpty, Precedes

LEMMA SeparatedSubset ==
  ASSUME NEW S, NEW T, Separated(S), T \subseteq S
  PROVE  Separated(T)
  BY DEF Separated

(* Adding a row separate from the versions of its entity.                 *)
LEMMA AddSeparate ==
  ASSUME NEW S, NEW n, Separated(S),
         \A r \in S : r.key = n.key /\ r # n => Separate(r, n)
  PROVE  Separated(S \cup {n})
  BY DEF Separated, Separate

(* BlockRangeValue::new for a version written at b.                        *)
LEMMA NewVersionRow ==
  ASSUME NEW e, NEW v, NEW b
  PROVE  NewVersion(e, v, b) = [key |-> e, val |-> v, lower |-> b, upper |-> Unbounded]
  BY DEF NewVersion, RangeValueNew

(* The facts about the rows and the block every step uses.                *)
LEMMA RowFacts ==
  ASSUME Inv, NEW r \in rows
  PROVE  /\ r \in Rows
         /\ r.lower \in 0 .. blk
         /\ r.upper # Unbounded => r.upper \in Int /\ r.lower <= r.upper /\ r.upper <= blk
         /\ blk \in 0 .. BlockNumberMax
  BY BoundsNat DEF Inv, TypeOK, Rows

LEMMA InsertInv ==
  ASSUME Inv, NEW e \in Entities, NEW v \in Values, InsertEntity(e, v)
  PROVE  Inv'
<1> DEFINE n == [key |-> e, val |-> v, lower |-> blk, upper |-> Unbounded]
<1>1. rows' = rows \cup {n} /\ blk' = blk
  BY NewVersionRow DEF InsertEntity
<1>2. \A r \in rows : r.key = e => r.upper # Unbounded
  <2> SUFFICES ASSUME NEW r \in rows, r.key = e, r.upper = Unbounded PROVE FALSE
    OBVIOUS
  <2>1. r \in Current(e)
    BY CurrentRows
  <2>. QED
    BY <2>1 DEF InsertEntity
<1>3. n \in Rows /\ blk \in 0 .. BlockNumberMax
  BY BlockNumberMaxAssumption DEF Inv, TypeOK, Rows, BlockNumbers, BlockUnversioned
<1>4. \A r \in rows : r.key = n.key /\ r # n => Separate(r, n)
  BY <1>2, RowFacts DEF Separate, Precedes
<1>5. Separated(rows')
  BY <1>1, <1>4, AddSeparate DEF Inv
<1>. QED
  BY <1>1, <1>3, <1>5, BoundsNat DEF Inv, TypeOK

(* The version an update or delete closes.                                *)
LEMMA ClampTarget ==
  ASSUME Inv, NEW e \in Entities, ~Immutable(e), Current(e) # {}
  PROVE  \E c \in rows : /\ Current(e) = {c}
                         /\ c.key = e /\ c.upper = Unbounded
                         /\ \A r \in rows \ {c} : r.key = e => r.upper # Unbounded
  BY CurrentRows, OneCurrent

(* Clamping the current version c at blk keeps the rows separate.         *)
LEMMA ClampSeparate ==
  ASSUME Inv, NEW c \in rows, c.upper = Unbounded,
         \A r \in rows \ {c} : r.key = c.key => r.upper # Unbounded
  PROVE  LET cl == [key |-> c.key, val |-> c.val, lower |-> c.lower, upper |-> blk]
         IN  /\ Separated((rows \ {c}) \cup {cl})
             /\ \A r \in (rows \ {c}) \cup {cl} : r.key = c.key => r.upper # Unbounded /\ r.upper <= blk
<1> DEFINE cl == [key |-> c.key, val |-> c.val, lower |-> c.lower, upper |-> blk]
<1>1. Separated(rows \ {c})
  BY SeparatedSubset DEF Inv
<1>2. \A r \in rows \ {c} : r.key = c.key /\ r # cl => Separate(r, cl)
  <2> SUFFICES ASSUME NEW r \in rows \ {c}, r.key = c.key PROVE Separate(r, cl)
    OBVIOUS
  <2>1. Separate(r, c)
    BY DEF Inv, Separated
  <2>2. IsEmpty(r) \/ Precedes(r, c)
    BY <2>1 DEF Separate, IsEmpty, Precedes
  <2>. QED
    BY <2>2, RowFacts DEF Separate, Precedes
<1>3. Separated((rows \ {c}) \cup {cl})
  BY <1>1, <1>2, AddSeparate
<1>4. \A r \in (rows \ {c}) \cup {cl} : r.key = c.key => r.upper # Unbounded /\ r.upper <= blk
  <2>1. cl.upper # Unbounded /\ cl.upper <= blk
    BY UnboundedAssumption DEF Inv, TypeOK
  <2>2. \A r \in rows \ {c} : r.key = c.key => r.upper # Unbounded /\ r.upper <= blk
    BY RowFacts
  <2>. QED
    BY <2>1, <2>2
<1>. QED
  BY <1>3, <1>4
(* UpdateEntity closes the current version at blk and opens the new one   *)
(* there: the closed one precedes the new one.                            *)
LEMMA UpdateInv ==
  ASSUME Inv, NEW e \in Entities, NEW v \in Values, UpdateEntity(e, v)
  PROVE  Inv'
<1>1. PICK c \in rows : /\ Current(e) = {c}
                        /\ c.key = e /\ c.upper = Unbounded
                        /\ \A r \in rows \ {c} : r.key = e => r.upper # Unbounded
  BY ClampTarget DEF UpdateEntity
<1> DEFINE cl == [key |-> c.key, val |-> c.val, lower |-> c.lower, upper |-> blk]
           n  == [key |-> e, val |-> v, lower |-> blk, upper |-> Unbounded]
           S  == (rows \ {c}) \cup {cl}
<1>2. c \in Rows /\ c.lower \in 0 .. blk /\ blk \in 0 .. BlockNumberMax
  BY RowFacts
<1>3. {Clamp(r, blk) : r \in Current(e)} = {cl}
  <2>1. Clamp(c, blk) = cl
    BY <1>2, ClampRow
  <2>. QED
    BY <1>1, <2>1
<1>4. rows' = S \cup {n} /\ blk' = blk
  BY <1>1, <1>3, NewVersionRow DEF UpdateEntity
<1>5. Separated(S) /\ \A r \in S : r.key = e => r.upper # Unbounded /\ r.upper <= blk
  BY <1>1, ClampSeparate
<1>6. Separated(rows')
  <2>1. \A r \in S : r.key = n.key /\ r # n => Separate(r, n)
    BY <1>5 DEF Separate, Precedes
  <2>. QED
    BY <1>4, <1>5, <2>1, AddSeparate
<1>7. cl \in Rows /\ n \in Rows
  BY <1>2, BlockNumberMaxAssumption DEF Rows, BlockNumbers, BlockUnversioned
<1>8. TypeOK'
  BY <1>2, <1>4, <1>7 DEF Inv, TypeOK
<1>9. \A r \in rows' : r.lower \in 0 .. blk' /\ (r.upper # Unbounded => r.upper <= blk')
  BY <1>2, <1>4 DEF Inv
<1>10. \A r \in rows' : Immutable(r.key) => r.upper = Unbounded
  BY <1>1, <1>4 DEF Inv, UpdateEntity
<1>. QED
  BY <1>6, <1>8, <1>9, <1>10 DEF Inv

(* DeleteEntity closes the current version at blk.                        *)
LEMMA DeleteInv ==
  ASSUME Inv, NEW e \in Entities, DeleteEntity(e)
  PROVE  Inv'
<1>1. PICK c \in rows : /\ Current(e) = {c}
                        /\ c.key = e /\ c.upper = Unbounded
                        /\ \A r \in rows \ {c} : r.key = e => r.upper # Unbounded
  BY ClampTarget DEF DeleteEntity
<1> DEFINE cl == [key |-> c.key, val |-> c.val, lower |-> c.lower, upper |-> blk]
<1>2. c \in Rows /\ c.lower \in 0 .. blk /\ blk \in 0 .. BlockNumberMax
  BY RowFacts
<1>3. {Clamp(r, blk) : r \in Current(e)} = {cl}
  <2>1. Clamp(c, blk) = cl
    BY <1>2, ClampRow
  <2>. QED
    BY <1>1, <2>1
<1>4. rows' = (rows \ {c}) \cup {cl} /\ blk' = blk
  BY <1>1, <1>3 DEF DeleteEntity
<1>5. Separated(rows')
  BY <1>1, <1>4, ClampSeparate
<1>6. cl \in Rows
  BY <1>2, BlockNumberMaxAssumption DEF Rows, BlockNumbers, BlockUnversioned
<1>7. TypeOK'
  BY <1>2, <1>4, <1>6 DEF Inv, TypeOK
<1>8. \A r \in rows' : r.lower \in 0 .. blk' /\ (r.upper # Unbounded => r.upper <= blk')
  BY <1>2, <1>4 DEF Inv
<1>9. \A r \in rows' : Immutable(r.key) => r.upper = Unbounded
  BY <1>1, <1>4 DEF Inv, DeleteEntity
<1>. QED
  BY <1>5, <1>7, <1>8, <1>9 DEF Inv

(* NextBlock only moves blk forward.                                       *)
LEMMA NextBlockInv ==
  ASSUME Inv, NextBlock
  PROVE  Inv'
<1>0. blk \in 0 .. BlockNumberMax
  BY DEF Inv, TypeOK
<1>1. rows' = rows /\ blk' = blk + 1 /\ blk + 1 \in 0 .. BlockNumberMax
  BY <1>0, BlockNumberMaxAssumption DEF NextBlock
<1>2. TypeOK'
  BY <1>1 DEF Inv, TypeOK
<1>3. \A r \in rows' : r.lower \in 0 .. blk' /\ (r.upper # Unbounded => r.upper <= blk')
  BY <1>1, RowFacts
<1>4. \A r \in rows' : Immutable(r.key) => r.upper = Unbounded
  BY <1>1 DEF Inv
<1>5. Separated(rows')
  BY <1>1 DEF Inv
<1>. QED
  BY <1>2, <1>3, <1>4, <1>5 DEF Inv
(* The rows a revert of blk keeps, and what it makes of each.              *)
(* Every step of the store, and a stutter, keeps Inv.                      *)
LEMMA NextInv ==
  ASSUME Inv, [Next]_vars
  PROVE  Inv'
<1>1. CASE \E e \in Entities, v \in Values : InsertEntity(e, v) \/ UpdateEntity(e, v)
  BY <1>1, InsertInv, UpdateInv
<1>2. CASE \E e \in Entities : DeleteEntity(e)
  BY <1>2, DeleteInv
<1>3. CASE NextBlock
  BY <1>3, NextBlockInv
<1>5. CASE UNCHANGED vars
  BY <1>5 DEF Inv, TypeOK, Separated, Separate, IsEmpty, Precedes, Immutable, vars
<1>. QED
  BY <1>1, <1>2, <1>3, <1>5 DEF Next

LEMMA InvForever == Spec => []Inv
  BY InitInv, NextInv, PTL DEF Spec

(***************************************************************************)
(* Every row the writer leaves has the shape of the tables and a range     *)
(* whose lower bound does not exceed its upper bound, and the block being  *)
(* written stays within 0 .. BLOCK_NUMBER_MAX.                            *)
(***************************************************************************)
THEOREM EntityTypeCorrect == Spec => []TypeOK
  BY InvForever, PTL DEF Inv

(* Two distinct separate versions contain no common block.               *)
LEMMA SeparatedDisjoint ==
  ASSUME Inv
  PROVE  VersionsDisjoint
<1> SUFFICES ASSUME NEW r1 \in rows, NEW r2 \in rows, r1.key = r2.key, r1 # r2,
                    NEW b \in BlockNumbers, RangeContains(r1, b), RangeContains(r2, b)
             PROVE  FALSE
  BY DEF VersionsDisjoint
<1>1. Separate(r1, r2)
  BY DEF Inv, Separated
<1>2. /\ r1.lower \in Int /\ (r1.upper # Unbounded => r1.upper \in Int)
      /\ r2.lower \in Int /\ (r2.upper # Unbounded => r2.upper \in Int)
  BY RowFacts
<1>. QED
  BY <1>1, <1>2, BoundsNat DEF Separate, IsEmpty, Precedes, RangeContains

(***************************************************************************)
(* The versions of one entity never overlap, whatever interleaving of     *)
(* inserts, updates, deletes and block advances the writer performs: the  *)
(* clamp of UpdateEntity and DeleteEntity keeps at most one version per   *)
(* block, also when two updates in one block clamp a version to [b, b).   *)
(***************************************************************************)
THEOREM VersionsNeverOverlap == Spec => []VersionsDisjoint
  BY InvForever, SeparatedDisjoint, PTL
(* The SQL predicates against the meaning of the range, row by row.        *)
LEMMA RowPredicatesExact ==
  ASSUME Inv, NEW r \in rows, NEW b \in 0 .. BlockNumberMax, NEW filtersById \in BOOLEAN
  PROVE  /\ ContainsSQL(Immutable(r.key), AccountLike, UseBrinForAll, r, b, filtersById)
              = RangeContains(r, b)
         /\ LatestSQL(Immutable(r.key), r) = (r.upper = Unbounded)
<1>1. /\ r.lower \in 0 .. blk /\ blk \in 0 .. BlockNumberMax
      /\ r.upper # Unbounded => r.upper \in Int /\ r.upper <= blk
  BY RowFacts
<1>2. CASE Immutable(r.key)
  <2>1. r.upper = Unbounded
    BY <1>2 DEF Inv
  <2>. QED
    BY <1>1, <1>2, <2>1, BoundsNat DEF ContainsSQL, LatestSQL, RangeContains
<1>3. CASE ~Immutable(r.key)
  <2>1. ContainsSQL(Immutable(r.key), AccountLike, UseBrinForAll, r, b, filtersById)
          = RangeContains(r, b)
    BY <1>1, <1>3, BoundsNat, UnboundedAssumption
       DEF ContainsSQL, UsesBrin, UpperOrMax, RangeContains
  <2>2. LatestSQL(Immutable(r.key), r) = (r.upper = Unbounded)
    BY <1>1, <1>3, BoundsNat DEF LatestSQL, RangeContains
  <2>. QED
    BY <2>1, <2>2
<1>. QED
  BY <1>2, <1>3

(***************************************************************************)
(* For every row the writer produces, the SQL of BlockRangeColumn::contains *)
(* (with its BRIN bounds and the immutable sentinel short-circuit) and of   *)
(* ::latest selects exactly the rows whose range contains the block, resp.  *)
(* is still open, at every block up to BLOCK_NUMBER_MAX.                    *)
(***************************************************************************)
THEOREM PredicatesAreExact == Spec => []PredicatesExact
<1>1. Inv => PredicatesExact
  BY RowPredicatesExact DEF PredicatesExact
<1>. QED
  BY <1>1, InvForever, PTL
-----------------------------------------------------------------------------
(***************************************************************************)
(* The entity version store implements EntityHistory, for every set of    *)
(* entities and values, both table flags and every BLOCK_NUMBER_MAX: the   *)
(* view a query at block b returns (BlockRangeColumn::contains, picking    *)
(* the row it selects) evolves as the history its readers are promised.    *)
(*                                                                         *)
(* The argument works on View(S, e, b), the value of the version of e in  *)
(* the row set S whose range contains b.  Inv makes the SQL exact          *)
(* (ReadAt is View), and its separation makes that version unique, so a   *)
(* step's effect on the history is read off the rows it adds and removes.  *)
(***************************************************************************)

(* The rows of e in S whose range contains b, and the value they show.     *)
Vis(S, e, b) == {r \in S : r.key = e /\ RangeContains(r, b)}
View(S, e, b) == IF Vis(S, e, b) = {} THEN Absent ELSE (CHOOSE r \in Vis(S, e, b) : TRUE).val

(* The history the rows S stand for.                                       *)
H(S) == [e \in Entities |-> [b \in 0 .. BlockNumberMax |-> View(S, e, b)]]

(* ReadAt over an arbitrary row set, and the refinement mapping.           *)
VisIn(S, e, b) ==
  {r \in S : r.key = e /\ ContainsSQL(Immutable(e), AccountLike, UseBrinForAll, r, b, FALSE)}
ReadIn(S, e, b) == IF VisIn(S, e, b) = {} THEN Absent ELSE (CHOOSE r \in VisIn(S, e, b) : TRUE).val
Map == [e \in Entities |-> [b \in 0 .. BlockNumberMax |-> ReadAt(e, b)]]

(* A row as Inv leaves it, independently of blk.                           *)
RowOK(r) ==
  /\ r \in Rows
  /\ r.lower \in 0 .. BlockNumberMax
  /\ r.upper # Unbounded => r.upper \in 0 .. BlockNumberMax
  /\ Immutable(r.key) => r.upper = Unbounded
RowsOK(S) == \A r \in S : RowOK(r)

LEMMA InvRowsOK ==
  ASSUME Inv
  PROVE  RowsOK(rows) /\ Separated(rows)
<1>1. ASSUME NEW r \in rows PROVE RowOK(r)
  <2>1. /\ r \in Rows /\ r.lower \in 0 .. blk /\ blk \in 0 .. BlockNumberMax
        /\ (r.upper # Unbounded => r.upper \in Int /\ r.lower <= r.upper /\ r.upper <= blk)
    BY RowFacts
  <2>2. Immutable(r.key) => r.upper = Unbounded
    BY DEF Inv
  <2>. QED
    BY <2>1, <2>2, BoundsNat DEF RowOK
<1>. QED
  BY <1>1 DEF RowsOK, Inv

(* The same facts of the rows after a step.                               *)
LEMMA InvRowsOKPrimed ==
  ASSUME Inv'
  PROVE  RowsOK(rows') /\ Separated(rows')
<1>1. ASSUME NEW r \in rows' PROVE RowOK(r)
  <2>1. /\ r \in Rows /\ r.lower \in 0 .. blk' /\ blk' \in 0 .. BlockNumberMax
        /\ (r.upper # Unbounded => r.lower <= r.upper /\ r.upper <= blk')
    BY DEF Inv, TypeOK
  <2>2. Immutable(r.key) => r.upper = Unbounded
    BY DEF Inv
  <2>3. r.upper # Unbounded => r.upper \in Int
    BY <2>1, BoundsNat DEF Rows
  <2>. QED
    BY <2>1, <2>2, <2>3, BoundsNat DEF RowOK
<1>. QED
  BY <1>1 DEF RowsOK, Inv

(* The row of e that contains b is the one the view shows.                *)
LEMMA ViewIs ==
  ASSUME NEW S, RowsOK(S), Separated(S), NEW e, NEW b \in Int,
         NEW r \in S, r.key = e, RangeContains(r, b)
  PROVE  View(S, e, b) = r.val
<1>1. Vis(S, e, b) = {r}
  <2> SUFFICES ASSUME NEW r2 \in S, r2.key = e, RangeContains(r2, b), r2 # r
               PROVE  FALSE
    BY DEF Vis
  <2>1. Separate(r, r2)
    BY DEF Separated
  <2>2. /\ r.lower \in Int /\ (r.upper # Unbounded => r.upper \in Int)
        /\ r2.lower \in Int /\ (r2.upper # Unbounded => r2.upper \in Int)
    BY BoundsNat DEF RowsOK, RowOK, Rows
  <2>. QED
    BY <2>1, <2>2 DEF Separate, IsEmpty, Precedes, RangeContains
<1>. QED
  BY <1>1 DEF View

(* Two row sets whose versions of e containing b, resp. b2, show the same *)
(* values show the same view.                                              *)
LEMMA ViewMatch ==
  ASSUME NEW S, RowsOK(S), Separated(S), NEW T, RowsOK(T), Separated(T),
         NEW e, NEW b \in Int, NEW b2 \in Int,
         \A r \in Vis(T, e, b2) : \E s \in Vis(S, e, b) : s.val = r.val,
         \A s \in Vis(S, e, b) : \E r \in Vis(T, e, b2) : r.val = s.val
  PROVE  View(T, e, b2) = View(S, e, b)
<1>1. CASE Vis(S, e, b) = {}
  <2>1. Vis(T, e, b2) = {}
    BY <1>1
  <2>. QED
    BY <1>1, <2>1 DEF View
<1>2. CASE Vis(S, e, b) # {}
  <2>1. PICK s \in Vis(S, e, b) : TRUE
    BY <1>2
  <2>2. PICK r \in Vis(T, e, b2) : r.val = s.val
    BY <2>1
  <2>3. View(S, e, b) = s.val
    BY <2>1, ViewIs DEF Vis
  <2>4. View(T, e, b2) = r.val
    BY <2>2, ViewIs DEF Vis
  <2>. QED
    BY <2>2, <2>3, <2>4
<1>. QED
  BY <1>1, <1>2

(* On rows as Inv leaves them, the SQL a query runs selects the view.      *)
LEMMA ReadInView ==
  ASSUME NEW S, RowsOK(S), NEW e \in Entities, NEW b \in 0 .. BlockNumberMax
  PROVE  ReadIn(S, e, b) = View(S, e, b)
<1>1. \A r \in S : r.key = e =>
        (ContainsSQL(Immutable(e), AccountLike, UseBrinForAll, r, b, FALSE) = RangeContains(r, b))
  <2> SUFFICES ASSUME NEW r \in S, r.key = e
               PROVE  ContainsSQL(Immutable(e), AccountLike, UseBrinForAll, r, b, FALSE)
                        = RangeContains(r, b)
    OBVIOUS
  <2>1. RowOK(r)
    BY DEF RowsOK
  <2>2. CASE Immutable(e)
    BY <2>1, <2>2, BoundsNat DEF RowOK, ContainsSQL, RangeContains, Rows
  <2>3. CASE ~Immutable(e)
    BY <2>1, <2>3, BoundsNat, UnboundedAssumption
       DEF RowOK, ContainsSQL, UsesBrin, UpperOrMax, RangeContains, Rows
  <2>. QED
    BY <2>2, <2>3
<1>2. VisIn(S, e, b) = Vis(S, e, b)
  BY <1>1 DEF VisIn, Vis
<1>. QED
  BY <1>2 DEF ReadIn, View

LEMMA MapIsH ==
  ASSUME Inv
  PROVE  Map = H(rows)
<1>1. \A e \in Entities, b \in 0 .. BlockNumberMax : ReadAt(e, b) = ReadIn(rows, e, b)
  BY DEF ReadAt, VisibleAt, ReadIn, VisIn
<1>. QED
  BY <1>1, InvRowsOK, ReadInView DEF Map, H

LEMMA MapIsHPrimed ==
  ASSUME Inv'
  PROVE  Map' = H(rows')
<1>1. \A e \in Entities, b \in 0 .. BlockNumberMax : ReadAt(e, b)' = ReadIn(rows', e, b)
  BY DEF ReadAt, VisibleAt, ReadIn, VisIn
<1>. QED
  BY <1>1, InvRowsOKPrimed, ReadInView DEF Map, H
(* Facts on the version an update or delete closes, and the rows it       *)
(* leaves with c's key.                                                    *)
LEMMA CurrentFacts ==
  ASSUME Inv, NEW e \in Entities, NEW c \in rows, c.key = e, c.upper = Unbounded,
         \A r \in rows \ {c} : r.key = e => r.upper # Unbounded
  PROVE  /\ c \in Rows /\ c.lower \in 0 .. blk /\ blk \in 0 .. BlockNumberMax
         /\ \A r \in rows \ {c} : r.key = e => r.upper \in Int /\ r.upper <= blk
  BY RowFacts

(***************************************************************************)
(* InsertEntity writes v at blk and every later block: the new version    *)
(* contains exactly the blocks from blk on, and no earlier version of e    *)
(* reaches blk.  An immutable entity had no version at all.                *)
(***************************************************************************)
LEMMA InsertView ==
  ASSUME Inv, NEW e \in Entities, NEW v \in Values, InsertEntity(e, v)
  PROVE  /\ \A e2 \in Entities, b \in 0 .. BlockNumberMax :
              View(rows', e2, b) = IF e2 = e /\ b >= blk THEN v ELSE View(rows, e2, b)
         /\ Immutable(e) => View(rows, e, blk) = Absent
<1> DEFINE n == [key |-> e, val |-> v, lower |-> blk, upper |-> Unbounded]
<1>1. rows' = rows \cup {n} /\ blk \in 0 .. BlockNumberMax
  BY NewVersionRow DEF InsertEntity, Inv, TypeOK
<1>2. \A r \in rows : r.key = e => r.upper # Unbounded
  <2> SUFFICES ASSUME NEW r \in rows, r.key = e, r.upper = Unbounded PROVE FALSE
    OBVIOUS
  <2>1. r \in Current(e)
    BY CurrentRows
  <2>. QED
    BY <2>1 DEF InsertEntity
<1>3. RowsOK(rows') /\ Separated(rows')
  BY InsertInv, InvRowsOKPrimed
<1>4. ASSUME NEW e2 \in Entities, NEW b \in 0 .. BlockNumberMax
      PROVE  View(rows', e2, b) = IF e2 = e /\ b >= blk THEN v ELSE View(rows, e2, b)
  <2>1. CASE e2 = e /\ b >= blk
    <3>1. n \in rows' /\ RangeContains(n, b)
      BY <1>1, <2>1 DEF RangeContains
    <3>. QED
      BY <1>3, <2>1, <3>1, ViewIs
  <2>2. CASE ~(e2 = e /\ b >= blk)
    <3>1. Vis(rows', e2, b) = Vis(rows, e2, b)
      BY <1>1, <2>2 DEF Vis, RangeContains
    <3>. QED
      BY <2>2, <3>1 DEF View
  <2>. QED
    BY <2>1, <2>2
<1>5. Immutable(e) => Vis(rows, e, blk) = {}
  BY <1>2 DEF Inv, Vis
<1>. QED
  BY <1>4, <1>5 DEF View

(***************************************************************************)
(* UpdateEntity writes v at blk and every later block: the clamped version *)
(* keeps the blocks before blk with the same value, the new one takes the  *)
(* rest.                                                                   *)
(***************************************************************************)
LEMMA UpdateView ==
  ASSUME Inv, NEW e \in Entities, NEW v \in Values, UpdateEntity(e, v)
  PROVE  \A e2 \in Entities, b \in 0 .. BlockNumberMax :
           View(rows', e2, b) = IF e2 = e /\ b >= blk THEN v ELSE View(rows, e2, b)
<1>1. PICK c \in rows : /\ Current(e) = {c}
                        /\ c.key = e /\ c.upper = Unbounded
                        /\ \A r \in rows \ {c} : r.key = e => r.upper # Unbounded
  BY ClampTarget DEF UpdateEntity
<1> DEFINE cl == [key |-> c.key, val |-> c.val, lower |-> c.lower, upper |-> blk]
           n  == [key |-> e, val |-> v, lower |-> blk, upper |-> Unbounded]
<1>2. /\ c \in Rows /\ c.lower \in 0 .. blk /\ blk \in 0 .. BlockNumberMax
      /\ \A r \in rows \ {c} : r.key = e => r.upper \in Int /\ r.upper <= blk
  BY <1>1, CurrentFacts
<1>3. rows' = ((rows \ {c}) \cup {cl}) \cup {n}
  <2>1. Clamp(c, blk) = cl
    BY <1>2, ClampRow
  <2>. QED
    BY <1>1, <2>1, NewVersionRow DEF UpdateEntity
<1>4. RowsOK(rows') /\ Separated(rows') /\ RowsOK(rows) /\ Separated(rows)
  BY UpdateInv, InvRowsOKPrimed, InvRowsOK
<1>5. ASSUME NEW e2 \in Entities, NEW b \in 0 .. BlockNumberMax
      PROVE  View(rows', e2, b) = IF e2 = e /\ b >= blk THEN v ELSE View(rows, e2, b)
  <2>1. CASE e2 = e /\ b >= blk
    <3>1. n \in rows' /\ RangeContains(n, b)
      BY <1>2, <1>3, <2>1 DEF RangeContains
    <3>. QED
      BY <1>4, <2>1, <3>1, ViewIs
  <2>2. CASE e2 # e
    <3>1. Vis(rows', e2, b) = Vis(rows, e2, b)
      BY <1>1, <1>3, <2>2 DEF Vis
    <3>. QED
      BY <2>2, <3>1 DEF View
  <2>3. CASE e2 = e /\ b < blk
    <3>1. \A r \in Vis(rows', e, b) : \E s \in Vis(rows, e, b) : s.val = r.val
      <4> SUFFICES ASSUME NEW r \in Vis(rows', e, b)
                   PROVE  \E s \in Vis(rows, e, b) : s.val = r.val
        OBVIOUS
      <4>1. CASE r = cl
        <5>1. c \in Vis(rows, e, b)
          BY <1>1, <1>2, <4>1 DEF Vis, RangeContains
        <5>. QED
          BY <4>1, <5>1
      <4>2. CASE r = n
        BY <1>2, <2>3, <4>2 DEF Vis, RangeContains
      <4>3. CASE r \in rows \ {c}
        BY <4>3 DEF Vis
      <4>. QED
        BY <1>3, <4>1, <4>2, <4>3 DEF Vis
    <3>2. \A s \in Vis(rows, e, b) : \E r \in Vis(rows', e, b) : r.val = s.val
      <4> SUFFICES ASSUME NEW s \in Vis(rows, e, b)
                   PROVE  \E r \in Vis(rows', e, b) : r.val = s.val
        OBVIOUS
      <4>1. CASE s = c
        <5>1. cl \in Vis(rows', e, b)
          BY <1>1, <1>2, <1>3, <2>3, <4>1 DEF Vis, RangeContains
        <5>. QED
          BY <4>1, <5>1
      <4>2. CASE s # c
        BY <1>3, <4>2 DEF Vis
      <4>. QED
        BY <4>1, <4>2
    <3>. QED
      BY <1>2, <1>4, <2>3, <3>1, <3>2, ViewMatch
  <2>. QED
    BY <1>2, <2>1, <2>2, <2>3
<1>. QED
  BY <1>5
(***************************************************************************)
(* DeleteEntity writes Absent at blk and every later block: the clamped    *)
(* version keeps the blocks before blk, and no version of e reaches blk.   *)
(***************************************************************************)
LEMMA DeleteView ==
  ASSUME Inv, NEW e \in Entities, DeleteEntity(e)
  PROVE  \A e2 \in Entities, b \in 0 .. BlockNumberMax :
           View(rows', e2, b) = IF e2 = e /\ b >= blk THEN Absent ELSE View(rows, e2, b)
<1>1. PICK c \in rows : /\ Current(e) = {c}
                        /\ c.key = e /\ c.upper = Unbounded
                        /\ \A r \in rows \ {c} : r.key = e => r.upper # Unbounded
  BY ClampTarget DEF DeleteEntity
<1> DEFINE cl == [key |-> c.key, val |-> c.val, lower |-> c.lower, upper |-> blk]
<1>2. /\ c \in Rows /\ c.lower \in 0 .. blk /\ blk \in 0 .. BlockNumberMax
      /\ \A r \in rows \ {c} : r.key = e => r.upper \in Int /\ r.upper <= blk
  BY <1>1, CurrentFacts
<1>3. rows' = (rows \ {c}) \cup {cl}
  <2>1. Clamp(c, blk) = cl
    BY <1>2, ClampRow
  <2>. QED
    BY <1>1, <2>1 DEF DeleteEntity
<1>4. RowsOK(rows') /\ Separated(rows') /\ RowsOK(rows) /\ Separated(rows)
  BY DeleteInv, InvRowsOKPrimed, InvRowsOK
<1>5. ASSUME NEW e2 \in Entities, NEW b \in 0 .. BlockNumberMax
      PROVE  View(rows', e2, b) = IF e2 = e /\ b >= blk THEN Absent ELSE View(rows, e2, b)
  <2>1. CASE e2 = e /\ b >= blk
    <3>0. \A r \in rows' : r.key = e => r.upper \in Int /\ r.upper <= b
      <4>1. cl.upper \in Int /\ cl.upper <= b
        BY <1>2, <2>1
      <4>. QED
        BY <1>2, <1>3, <2>1, <4>1
    <3>1. Vis(rows', e, b) = {}
      BY <3>0, UnboundedAssumption DEF Vis, RangeContains
    <3>. QED
      BY <2>1, <3>1 DEF View
  <2>2. CASE e2 # e
    <3>1. Vis(rows', e2, b) = Vis(rows, e2, b)
      BY <1>1, <1>3, <2>2 DEF Vis
    <3>. QED
      BY <2>2, <3>1 DEF View
  <2>3. CASE e2 = e /\ b < blk
    <3>1. \A r \in Vis(rows', e, b) : \E s \in Vis(rows, e, b) : s.val = r.val
      <4> SUFFICES ASSUME NEW r \in Vis(rows', e, b)
                   PROVE  \E s \in Vis(rows, e, b) : s.val = r.val
        OBVIOUS
      <4>1. CASE r = cl
        <5>1. c \in Vis(rows, e, b)
          BY <1>1, <1>2, <4>1 DEF Vis, RangeContains
        <5>. QED
          BY <4>1, <5>1
      <4>2. CASE r \in rows \ {c}
        BY <4>2 DEF Vis
      <4>. QED
        BY <1>3, <4>1, <4>2 DEF Vis
    <3>2. \A s \in Vis(rows, e, b) : \E r \in Vis(rows', e, b) : r.val = s.val
      <4> SUFFICES ASSUME NEW s \in Vis(rows, e, b)
                   PROVE  \E r \in Vis(rows', e, b) : r.val = s.val
        OBVIOUS
      <4>1. CASE s = c
        <5>1. cl \in Vis(rows', e, b)
          BY <1>1, <1>2, <1>3, <2>3, <4>1 DEF Vis, RangeContains
        <5>. QED
          BY <4>1, <5>1
      <4>2. CASE s # c
        BY <1>3, <4>2 DEF Vis
      <4>. QED
        BY <4>1, <4>2
    <3>. QED
      BY <1>2, <1>4, <2>3, <3>1, <3>2, ViewMatch
  <2>. QED
    BY <1>2, <2>1, <2>2, <2>3
<1>. QED
  BY <1>5

(* The history's actions, read through the refinement mapping.           *)
HWrite(e, x) ==
  /\ e \in ImmutableEntities => Map[e][blk] = Absent /\ x # Absent
  /\ Map' = [Map EXCEPT ![e] = [b \in 0 .. BlockNumberMax |-> IF b >= blk THEN x ELSE @[b]]]
  /\ blk' = blk
HAdvance == blk < BlockNumberMax /\ blk' = blk + 1 /\ Map' = Map
HInit == Map = [e \in Entities |-> [b \in 0 .. BlockNumberMax |-> Absent]] /\ blk = 0

LEMMA HActions ==
  /\ \A e, x : History!Write(e, x) <=> HWrite(e, x)
  /\ History!Advance <=> HAdvance
  /\ History!HistoryInit <=> HInit
  BY DEF History!HistoryInit, HInit, History!Write, History!Advance, HWrite, HAdvance, Map

(* A step whose views change as a write of x to e at blk is a Write.       *)
LEMMA WriteStep ==
  ASSUME Inv, Inv', blk' = blk, NEW e \in Entities, NEW x \in Values \cup {Absent},
         \A e2 \in Entities, b \in 0 .. BlockNumberMax :
           View(rows', e2, b) = IF e2 = e /\ b >= blk THEN x ELSE View(rows, e2, b),
         Immutable(e) => View(rows, e, blk) = Absent /\ x # Absent
  PROVE  History!Write(e, x)
<1>1. Map = H(rows) /\ Map' = H(rows') /\ blk \in 0 .. BlockNumberMax
  BY MapIsH, MapIsHPrimed DEF Inv, TypeOK
<1>2. H(rows') = [H(rows) EXCEPT ![e] = [b \in 0 .. BlockNumberMax |-> IF b >= blk THEN x ELSE @[b]]]
  BY DEF H
<1>3. HWrite(e, x)
  BY <1>1, <1>2 DEF HWrite, H, Immutable
<1>. QED
  BY <1>3, HActions

(* The refinement mapping takes every step of the store to a step of the  *)
(* history, or to a stutter.                                               *)
LEMMA StepRefines ==
  ASSUME Inv, [Next]_vars
  PROVE  [History!HistoryNext]_<<Map, blk>>
<1>1. Inv'
  BY NextInv
<1>2. Map = H(rows) /\ Map' = H(rows') /\ blk \in 0 .. BlockNumberMax
  BY <1>1, MapIsH, MapIsHPrimed DEF Inv, TypeOK
<1>3. ASSUME NEW e \in Entities, NEW v \in Values, InsertEntity(e, v)
      PROVE  History!HistoryNext
  <2>1. History!Write(e, v)
    BY <1>1, <1>3, InsertView, WriteStep, AbsentAssumption DEF InsertEntity
  <2>. QED
    BY <2>1 DEF History!HistoryNext, History!Views
<1>4. ASSUME NEW e \in Entities, NEW v \in Values, UpdateEntity(e, v)
      PROVE  History!HistoryNext
  <2>1. History!Write(e, v)
    BY <1>1, <1>4, UpdateView, WriteStep DEF UpdateEntity
  <2>. QED
    BY <2>1 DEF History!HistoryNext, History!Views
<1>5. ASSUME NEW e \in Entities, DeleteEntity(e)
      PROVE  History!HistoryNext
  <2>1. History!Write(e, Absent)
    BY <1>1, <1>5, DeleteView, WriteStep DEF DeleteEntity
  <2>. QED
    BY <2>1 DEF History!HistoryNext, History!Views
<1>6. ASSUME NextBlock PROVE History!HistoryNext
  <2>1. rows' = rows
    BY <1>6 DEF NextBlock
  <2>2. History!Advance
    <3>1. HAdvance
      BY <1>2, <1>6, <2>1 DEF NextBlock, HAdvance
    <3>. QED
      BY <3>1, HActions
  <2>. QED
    BY <2>2 DEF History!HistoryNext
<1>8. ASSUME UNCHANGED vars PROVE UNCHANGED <<Map, blk>>
  BY <1>2, <1>8 DEF vars
<1>. QED
  BY <1>3, <1>4, <1>5, <1>6, <1>8 DEF Next

(* The store starts as the empty history.                                  *)
LEMMA InitRefines ==
  ASSUME Init
  PROVE  History!HistoryInit
<1>1. Map = H(rows)
  BY InitInv, MapIsH
<1>2. \A e \in Entities, b \in 0 .. BlockNumberMax : View(rows, e, b) = Absent
  BY DEF Init, View, Vis
<1>3. HInit
  BY <1>1, <1>2 DEF Init, H, HInit
<1>. QED
  BY <1>3, HActions

(***************************************************************************)
(* The store implements the history its readers are promised, for every   *)
(* set of entities and values, both table flags and every                  *)
(* BLOCK_NUMBER_MAX: what BlockRangeColumn::contains returns at each block *)
(* changes only as a write at blk and later blocks (UpdateEntity,          *)
(* InsertEntity, DeleteEntity) or not at all (NextBlock), and an         *)
(* immutable entity is written only once.                                  *)
(***************************************************************************)
THEOREM StoreImplementsHistory == Spec => ImplementsHistory
<1>1. Spec => []Inv
  BY InvForever
<1>2. Inv /\ [Next]_vars => [History!HistoryNext]_<<Map, blk>>
  BY StepRefines
<1>. QED
  BY <1>1, <1>2, InitRefines, PTL DEF Spec, ImplementsHistory, History!HistorySpec, Map
=============================================================================
