------------------------------- MODULE Trigger -------------------------------
(***************************************************************************)
(* Trigger<C> (graph/src/blockchain/mod.rs): a trigger of a block is either *)
(* a chain trigger or a trigger from a source subgraph.  Its PartialEq and  *)
(* Ord implementations decide how the triggers of one block are sorted and *)
(* deduplicated: chain triggers come first, each kind ordered by its data.  *)
(*                                                                         *)
(* The data of either kind (C::TriggerData and subgraph::TriggerData, both *)
(* Ord) is abstracted to a number; every finite total order is one of      *)
(* 0 .. DataMax under <.                                                    *)
(*                                                                         *)
(* The state of the run is a triple of triggers, chosen afresh at every    *)
(* step, so that the invariants range over all triples.                    *)
(***************************************************************************)
EXTENDS Naturals, TLAPS

CONSTANT DataMax  \* the largest datum of a trigger

ASSUME DataMaxAssumption == DataMax \in Nat

Data == 0 .. DataMax

Kinds == {"Chain", "Subgraph"}

Triggers == [kind : Kinds, data : Data]

(* std::cmp::Ordering *)
Orderings == {"Less", "Equal", "Greater"}

(* Ord for the data of one kind. *)
DataCmp(x, y) ==
  IF x < y THEN "Less" ELSE IF x = y THEN "Equal" ELSE "Greater"

(* Ordering::reverse *)
Reverse(o) == CASE o = "Less" -> "Greater" [] o = "Greater" -> "Less" [] OTHER -> "Equal"

(* A fault the properties must catch: the mixed arms both say Greater.      *)
TriggerCmpMixedGreater(t1, t2) ==
  CASE t1.kind = "Chain" /\ t2.kind = "Chain" -> DataCmp(t1.data, t2.data)
    [] t1.kind = "Subgraph" /\ t2.kind = "Chain" -> "Greater"
    [] t1.kind = "Chain" /\ t2.kind = "Subgraph" -> "Greater"
    [] OTHER -> DataCmp(t1.data, t2.data)

(* Ord::cmp for Trigger<C>. *)
TriggerCmp(t1, t2) ==
  CASE t1.kind = "Chain" /\ t2.kind = "Chain" -> DataCmp(t1.data, t2.data)
    [] t1.kind = "Subgraph" /\ t2.kind = "Chain" -> "Greater"
    [] t1.kind = "Chain" /\ t2.kind = "Subgraph" -> "Less"
    [] OTHER -> DataCmp(t1.data, t2.data)

(* A fault the properties must catch: eq compares the data only.          *)
TriggerEqDataOnly(t1, t2) == t1.data = t2.data

(* PartialEq::eq for Trigger<C>: equal variants with equal data.          *)
TriggerEq(t1, t2) ==
  \/ t1.kind = "Chain" /\ t2.kind = "Chain" /\ t1.data = t2.data
  \/ t1.kind = "Subgraph" /\ t2.kind = "Subgraph" /\ t1.data = t2.data

VARIABLES a, b, c

vars == <<a, b, c>>

TypeOK == a \in Triggers /\ b \in Triggers /\ c \in Triggers

Init == a \in Triggers /\ b \in Triggers /\ c \in Triggers

(* The next triple to compare. *)
Compare == a' \in Triggers /\ b' \in Triggers /\ c' \in Triggers

Spec == Init /\ [][Compare]_vars

-----------------------------------------------------------------------------
(***************************************************************************)
(* Ord::cmp of Trigger<C> is a total order, as sort() and the BTreeSet of  *)
(* triggers of a block require: swapping the arguments reverses the        *)
(* answer, and Less is transitive.                                         *)
(***************************************************************************)
CmpTotalOrder ==
  /\ TriggerCmp(b, a) = Reverse(TriggerCmp(a, b))
  /\ TriggerCmp(a, b) = "Less" /\ TriggerCmp(b, c) = "Less" => TriggerCmp(a, c) = "Less"

(***************************************************************************)
(* cmp agrees with eq, as Eq and Ord demand: two triggers compare Equal    *)
(* exactly when they are equal, so dedup after sort drops only duplicates. *)
(***************************************************************************)
CmpAgreesWithEq == (TriggerCmp(a, b) = "Equal") = TriggerEq(a, b)

-----------------------------------------------------------------------------
(* The ordering of the data: a total order on numbers.                   *)
LEMMA DataCmpOrder ==
  ASSUME NEW x \in Nat, NEW y \in Nat, NEW z \in Nat
  PROVE  /\ DataCmp(y, x) = Reverse(DataCmp(x, y))
         /\ DataCmp(x, y) = "Less" /\ DataCmp(y, z) = "Less" => DataCmp(x, z) = "Less"
         /\ (DataCmp(x, y) = "Equal") = (x = y)
  BY DEF DataCmp, Reverse

(***************************************************************************)
(* For every DataMax, Ord::cmp of Trigger<C> is a total order consistent   *)
(* with PartialEq::eq on every triple of triggers.                          *)
(***************************************************************************)
THEOREM TriggerOrderTotal ==
  ASSUME NEW t1 \in Triggers, NEW t2 \in Triggers, NEW t3 \in Triggers
  PROVE  /\ TriggerCmp(t2, t1) = Reverse(TriggerCmp(t1, t2))
         /\ TriggerCmp(t1, t2) = "Less" /\ TriggerCmp(t2, t3) = "Less" => TriggerCmp(t1, t3) = "Less"
         /\ (TriggerCmp(t1, t2) = "Equal") = TriggerEq(t1, t2)
<1>1. /\ t1.kind \in Kinds /\ t2.kind \in Kinds /\ t3.kind \in Kinds
      /\ t1.data \in Nat /\ t2.data \in Nat /\ t3.data \in Nat
  BY DataMaxAssumption DEF Triggers, Data
<1>2. t1 = [kind |-> t1.kind, data |-> t1.data] /\ t2 = [kind |-> t2.kind, data |-> t2.data]
  BY DEF Triggers
<1>3. /\ DataCmp(t2.data, t1.data) = Reverse(DataCmp(t1.data, t2.data))
      /\ DataCmp(t1.data, t2.data) = "Less" /\ DataCmp(t2.data, t3.data) = "Less"
           => DataCmp(t1.data, t3.data) = "Less"
      /\ (DataCmp(t1.data, t2.data) = "Equal") = (t1.data = t2.data)
  BY <1>1, DataCmpOrder
<1>. QED
  BY <1>1, <1>2, <1>3 DEF TriggerCmp, TriggerEq, Reverse, Kinds

(***************************************************************************)
(* The run's invariants hold in every state: every triple of triggers the  *)
(* run can hold satisfies CmpTotalOrder and CmpAgreesWithEq.               *)
(***************************************************************************)
THEOREM TriggerInvariants == Spec => [](CmpTotalOrder /\ CmpAgreesWithEq)
<1>1. TypeOK => CmpTotalOrder /\ CmpAgreesWithEq
  BY TriggerOrderTotal DEF TypeOK, CmpTotalOrder, CmpAgreesWithEq
<1>2. Init => TypeOK
  BY DEF Init, TypeOK
<1>3. TypeOK /\ [Compare]_vars => TypeOK'
  BY DEF TypeOK, Compare, vars
<1>. QED
  BY <1>1, <1>2, <1>3, PTL DEF Spec
(* The runs' CmpAgreesWithEq on its own: in every state, the ordering of   *)
(* two triggers is Equal exactly when their PartialEq says they are equal, *)
(* so sort and dedup in the trigger filters never disagree.               *)
THEOREM CmpAgreesWithEqAlways == Spec => []CmpAgreesWithEq
  BY TriggerInvariants, PTL
=============================================================================
