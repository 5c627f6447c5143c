------------------------- MODULE BlockchainMap_proofs -------------------------
(***************************************************************************)
(* Proofs about the chain registry: lookups see the latest chain, for      *)
(* every set of chain types, networks and insert bound.                    *)
(***************************************************************************)
EXTENDS BlockchainMap, TLAPS

(* The key a chain is stored under.                                       *)
EntryKey(e) == Key(e.type, e.net)

(***************************************************************************)
(* How the map and the insert history relate: every insert call has its   *)
(* own id; every chain in the map was inserted under its own key; every   *)
(* inserted chain's key is in the map, holding that chain or a later one. *)
(***************************************************************************)
MapInv ==
  /\ TypeOK
  /\ \A e \in log : e.id \in 1 .. inserts
  /\ \A e, f \in log : e.id = f.id => e = f
  /\ \A key \in DOMAIN map : map[key] \in log /\ EntryKey(map[key]) = key
  /\ \A e \in log : EntryKey(e) \in DOMAIN map /\ e.id <= map[EntryKey(e)].id

IInv == MapInv /\ LookupsSeeLatestChain

(* A chain stored under the key of (C, n) is a C on n: the kinds of the    *)
(* chain types are distinct.                                               *)
LEMMA MapEntryIsKey ==
  ASSUME MapInv, NEW C \in ChainTypes, NEW n \in Networks, Key(C, n) \in DOMAIN map
  PROVE  /\ map[Key(C, n)] \in log
         /\ map[Key(C, n)].type = C
         /\ map[Key(C, n)].net = n
<1> DEFINE f == map[Key(C, n)]
<1>1. f \in log /\ EntryKey(f) = Key(C, n)
  BY DEF MapInv
<1>2. f \in Entries
  BY <1>1 DEF MapInv, TypeOK
<1>3. KIND[f.type] = KIND[C] /\ f.net = n
  BY <1>1 DEF EntryKey, Key
<1>4. f.type = C
  BY <1>2, <1>3, KindInjective DEF Entries
<1>. QED
  BY <1>1, <1>3, <1>4

(***************************************************************************)
(* get::<C>(n) returns the chain of the last insert of a C on n, or no     *)
(* network when there was none.                                            *)
(***************************************************************************)
LEMMA GetCorrect ==
  ASSUME MapInv, NEW C \in ChainTypes, NEW n \in Networks
  PROVE  GetResult(C, n) =
           IF \E e \in log : e.type = C /\ e.net = n
           THEN Ok({LatestIn(log, C, n)})
           ELSE Err("NoNetwork")
<1>1. CASE \E e \in log : e.type = C /\ e.net = n
  <2>1. PICK e \in log : e.type = C /\ e.net = n
    BY <1>1
  <2>2. Key(C, n) \in DOMAIN map
    BY <2>1 DEF MapInv, EntryKey
  <2> DEFINE f == map[Key(C, n)]
  <2>3. f \in log /\ f.type = C /\ f.net = n
    BY <2>2, MapEntryIsKey
  <2>4. \A g \in log : g.type = C /\ g.net = n => g.id <= f.id
    BY DEF MapInv, EntryKey
  <2>5. \A g \in log : g.type = C /\ g.net = n /\ (\A h \in log : h.type = C /\ h.net = n => h.id <= g.id)
          => g = f
    <3> SUFFICES ASSUME NEW g \in log, g.type = C, g.net = n,
                        \A h \in log : h.type = C /\ h.net = n => h.id <= g.id
                 PROVE  g = f
      OBVIOUS
    <3>1. g.id \in Nat /\ f.id \in Nat
      BY <2>3 DEF MapInv, TypeOK, Entries
    <3>2. g.id = f.id
      BY <2>3, <2>4, <3>1
    <3>. QED
      BY <2>3, <3>2 DEF MapInv
  <2>6. LatestIn(log, C, n) = f
    BY <2>3, <2>4, <2>5 DEF LatestIn
  <2>7. GetResult(C, n) = Ok({f})
    BY <2>2, <2>3 DEF GetResult
  <2>. QED
    BY <1>1, <2>6, <2>7
<1>2. CASE ~\E e \in log : e.type = C /\ e.net = n
  <2>1. Key(C, n) \notin DOMAIN map
    BY <1>2, MapEntryIsKey
  <2>. QED
    BY <1>2, <2>1 DEF GetResult
<1>. QED
  BY <1>1, <1>2

(* The results of the lookups are results.                                 *)
LEMMA ResultsTyped ==
  ASSUME TypeOK, NEW C, NEW n, NEW k
  PROVE  GetResult(C, n) \in Results /\ GetAllResult(C, k) \in Results
<1>1. \A key \in DOMAIN map : map[key] \in Entries
  BY DEF TypeOK
<1>2. Err("NoNetwork") \in Results /\ Err("DowncastError") \in Results
  BY DEF Err, Results, Errors
<1>3. Key(C, n) \in DOMAIN map => Ok({map[Key(C, n)]}) \in Results
  BY <1>1 DEF Ok, Results
<1>4. {map[key] : key \in OfKind(k)} \subseteq Entries
  BY <1>1 DEF OfKind
<1>5. Ok({map[key] : key \in OfKind(k)}) \in Results
  BY <1>4 DEF Ok, Results
<1>. QED
  BY <1>2, <1>3, <1>5 DEF GetResult, GetAllResult

LEMMA InitInv == Init => IInv
<1> SUFFICES ASSUME Init PROVE IInv
  OBVIOUS
<1>1. DOMAIN map = {} /\ log = {} /\ inserts = 0
  BY DEF Init
<1>2. last = [call |-> "None", type |-> "none", net |-> "none", kind |-> "none",
              man |-> "none", at |-> 0, result |-> [err |-> "None", chains |-> {}]]
  BY DEF Init, NoCall, Call, Err
<1>3. [err |-> "None", chains |-> {}] \in Results
  BY DEF Results, Errors
<1>4. TypeOK
  BY <1>1, <1>2, <1>3, MaxInsertsAssumption DEF TypeOK
<1>. QED
  BY <1>1, <1>2, <1>4 DEF IInv, MapInv, LookupsSeeLatestChain

(* An insert adds a chain with a fresh id above every lookup's horizon.    *)
LEMMA InsertInv ==
  ASSUME IInv, NEW C \in ChainTypes, NEW n \in Networks, Insert(C, n)
  PROVE  IInv'
<1> DEFINE e == [type |-> C, net |-> n, id |-> inserts + 1]
<1>0. /\ inserts \in 0 .. MaxInserts - 1 /\ MaxInserts \in Nat
      /\ last.at \in 0 .. inserts
  BY MaxInsertsAssumption DEF Insert, IInv, MapInv, TypeOK
<1>1. /\ map' = [key \in DOMAIN map \cup {Key(C, n)} |-> IF key = Key(C, n) THEN e ELSE map[key]]
      /\ log' = log \cup {e} /\ inserts' = inserts + 1 /\ last' = last
  BY DEF Insert
<1>2. e \in Entries /\ EntryKey(e) = Key(C, n) /\ Key(C, n) \in Kinds \X Networks
  BY <1>0, KindAssumption DEF Entries, EntryKey, Key
<1>3. TypeOK'
  BY <1>0, <1>1, <1>2 DEF IInv, MapInv, TypeOK
<1>4. \A f \in log' : f.id \in 1 .. inserts'
  BY <1>0, <1>1 DEF IInv, MapInv
<1>5. \A f, g \in log' : f.id = g.id => f = g
  BY <1>0, <1>1 DEF IInv, MapInv
<1>6. \A key \in DOMAIN map' : map'[key] \in log' /\ EntryKey(map'[key]) = key
  BY <1>1, <1>2 DEF IInv, MapInv
<1>7. \A f \in log' : EntryKey(f) \in DOMAIN map' /\ f.id <= map'[EntryKey(f)].id
  <2> SUFFICES ASSUME NEW f \in log' PROVE EntryKey(f) \in DOMAIN map' /\ f.id <= map'[EntryKey(f)].id
    OBVIOUS
  <2>1. CASE EntryKey(f) = Key(C, n)
    <3>1. f.id \in 1 .. inserts + 1
      BY <1>4, <1>1
    <3>. QED
      BY <1>1, <2>1, <3>1
  <2>2. CASE EntryKey(f) # Key(C, n)
    <3>1. f \in log
      BY <1>1, <1>2, <2>2
    <3>. QED
      BY <1>1, <2>2, <3>1 DEF IInv, MapInv
  <2>. QED
    BY <2>1, <2>2
<1>8. Before' = Before
  BY <1>0, <1>1 DEF Before
<1>9. LookupsSeeLatestChain'
  BY <1>1, <1>8 DEF IInv, LookupsSeeLatestChain, Latest
<1>. QED
  BY <1>3, <1>4, <1>5, <1>6, <1>7, <1>9 DEF IInv, MapInv

(***************************************************************************)
(* A lookup reads the map and records its result: what it records is the  *)
(* latest chain when it is get::<C> of a chain type on a network.          *)
(***************************************************************************)
LEMMA LookupInv ==
  ASSUME IInv, UNCHANGED <<map, inserts, log>>,
         last'.at = inserts,
         last'.call \in {"None", "Get", "GetAllByKind", "Resolve"},
         last'.result \in Results,
         last'.call \in {"Get", "Resolve"} /\ last'.type \in ChainTypes =>
           /\ last'.net \in Networks
           /\ last'.result = GetResult(last'.type, last'.net)
  PROVE  IInv'
<1>1. MapInv'
  <2>1. inserts \in Nat
    BY MaxInsertsAssumption DEF IInv, MapInv, TypeOK
  <2>2. TypeOK'
    BY <2>1 DEF IInv, MapInv, TypeOK
  <2>. QED
    BY <2>2 DEF IInv, MapInv, EntryKey, Key
<1>2. Before' = log
  BY DEF IInv, MapInv, Before
<1>3. LookupsSeeLatestChain'
  <2> SUFFICES ASSUME last'.call \in {"Get", "Resolve"}, last'.type \in ChainTypes
               PROVE  IF \E e \in Before' : e.type = last'.type /\ e.net = last'.net
                      THEN last'.result = Ok({LatestIn(Before', last'.type, last'.net)})
                      ELSE last'.result = Err("NoNetwork")
    BY DEF LookupsSeeLatestChain, Latest
  <2>1. last'.net \in Networks /\ last'.result = GetResult(last'.type, last'.net)
    OBVIOUS
  <2>2. GetResult(last'.type, last'.net) =
          IF \E e \in log : e.type = last'.type /\ e.net = last'.net
          THEN Ok({LatestIn(log, last'.type, last'.net)})
          ELSE Err("NoNetwork")
    BY <2>1, GetCorrect DEF IInv
  <2>. QED
    BY <1>2, <2>1, <2>2
<1>. QED
  BY <1>1, <1>3 DEF IInv

(* from_manifest yields a kind or one of its two errors.                   *)
LEMMA FromManifestRange ==
  ASSUME NEW m
  PROVE  FromManifest(m) \in Kinds \cup {"InvalidManifest", "UnknownKind"}
  BY DEF FromManifest, FromStr, Kinds

LEMMA NextInv == IInv /\ [Next]_vars => IInv'
<1> SUFFICES ASSUME IInv, [Next]_vars PROVE IInv'
  OBVIOUS
<1>0. TypeOK
  BY DEF IInv, MapInv
<1>1. ASSUME NEW C \in ChainTypes, NEW n \in Networks, Insert(C, n) PROVE IInv'
  BY <1>1, InsertInv
<1>2. ASSUME NEW C \in ChainTypes, NEW n \in Networks, Get(C, n) PROVE IInv'
  <2>1. last' = Call("Get", C, n, "none", "none", inserts, GetResult(C, n))
        /\ UNCHANGED <<map, inserts, log>>
    BY <1>2 DEF Get
  <2>2. GetResult(C, n) \in Results
    BY <1>0, ResultsTyped
  <2>. QED
    BY <2>1, <2>2, LookupInv DEF Call
<1>3. ASSUME NEW C \in ChainTypes, NEW k \in Kinds, GetAllByKind(C, k) PROVE IInv'
  <2>1. last' = Call("GetAllByKind", C, "none", k, "none", inserts, GetAllResult(C, k))
        /\ UNCHANGED <<map, inserts, log>>
    BY <1>3 DEF GetAllByKind
  <2>2. GetAllResult(C, k) \in Results
    BY <1>0, ResultsTyped
  <2>. QED
    BY <2>1, <2>2, LookupInv DEF Call
<1>4. ASSUME NEW m \in Manifests, Resolve(m) PROVE IInv'
  <2> DEFINE k == FromManifest(m)
  <2>0. UNCHANGED <<map, inserts, log>> /\ m.network \in Networks
    BY <1>4 DEF Resolve, Manifests
  <2>1. CASE k \in Kinds
    <3>1. last' = Call("Resolve", TypeOf(k), m.network, k, m, inserts, GetResult(TypeOf(k), m.network))
      BY <1>4, <2>1 DEF Resolve
    <3>2. GetResult(TypeOf(k), m.network) \in Results
      BY <1>0, ResultsTyped
    <3>. QED
      BY <2>0, <3>1, <3>2, LookupInv DEF Call
  <2>2. CASE k \notin Kinds
    <3>1. last' = Call("Resolve", "none", m.network, k, m, inserts, Err(k))
      BY <1>4, <2>2 DEF Resolve
    <3>2. Err(k) \in Results
      BY <2>2, FromManifestRange DEF Err, Results, Errors
    <3>. QED
      BY <2>0, <3>1, <3>2, NoneAssumption, LookupInv DEF Call
  <2>. QED
    BY <2>1, <2>2
<1>5. CASE UNCHANGED vars
  BY <1>5 DEF vars, IInv, MapInv, TypeOK, LookupsSeeLatestChain, Latest, Before, EntryKey
<1>. QED
  BY <1>1, <1>2, <1>3, <1>4, <1>5 DEF Next

(***************************************************************************)
(* For every set of chain types, networks and insert bound: get::<C>, and  *)
(* a deployment resolving its chain, always return the chain of the last   *)
(* insert of that type on that network before the call, and report no     *)
(* network only when there was none, whatever the interleaving with the    *)
(* start-up inserts.                                                       *)
(***************************************************************************)
THEOREM LookupsSeeLatest == Spec => []LookupsSeeLatestChain
<1>1. IInv => LookupsSeeLatestChain
  BY DEF IInv
<1>. QED
  BY InitInv, NextInv, <1>1, PTL DEF Spec
-----------------------------------------------------------------------------
(***************************************************************************)
(* get_all_by_kind::<C>(C::KIND) returns the latest chain of every network *)
(* on which a C was inserted: every key of that kind holds a C (the kinds  *)
(* of the chain types are distinct), and the keys of that kind are those  *)
(* of the networks a C was inserted on.                                    *)
(***************************************************************************)
LEMMA GetAllCorrect ==
  ASSUME MapInv, NEW C \in ChainTypes
  PROVE  GetAllResult(C, KIND[C]) =
           Ok({LatestIn(log, C, n) : n \in {e.net : e \in {f \in log : f.type = C}}})
<1> DEFINE Nets == {e.net : e \in {f \in log : f.type = C}}
<1>1. OfKind(KIND[C]) = {Key(C, n) : n \in {n2 \in Networks : Key(C, n2) \in DOMAIN map}}
  <2>1. ASSUME NEW key \in OfKind(KIND[C])
        PROVE  key[2] \in Networks /\ key = Key(C, key[2]) /\ Key(C, key[2]) \in DOMAIN map
    <3>1. key \in DOMAIN map /\ key \in Kinds \X Networks /\ key[1] = KIND[C]
      BY DEF MapInv, TypeOK, OfKind
    <3>2. key = <<key[1], key[2]>> /\ key[2] \in Networks
      BY <3>1
    <3>. QED
      BY <3>1, <3>2 DEF Key
  <2>2. ASSUME NEW n \in Networks, Key(C, n) \in DOMAIN map
        PROVE  Key(C, n) \in OfKind(KIND[C])
    BY <2>2 DEF OfKind, Key
  <2>. QED
    BY <2>1, <2>2
<1>2. \A n \in Networks : Key(C, n) \in DOMAIN map <=> n \in Nets
  <2> SUFFICES ASSUME NEW n \in Networks PROVE Key(C, n) \in DOMAIN map <=> n \in Nets
    OBVIOUS
  <2>1. Key(C, n) \in DOMAIN map => n \in Nets
    BY MapEntryIsKey
  <2>2. n \in Nets => Key(C, n) \in DOMAIN map
    BY DEF MapInv, EntryKey
  <2>. QED
    BY <2>1, <2>2
<1>3. Nets \subseteq Networks
  BY DEF MapInv, TypeOK, Entries
<1>4. \A n \in Nets : map[Key(C, n)].type = C /\ map[Key(C, n)] = LatestIn(log, C, n)
  <2> SUFFICES ASSUME NEW n \in Nets
               PROVE  map[Key(C, n)].type = C /\ map[Key(C, n)] = LatestIn(log, C, n)
    OBVIOUS
  <2>1. Key(C, n) \in DOMAIN map /\ n \in Networks
    BY <1>2, <1>3
  <2>2. map[Key(C, n)].type = C
    BY <2>1, MapEntryIsKey
  <2>3. GetResult(C, n) = Ok({map[Key(C, n)]})
    BY <2>1, <2>2 DEF GetResult
  <2>4. GetResult(C, n) = Ok({LatestIn(log, C, n)})
    BY <2>1, GetCorrect
  <2>. QED
    BY <2>2, <2>3, <2>4 DEF Ok
<1>5. OfKind(KIND[C]) = {Key(C, n) : n \in Nets}
  BY <1>1, <1>2, <1>3
<1>6. ~\E key \in OfKind(KIND[C]) : map[key].type # C
  BY <1>4, <1>5
<1>7. {map[key] : key \in OfKind(KIND[C])} = {LatestIn(log, C, n) : n \in Nets}
  BY <1>4, <1>5
<1>. QED
  BY <1>6, <1>7 DEF GetAllResult

(* The invariant the result of get_all_by_kind needs: the same one.        *)
IInvAll == IInv /\ GetAllByKindExact

LEMMA NextInvAll == IInvAll /\ [Next]_vars => IInvAll'
<1> SUFFICES ASSUME IInvAll, [Next]_vars PROVE IInvAll'
  OBVIOUS
<1>0. IInv' /\ MapInv
  BY NextInv DEF IInvAll, IInv
<1>1. ASSUME NEW C \in ChainTypes, NEW n \in Networks, Insert(C, n) PROVE GetAllByKindExact'
  <2>1. last' = last /\ Before' = Before
    <3>1. last.at \in 0 .. inserts /\ inserts \in Nat
      BY MaxInsertsAssumption DEF IInvAll, IInv, MapInv, TypeOK
    <3>. QED
      BY <1>1, <3>1 DEF Insert, Before
  <2>. QED
    BY <2>1 DEF IInvAll, GetAllByKindExact, Latest
<1>2. ASSUME NEW C \in ChainTypes, NEW n \in Networks, Get(C, n) PROVE GetAllByKindExact'
  BY <1>2 DEF Get, Call, GetAllByKindExact
<1>3. ASSUME NEW m \in Manifests, Resolve(m) PROVE GetAllByKindExact'
  BY <1>3 DEF Resolve, Call, GetAllByKindExact
<1>4. ASSUME NEW C \in ChainTypes, NEW k \in Kinds, GetAllByKind(C, k) PROVE GetAllByKindExact'
  <2>1. /\ last'.call = "GetAllByKind" /\ last'.type = C /\ last'.kind = k
        /\ last'.at = inserts /\ last'.result = GetAllResult(C, k)
        /\ UNCHANGED <<map, inserts, log>>
    BY <1>4 DEF GetAllByKind, Call
  <2>2. Before' = log
    BY <2>1 DEF IInvAll, IInv, MapInv, Before
  <2>. QED
    BY <1>0, <2>1, <2>2, GetAllCorrect DEF GetAllByKindExact, Latest
<1>5. ASSUME UNCHANGED vars PROVE GetAllByKindExact'
  BY <1>5 DEF vars, IInvAll, GetAllByKindExact, Latest, Before
<1>. QED
  BY <1>0, <1>1, <1>2, <1>3, <1>4, <1>5 DEF Next, IInvAll

(***************************************************************************)
(* For every set of chain types, networks and insert bound, and whatever   *)
(* the interleaving with the start-up inserts: get_all_by_kind::<C> of C's *)
(* own kind never fails to downcast and returns exactly the latest chain   *)
(* of every network on which a C was inserted before the call.             *)
(***************************************************************************)
THEOREM GetAllByKindSeesLatest == Spec => []GetAllByKindExact
<1>1. Init => IInvAll
  <2> SUFFICES ASSUME Init PROVE IInvAll
    OBVIOUS
  <2>1. last.call = "None"
    BY DEF Init, NoCall, Call
  <2>. QED
    BY <2>1, InitInv DEF IInvAll, GetAllByKindExact
<1>. QED
  BY <1>1, NextInvAll, PTL DEF Spec, IInvAll
=============================================================================
