----------------------------- MODULE BlockchainMap -----------------------------
(***************************************************************************)
(* The registry of chains (BlockchainMap, graph/src/blockchain/mod.rs) and *)
(* how a deployment finds its chain in it.                                  *)
(*                                                                         *)
(* At start-up the node inserts one chain per (kind, network); a chain is  *)
(* stored type-erased (Arc<dyn Any>) under (C::KIND, network) and read     *)
(* back by get::<C> and get_all_by_kind::<C> with a downcast to C.  A      *)
(* deployment's kind comes from its manifest (from_manifest and from_str), *)
(* and the node dispatches to the Blockchain type of that                  *)
(* kind to call get::<C>(network).                                          *)
(*                                                                         *)
(* The startup inserts and the lookups of deployments interleave freely;   *)
(* lookups only read, and record what they returned in last.              *)
(***************************************************************************)
EXTENDS Naturals

CONSTANTS
  ChainTypes,  \* the Rust types implementing Blockchain
  KIND,        \* KIND[C]: the const Blockchain::KIND of type C
  Networks,    \* the network names of the configuration
  MaxInserts   \* bound on the insert calls of a behaviour

(* BlockchainKind *)
Kinds == {"Ethereum", "Near", "Substreams"}

ASSUME KindAssumption == KIND \in [ChainTypes -> Kinds]
(* Every kind has one Blockchain implementation (the chain crates).        *)
ASSUME KindInjective == \A C1, C2 \in ChainTypes : KIND[C1] = KIND[C2] => C1 = C2
ASSUME MaxInsertsAssumption == MaxInserts \in Nat
(* "none" marks a missing argument in the record of a lookup.              *)
ASSUME NoneAssumption == "none" \notin ChainTypes

(***************************************************************************)
(* A manifest, abstracted to what from_manifest tells apart: the shape of  *)
(* the dataSources field up to the kind of its first data source, that     *)
(* kind as the part before its first '/' and the rest, the network of the  *)
(* first data source.                                                       *)
(***************************************************************************)
Shapes == {"NoDataSources", "NotSequence", "Empty", "NotMapping", "NoKind", "KindNotString", "Kind"}
Heads == {"ethereum", "near", "substreams", "subgraph", "arweave"}
Rests == {"", "/contract"}
(* The fields past a malformed shape are never read: one value stands for *)
(* all.                                                                    *)
Manifests ==
  {m \in [shape : Shapes, head : Heads, rest : Rests, network : Networks] :
     m.shape # "Kind" => m.head = "ethereum" /\ m.rest = ""}

(* A chain stored in the map: its type and the insert call that made it.   *)
Entries == [type : ChainTypes, net : Networks, id : 1 .. MaxInserts]

VARIABLES
  map,      \* the HashMap: (kind, network) |-> entry
  inserts,  \* the insert calls so far
  log,      \* every chain inserted so far (history, for the properties)
  last      \* the last lookup: its call, arguments, the inserts before it
            \* and its result

vars == <<map, inserts, log, last>>

(* A result: Ok ("Ok") with the chains returned, or an error.             *)
Errors == {"None", "NoNetwork", "DowncastError", "InvalidManifest", "UnknownKind"}
Results == [err : Errors \cup {"Ok"}, chains : SUBSET Entries]
Ok(S) == [err |-> "Ok", chains |-> S]
Err(e) == [err |-> e, chains |-> {}]

(* BlockchainKind::from_str *)
FromStr(s) ==
  CASE s = "ethereum" -> "Ethereum"
    [] s = "near" -> "Near"
    [] s = "substreams" -> "Substreams"
    [] s = "subgraph" -> "Ethereum"
    [] OTHER -> "UnknownKind"

(* BlockchainKind::from_manifest: kind.split('/').next() is the head.      *)
FromManifest(m) == IF m.shape = "Kind" THEN FromStr(m.head) ELSE "InvalidManifest"

(* A fault the properties must catch: the map is keyed by network only.   *)
KeyNetworkOnly(C, n) == <<"Ethereum", n>>

(* The key of a chain of type C on network n: (C::KIND, network).          *)
Key(C, n) == <<KIND[C], n>>

(* BlockchainMap::get::<C>: a missing key, or a chain of another type.    *)
GetResult(C, n) ==
  IF Key(C, n) \notin DOMAIN map THEN Err("NoNetwork")
  ELSE IF map[Key(C, n)].type # C THEN Err("DowncastError")
  ELSE Ok({map[Key(C, n)]})

(* A fault the properties must catch: the kind filter is dropped.        *)
OfKindUnfiltered(k) == DOMAIN map

(* The keys get_all_by_kind keeps: those whose kind equals the argument.  *)
OfKind(k) == {key \in DOMAIN map : key[1] = k}

(* BlockchainMap::get_all_by_kind::<C>(kind): collect stops at the first  *)
(* failed downcast; whatever the iteration order, the result is an error  *)
(* exactly when some chain of that kind is not a C.                       *)
GetAllResult(C, k) ==
  IF \E key \in OfKind(k) : map[key].type # C THEN Err("DowncastError")
  ELSE Ok({map[key] : key \in OfKind(k)})

(* The dispatch from a kind to its Blockchain type, outside this file.    *)
TypeOf(k) == CHOOSE C \in ChainTypes : KIND[C] = k

TypeOK ==
  /\ DOMAIN map \subseteq Kinds \X Networks
  /\ \A key \in DOMAIN map : map[key] \in Entries
  /\ inserts \in 0 .. MaxInserts
  /\ log \subseteq Entries
  /\ last.call \in {"None", "Get", "GetAllByKind", "Resolve"}
  /\ last.at \in 0 .. inserts
  /\ last.result \in Results

(* The record of a lookup: the call, its arguments, the inserts before it *)
(* and its result; "none" for an argument the call does not take.          *)
Call(call, type, net, kind, man, at, result) ==
  [call |-> call, type |-> type, net |-> net, kind |-> kind, man |-> man, at |-> at, result |-> result]

NoCall == Call("None", "none", "none", "none", "none", 0, Err("None"))

Init ==
  /\ map = [key \in {} |-> NoCall]
  /\ inserts = 0
  /\ log = {}
  /\ last = NoCall

(* BlockchainMap::insert::<C>(network, chain): a new Arc of a C, stored   *)
(* under (C::KIND, network), replacing what was there.                     *)
Insert(C, n) ==
  /\ inserts < MaxInserts
  /\ LET e == [type |-> C, net |-> n, id |-> inserts + 1]
     IN  /\ map' = [key \in DOMAIN map \cup {Key(C, n)} |->
                      IF key = Key(C, n) THEN e ELSE map[key]]
         /\ log' = log \cup {e}
  /\ inserts' = inserts + 1
  /\ UNCHANGED last

Get(C, n) ==
  /\ last' = Call("Get", C, n, "none", "none", inserts, GetResult(C, n))
  /\ UNCHANGED <<map, inserts, log>>

GetAllByKind(C, k) ==
  /\ last' = Call("GetAllByKind", C, "none", k, "none", inserts, GetAllResult(C, k))
  /\ UNCHANGED <<map, inserts, log>>

(* A deployment looks its chain up: from_manifest, then get::<C> for the  *)
(* type of that kind on the network of its data source.                   *)
Resolve(m) ==
  /\ LET k == FromManifest(m)
     IN  last' = IF k \in Kinds
                  THEN Call("Resolve", TypeOf(k), m.network, k, m, inserts, GetResult(TypeOf(k), m.network))
                  ELSE Call("Resolve", "none", m.network, k, m, inserts, Err(k))
  /\ UNCHANGED <<map, inserts, log>>

Next ==
  \/ \E C \in ChainTypes, n \in Networks : Insert(C, n) \/ Get(C, n)
  \/ \E C \in ChainTypes, k \in Kinds : GetAllByKind(C, k)
  \/ \E m \in Manifests : Resolve(m)

Spec == Init /\ [][Next]_vars

-----------------------------------------------------------------------------
(* The chains inserted before the last lookup.                            *)
Before == {e \in log : e.id <= last.at}

(* The chain of the last insert of a C on network n among the entries S.  *)
LatestIn(S, C, n) ==
  CHOOSE e \in S : e.type = C /\ e.net = n /\
                   \A f \in S : f.type = C /\ f.net = n => f.id <= e.id

(* The chain the last insert of a C on network n before the lookup made.  *)
Latest(C, n) == LatestIn(Before, C, n)

(***************************************************************************)
(* get::<C>(network), called directly or by a deployment resolving its     *)
(* chain, returns the chain of the last insert::<C> on that network (a    *)
(* later insert replaces an earlier one), never fails to downcast it, and *)
(* reports no network only when no C was inserted on it.                  *)
(***************************************************************************)
LookupsSeeLatestChain ==
  last.call \in {"Get", "Resolve"} /\ last.type \in ChainTypes =>
    IF \E e \in Before : e.type = last.type /\ e.net = last.net
    THEN last.result = Ok({Latest(last.type, last.net)})
    ELSE last.result = Err("NoNetwork")

(***************************************************************************)
(* get_all_by_kind::<C>(C::KIND) returns the latest chain of every network *)
(* on which a C was inserted, and nothing else.                            *)
(***************************************************************************)
GetAllByKindExact ==
  last.call = "GetAllByKind" /\ last.kind = KIND[last.type] =>
    last.result = Ok({Latest(last.type, n) : n \in {e.net : e \in {f \in Before : f.type = last.type}}})
=============================================================================
