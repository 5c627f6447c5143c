------------------------- MODULE IpfsConnect_proofs -------------------------
(***************************************************************************)
(* Proofs about new_ipfs_client, for every number of server addresses and *)
(* every answer of their probes.                                           *)
(***************************************************************************)
EXTENDS IpfsConnect, TLAPS

(***************************************************************************)
(* The inductive invariant.  The loop has connected exactly the addresses *)
(* before server, each with an API that answered Ok; while it probes, the *)
(* APIs no longer pending answered InvalidServer; while it caches, the     *)
(* chosen API of the current address answered Ok; no result is set before *)
(* the loop stops, and the result it stops with records why.               *)
(***************************************************************************)
IInv ==
  /\ TypeOK
  /\ Len(clients) = server - 1
  /\ \A k \in 1 .. Len(clients) : probe[k][clients[k]] = "Ok"
  /\ phase = "Probe" => \A a \in Apis \ pending : probe[server][a] = "InvalidServer"
  /\ phase = "Probe" => pending # {} /\ (pending # Apis => server <= Servers)
  /\ phase = "Cache" => server <= Servers /\ probe[server][chosen] = "Ok"
  /\ phase # "Done" <=> result = "None"
  /\ result \in {"Single", "Pool", "NoAddress"} => server = Servers + 1 /\ result = Finish(Servers)
  /\ result = "InvalidServer" =>
       server <= Servers /\ \A a \in Apis : probe[server][a] = "InvalidServer"
LEMMA InitIInv == Init => IInv
<1> SUFFICES ASSUME Init PROVE IInv
  OBVIOUS
<1>1. PICK n \in 0 .. MaxServers : probe \in [1 .. n -> [Apis -> ProbeResults]]
  BY DEF Init
<1>2. probe \in Seq([Apis -> ProbeResults]) /\ Servers = n
  BY <1>1, MaxServersAssumption DEF Servers
<1>. QED
  BY <1>2 DEF Init, IInv, TypeOK

(* The loop stops after the last address with the match on the count.     *)
LEMMA ConcludeIInv ==
  ASSUME IInv, Conclude
  PROVE  IInv'
<1>1. server = Servers + 1 /\ Len(clients) = Servers /\ Servers \in Nat
  BY DEF IInv, TypeOK, Conclude, Servers
<1>2. result' = Finish(Servers) /\ result' \in {"Single", "Pool", "NoAddress"}
  BY <1>1 DEF Conclude, Finish
<1>. QED
  BY <1>1, <1>2 DEF IInv, TypeOK, Conclude, Servers

(* A probe of the current address completes.                              *)
LEMMA ProbeIInv ==
  ASSUME IInv, NEW a \in Apis, ProbeCompletes(a)
  PROVE  IInv'
<1> DEFINE r == probe[server][a]
<1>1. server \in 1 .. Servers /\ r \in ProbeResults /\ phase = "Probe" /\ a \in pending
  BY DEF IInv, TypeOK, ProbeCompletes, Servers
<1>2. UNCHANGED <<probe, server, clients>>
  BY DEF ProbeCompletes
<1>3. CASE r = "Ok"
  <2>1. chosen' = a /\ phase' = "Cache" /\ UNCHANGED <<pending, result>>
    BY <1>1, <1>3 DEF ProbeCompletes, IsInvalidServer
  <2>. QED
    BY <1>1, <1>2, <1>3, <2>1 DEF IInv, TypeOK, Servers
<1>4. CASE r = "InvalidServer"
  <2>1. pending' = pending \ {a} /\ UNCHANGED chosen
        /\ IF pending' = {} THEN phase' = "Done" /\ result' = "InvalidServer"
                            ELSE UNCHANGED <<phase, result>>
    BY <1>1, <1>4 DEF ProbeCompletes, IsInvalidServer
  <2>2. \A b \in Apis \ pending' : probe[server][b] = "InvalidServer"
    BY <1>1, <1>4, <2>1 DEF IInv
  <2>. QED
    BY <1>1, <1>2, <2>1, <2>2 DEF IInv, TypeOK, Servers
<1>5. CASE r = "Other"
  <2>1. phase' = "Done" /\ result' = "Other" /\ UNCHANGED <<pending, chosen>>
    BY <1>1, <1>5 DEF ProbeCompletes, IsInvalidServer
  <2>. QED
    BY <1>1, <1>2, <2>1 DEF IInv, TypeOK, Servers
<1>. QED
  BY <1>1, <1>3, <1>4, <1>5 DEF ProbeResults

(* CachingClient::new succeeds: the client of an Ok API is pushed.         *)
LEMMA CacheIInv ==
  ASSUME IInv, CacheClient
  PROVE  IInv'
<1>1. server \in 1 .. Servers /\ probe[server][chosen] = "Ok" /\ Len(clients) = server - 1
      /\ clients \in Seq(Apis) /\ chosen \in Apis /\ result = "None"
  BY DEF IInv, TypeOK, CacheClient, Servers
<1>2. clients' = Append(clients, chosen) /\ server' = server + 1 /\ pending' = Apis
      /\ phase' = "Probe" /\ UNCHANGED <<probe, chosen, result>>
  BY DEF CacheClient
<1>3. \A k \in 1 .. Len(clients') : probe'[k][clients'[k]] = "Ok"
  BY <1>1, <1>2 DEF IInv
<1>. QED
  BY <1>1, <1>2, <1>3 DEF IInv, TypeOK, Servers

(* CachingClient::new fails: its error is the result.                     *)
LEMMA CacheFailsIInv ==
  ASSUME IInv, CacheClientFails
  PROVE  IInv'
  BY DEF IInv, TypeOK, CacheClientFails, Servers

LEMMA NextIInv ==
  ASSUME IInv, [Next]_vars
  PROVE  IInv'
<1>1. CASE UNCHANGED vars
  BY <1>1 DEF IInv, TypeOK, vars, Servers
<1>. QED
  BY <1>1, ConcludeIInv, ProbeIInv, CacheIInv, CacheFailsIInv DEF Next

LEMMA IInvForever == Spec => []IInv
  BY InitIInv, NextIInv, PTL DEF Spec

(***************************************************************************)
(* For every number of addresses and every answer of their probes,         *)
(* new_ipfs_client returns a client (single or pooled) only after it       *)
(* connected every address, each through an API that answered Ok, and it   *)
(* returns a single client exactly when one address was given.           *)
(***************************************************************************)
THEOREM AllConnectedOnSuccess == Spec => []SuccessMeansAllConnected
<1>1. IInv => SuccessMeansAllConnected
  BY DEF IInv, TypeOK, SuccessMeansAllConnected, Finish, Servers
<1>. QED
  BY <1>1, IInvForever, PTL

(***************************************************************************)
(* For every number of addresses, new_ipfs_client reports "unknown server *)
(* kind" only for an address whose gateway and RPC probes both answered    *)
(* that the server is not of their kind.                                   *)
(***************************************************************************)
THEOREM InvalidServerOnlyWithoutApi == Spec => []InvalidServerMeansNoApi
<1>1. IInv => InvalidServerMeansNoApi
  BY DEF IInv, TypeOK, InvalidServerMeansNoApi, Servers
<1>. QED
  BY <1>1, IInvForever, PTL
-----------------------------------------------------------------------------
(***************************************************************************)
(* The refinement of IpfsClientContract.  The mapping is the identity on   *)
(* probe and result: every step of the loop that leaves result "None" is  *)
(* a stutter of the contract, and the one step that sets it is Return,     *)
(* because IInv records why the loop stopped where it did.                 *)
(***************************************************************************)
contractVars == <<probe, result>>

LEMMA InitRefines == Init => Contract!ContractInit
  BY DEF Init, Contract!ContractInit, Apis, Contract!Apis, ProbeResults, Contract!ProbeResults

(* Every address before the current one connected: an API of it answered  *)
(* Ok, the one whose client was pushed.                                   *)
LEMMA ConnectedBefore ==
  ASSUME IInv
  PROVE  \A j \in 1 .. server - 1 : Contract!CanConnect(probe[j])
<1>. SUFFICES ASSUME NEW j \in 1 .. server - 1 PROVE Contract!CanConnect(probe[j])
  OBVIOUS
<1>1. clients[j] \in Apis /\ probe[j][clients[j]] = "Ok"
  BY DEF IInv, TypeOK
<1>. QED
  BY <1>1 DEF Contract!CanConnect, Apis, Contract!Apis

(* An address the loop reached may end the call with any of its failures. *)
LEMMA FailureAllowed ==
  ASSUME IInv, server \in 1 .. Servers,
         NEW e \in Contract!AddressFailures(probe[server])
  PROVE  e \in Contract!Outcomes(probe)
<1>1. server \in {k \in 1 .. Len(probe) : \A j \in 1 .. k - 1 : Contract!CanConnect(probe[j])}
  BY ConnectedBefore DEF Servers
<1>. QED
  BY <1>1 DEF Contract!Outcomes

(* Every step of new_ipfs_client is a step or a stutter of its contract.  *)
LEMMA StepRefines ==
  ASSUME IInv, [Next]_vars
  PROVE  ([Contract!Return]_contractVars)
<1>. USE DEF IInv, TypeOK
<1>1. CASE Conclude
  <2>1. server = Servers + 1 /\ Len(clients) = Servers /\ Servers \in Nat /\ result = "None"
    BY <1>1 DEF Conclude, Servers
  <2>2. \A k \in 1 .. Len(probe) : Contract!CanConnect(probe[k])
    BY <2>1, ConnectedBefore DEF Servers
  <2>3. result' = Contract!ClientsResult(Len(probe))
    BY <1>1, <2>1 DEF Conclude, Finish, Contract!ClientsResult, Servers
  <2>. QED
    BY <1>1, <2>1, <2>2, <2>3 DEF Contract!Return, Contract!Outcomes, Conclude
<1>2. ASSUME NEW a \in Apis, ProbeCompletes(a)
      PROVE  ([Contract!Return]_contractVars)
  <2> DEFINE r == probe[server][a]
  <2>1. server \in 1 .. Servers /\ r \in ProbeResults /\ phase = "Probe" /\ a \in pending
        /\ result = "None" /\ UNCHANGED probe
    BY <1>2 DEF ProbeCompletes, Servers
  <2>2. CASE r = "Ok"
    BY <1>2, <2>2 DEF ProbeCompletes, contractVars
  <2>3. CASE r = "InvalidServer" /\ pending \ {a} = {}
    <3>1. result' = "InvalidServer"
      BY <1>2, <2>1, <2>3 DEF ProbeCompletes, IsInvalidServer
    <3>2. \A b \in Apis : probe[server][b] = "InvalidServer"
      BY <2>1, <2>3
    <3>3. "InvalidServer" \in Contract!AddressFailures(probe[server])
      BY <3>2 DEF Contract!AddressFailures, Contract!NoApi, Apis, Contract!Apis
    <3>. QED
      BY <2>1, <3>1, <3>3, FailureAllowed DEF Contract!Return
  <2>4. CASE r = "InvalidServer" /\ pending \ {a} # {}
    BY <1>2, <2>4 DEF ProbeCompletes, IsInvalidServer, contractVars
  <2>5. CASE r = "Other"
    <3>1. result' = "Other"
      BY <1>2, <2>1, <2>5 DEF ProbeCompletes, IsInvalidServer
    <3>2. "Other" \in Contract!AddressFailures(probe[server])
      BY <2>5 DEF Contract!AddressFailures, Contract!ProbeErrors, Apis, Contract!Apis
    <3>. QED
      BY <2>1, <3>1, <3>2, FailureAllowed DEF Contract!Return
  <2>. QED
    BY <2>1, <2>2, <2>3, <2>4, <2>5 DEF ProbeResults
<1>3. CASE CacheClient
  BY <1>3 DEF CacheClient, contractVars
<1>4. CASE CacheClientFails
  <2>1. server \in 1 .. Servers /\ chosen \in Apis /\ probe[server][chosen] = "Ok"
        /\ result = "None" /\ result' = "CacheError" /\ UNCHANGED probe
    BY <1>4 DEF CacheClientFails, Servers
  <2>2. "CacheError" \in Contract!AddressFailures(probe[server])
    BY <2>1 DEF Contract!AddressFailures, Contract!CanConnect, Apis, Contract!Apis
  <2>. QED
    BY <2>1, <2>2, FailureAllowed DEF Contract!Return
<1>5. CASE UNCHANGED vars
  BY <1>5 DEF vars, contractVars
<1>. QED
  BY <1>1, <1>2, <1>3, <1>4, <1>5 DEF Next

(***************************************************************************)
(* For every number of addresses and every answer of their probes, and     *)
(* whichever probe of an address completes first, new_ipfs_client returns  *)
(* at most once and only an outcome its contract allows: a client (single *)
(* or pooled) when every address connected, otherwise the failure of the  *)
(* first address that did not connect.                                     *)
(***************************************************************************)
THEOREM ContractKept == Spec => ImplementsContract
<1>1. IInv /\ [Next]_vars => [Contract!Return]_contractVars
  BY StepRefines
<1>. QED
  BY <1>1, InitRefines, IInvForever, PTL
  DEF Spec, ImplementsContract, Contract!ContractSpec, contractVars

=============================================================================
