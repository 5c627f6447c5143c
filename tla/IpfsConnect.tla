----------------------------- MODULE IpfsConnect -----------------------------
(***************************************************************************)
(* new_ipfs_client (graph/src/ipfs/mod.rs): for each configured server     *)
(* address in turn, use_first_valid_api probes the gateway API and the RPC *)
(* API concurrently (a FuturesUnordered of the two futures) and takes the  *)
(* first result that is not an "invalid server" error; the client it       *)
(* returns is wrapped in a CachingClient.  One client is returned as is,   *)
(* several are pooled, none is an error.                                   *)
(*                                                                         *)
(* What each API of each server answers is fixed in the initial state      *)
(* (probe[k][a]); the order in which the two probes of a server complete   *)
(* is free, since they run concurrently.                                   *)
(***************************************************************************)
EXTENDS Naturals, Sequences

CONSTANT MaxServers  \* the most server addresses the model configures

ASSUME MaxServersAssumption == MaxServers \in Nat

Apis == {"Gateway", "Rpc"}

(* The result of IpfsGatewayClient::new / IpfsRpcClient::new: a client, an *)
(* error with is_invalid_server(), or any other error.                      *)
ProbeResults == {"Ok", "InvalidServer", "Other"}

VARIABLES
  probe,    \* probe[k][a]: what API a of the k-th server address answers
  server,   \* the index of the server address being connected
  pending,  \* the probes of that server whose results are not taken yet
  chosen,   \* the API whose client is being wrapped in a CachingClient
  clients,  \* the APIs of the clients pushed so far
  phase,    \* "Probe", "Cache" or "Done"
  result    \* "None", "Single", "Pool" or the error returned

vars == <<probe, server, pending, chosen, clients, phase, result>>

Servers == Len(probe)

TypeOK ==
  /\ probe \in Seq([Apis -> ProbeResults])
  /\ server \in 1 .. Servers + 1
  /\ pending \subseteq Apis
  /\ chosen \in Apis
  /\ clients \in Seq(Apis)
  /\ phase \in {"Probe", "Cache", "Done"}
  /\ result \in {"None", "Single", "Pool", "InvalidServer", "Other", "CacheError", "NoAddress"}

Init ==
  /\ \E n \in 0 .. MaxServers : probe \in [1 .. n -> [Apis -> ProbeResults]]
  /\ server = 1
  /\ pending = Apis
  /\ chosen \in Apis
  /\ clients = << >>
  /\ phase = "Probe"
  /\ result = "None"

(* A fault the properties must catch: the zero arm of the final match is    *)
(* missing, so no address yields a pool.                                   *)
FinishNoZeroArm(n) == IF n = 1 THEN "Single" ELSE "Pool"

(* The final match on clients.len(): 0 is an error, 1 the client itself,   *)
(* more a pool.                                                            *)
Finish(n) ==
  CASE n = 0 -> "NoAddress"
    [] n = 1 -> "Single"
    [] OTHER -> "Pool"

(* A fault the properties must catch: every error of a probe is ignored.  *)
IsInvalidServerAny(r) == r # "Ok"

(* err.is_invalid_server()                                                  *)
IsInvalidServer(r) == r = "InvalidServer"

(* A fault the properties must catch: the final match does not wait for  *)
(* the loop to pass the last address.                                      *)
ConcludeEarly ==
  /\ phase = "Probe"
  /\ phase' = "Done"
  /\ result' = Finish(Len(clients))
  /\ UNCHANGED <<probe, server, pending, chosen, clients>>

(* The for loop is past the last address: the final match.               *)
Conclude ==
  /\ phase = "Probe"
  /\ server > Servers
  /\ phase' = "Done"
  /\ result' = Finish(Len(clients))
  /\ UNCHANGED <<probe, server, pending, chosen, clients>>

(* stream.next() yields the result of probe a of the current server.       *)
ProbeCompletes(a) ==
  /\ phase = "Probe"
  /\ server <= Servers
  /\ a \in pending
  /\ LET r == probe[server][a]
     IN  \/ /\ r = "Ok"
            /\ chosen' = a
            /\ phase' = "Cache"
            /\ UNCHANGED <<pending, result>>
         \/ /\ r # "Ok" /\ IsInvalidServer(r)
            /\ pending' = pending \ {a}
            /\ IF pending' = {}
               THEN phase' = "Done" /\ result' = "InvalidServer"
               ELSE UNCHANGED <<phase, result>>
            /\ UNCHANGED chosen
         \/ /\ r # "Ok" /\ ~IsInvalidServer(r)
            /\ phase' = "Done"
            /\ result' = r
            /\ UNCHANGED <<pending, chosen>>
  /\ UNCHANGED <<probe, server, clients>>

(* CachingClient::new succeeds: the client is pushed and the loop moves    *)
(* on to the next address with both of its probes running.                 *)
CacheClient ==
  /\ phase = "Cache"
  /\ clients' = Append(clients, chosen)
  /\ server' = server + 1
  /\ pending' = Apis
  /\ phase' = "Probe"
  /\ UNCHANGED <<probe, chosen, result>>

(* CachingClient::new fails and its error is returned.                    *)
CacheClientFails ==
  /\ phase = "Cache"
  /\ phase' = "Done"
  /\ result' = "CacheError"
  /\ UNCHANGED <<probe, server, pending, chosen, clients>>

Next ==
  \/ Conclude
  \/ \E a \in Apis : ProbeCompletes(a)
  \/ CacheClient
  \/ CacheClientFails

Spec == Init /\ [][Next]_vars

-----------------------------------------------------------------------------
(***************************************************************************)
(* new_ipfs_client answers with a client only when it connected every     *)
(* address: one client per address, each of an API that answered Ok, a    *)
(* single client exactly when one address was given and a pool otherwise. *)
(***************************************************************************)
SuccessMeansAllConnected ==
  result \in {"Single", "Pool"} =>
    /\ Servers >= 1
    /\ Len(clients) = Servers
    /\ (result = "Single") = (Servers = 1)
    /\ \A k \in 1 .. Servers : probe[k][clients[k]] = "Ok"

(***************************************************************************)
(* "unknown server kind" (InvalidServer) is returned only for an address  *)
(* whose gateway and RPC probes both said the server is not of their kind; *)
(* any other probe error is reported as itself.                            *)
(***************************************************************************)
InvalidServerMeansNoApi ==
  result = "InvalidServer" =>
    \E k \in 1 .. Servers : \A a \in Apis : probe[k][a] = "InvalidServer"

(***************************************************************************)
(* Reading use_first_valid_api as its name says: when every address has an *)
(* API that answers Ok and caching never fails, new_ipfs_client returns a  *)
(* client, whichever probe of an address completes first.                  *)
(***************************************************************************)
ConnectsWhenEveryServerHasAnApi ==
  (/\ result \notin {"None", "CacheError"}
   /\ \A k \in 1 .. Servers : \E a \in Apis : probe[k][a] = "Ok")
     => result \in {"Single", "Pool", "NoAddress"}

(***************************************************************************)
(* new_ipfs_client keeps its contract (IpfsClientContract): whatever order *)
(* the two probes of each address complete in, the call returns once, with *)
(* an outcome the answers of the addresses allow: a client only when every *)
(* address connected, otherwise the error of the first address that did   *)
(* not, InvalidServer only when no API of it is of its kind.               *)
(***************************************************************************)
Contract == INSTANCE IpfsClientContract

ImplementsContract == Contract!ContractSpec
=============================================================================
