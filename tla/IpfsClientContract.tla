-------------------------- MODULE IpfsClientContract --------------------------
(***************************************************************************)
(* What new_ipfs_client (graph/src/ipfs/mod.rs) promises, as one step:     *)
(* given what each API of each configured server answers, the call returns *)
(* one of the outcomes the addresses allow, in the order they are given.   *)
(*                                                                         *)
(* For one address, use_first_valid_api connects when some API answers Ok  *)
(* and that probe is taken before any other error; it returns another      *)
(* error of a probe when that one comes first; it returns InvalidServer    *)
(* only when every API says the server is not of its kind.  An address    *)
(* that connected may still fail in CachingClient::new.  The first address *)
(* that does not connect ends the call with its error.                     *)
(***************************************************************************)
EXTENDS Naturals, Sequences

CONSTANT MaxServers  \* the most server addresses configured

Apis == {"Gateway", "Rpc"}
ProbeResults == {"Ok", "InvalidServer", "Other"}

VARIABLES
  probe,   \* probe[k][a]: what API a of the k-th address answers
  result   \* "None" until the call returns, then its outcome

(* Some API of the address answers Ok, so its probe may be taken first.    *)
CanConnect(p) == \E a \in Apis : p[a] = "Ok"

(* The errors other than "invalid server" that one probe of the address    *)
(* may return first.                                                        *)
ProbeErrors(p) == {p[a] : a \in Apis} \ {"Ok", "InvalidServer"}

(* Every API says the address is not a server of its kind.                *)
NoApi(p) == \A a \in Apis : p[a] = "InvalidServer"

(* The final match on clients.len() once every address connected.        *)
ClientsResult(n) ==
  CASE n = 0 -> "NoAddress"
    [] n = 1 -> "Single"
    [] OTHER -> "Pool"

(* How the k-th address may end the call: a probe error, InvalidServer, or *)
(* the error of CachingClient::new after a connection.                     *)
AddressFailures(p) ==
  ProbeErrors(p)
    \cup {r \in {"InvalidServer"} : NoApi(p)}
    \cup {r \in {"CacheError"} : CanConnect(p)}

(* The outcomes new_ipfs_client may return for the answers pr.            *)
Outcomes(pr) ==
  LET Reached == {k \in 1 .. Len(pr) : \A j \in 1 .. k - 1 : CanConnect(pr[j])}
  IN  {r \in {ClientsResult(Len(pr))} : \A k \in 1 .. Len(pr) : CanConnect(pr[k])}
        \cup UNION {AddressFailures(pr[k]) : k \in Reached}

ContractInit ==
  /\ \E n \in 0 .. MaxServers : probe \in [1 .. n -> [Apis -> ProbeResults]]
  /\ result = "None"

(* new_ipfs_client returns.                                                 *)
Return ==
  /\ result = "None"
  /\ result' \in Outcomes(probe)
  /\ UNCHANGED probe

ContractSpec == ContractInit /\ [][Return]_<<probe, result>>
=============================================================================
