------------------------------ MODULE MappingEnv ------------------------------
(***************************************************************************)
(* EnvVarsMapping::try_from (graph/src/env/mappings.rs): turning the raw  *)
(* mapping settings into the ones the node runs with, at start-up.  What   *)
(* it computes rather than copies: the entity cache size in bytes from     *)
(* GRAPH_ENTITY_CACHE_SIZE in kilobytes, and the IPFS cache location,      *)
(* checked by validate_ipfs_cache_location against the file system.        *)
(*                                                                         *)
(* usize arithmetic keeps its width, UsizeBits (64 on the targets the node *)
(* is built for; smaller in the model, where 2^UsizeBits / 1000 is still   *)
(* the boundary).  An overflowing multiplication panics in a build with    *)
(* overflow checks and wraps in one without: both outcomes are possible.   *)
(***************************************************************************)
EXTENDS Naturals

CONSTANTS
  UsizeBits,  \* the width of usize
  KbInputs    \* the values of GRAPH_ENTITY_CACHE_SIZE tried

(* 2^64 for a 64-bit usize: the arithmetic of usize is modulo this.       *)
UsizeModulus == 2^UsizeBits

UsizeMax == UsizeModulus - 1

(***************************************************************************)
(* GRAPH_IPFS_CACHE_LOCATION and what the file system holds there.  A path *)
(* is abstracted to its first component (Path::components: "redis://h"   *)
(* and "redis:/h" both start with "redis:"), whether it is absolute, and   *)
(* what canonicalize, is_dir, metadata and the permissions find.  The     *)
(* mode has a write bit (readonly() is false) or not; whether the node's  *)
(* user may write there is a separate fact (owner, ACLs, mounts).          *)
(***************************************************************************)
FirstComponents == {"redis:", "rediss:", "cache"}
Locations ==
  [first : FirstComponents, absolute : BOOLEAN, exists : BOOLEAN, dir : BOOLEAN,
   metadataOk : BOOLEAN, writeBit : BOOLEAN, writable : BOOLEAN]

(* Inputs the file system cannot produce are left out: a missing path is   *)
(* neither a directory nor writable; a writable file has a write bit.      *)
Possible(l) ==
  /\ ~l.exists => ~l.dir /\ ~l.writeBit /\ ~l.writable
  /\ l.writable => l.writeBit

(* An Option is a set of at most one element.                              *)
LocationInputs == {{}} \cup {{l} : l \in {l \in Locations : Possible(l)}}

VARIABLES
  kb,        \* x.entity_cache_size_in_kb
  location,  \* x.ipfs_cache_location
  phase,     \* "Start", then "Done"
  result     \* the outcome and the settings try_from built

vars == <<kb, location, phase, result>>

Results ==
  [status : {"None", "Ok", "Err", "Panic"}, cacheSize : 0 .. UsizeMax,
   location : {{}} \cup {{l} : l \in Locations}]

TypeOK ==
  /\ kb \in KbInputs
  /\ location \in LocationInputs
  /\ phase \in {"Start", "Done"}
  /\ result \in Results

Init ==
  /\ kb \in KbInputs
  /\ location \in LocationInputs
  /\ phase = "Start"
  /\ result = [status |-> "None", cacheSize |-> 0, location |-> {}]

(* path.starts_with("redis://"): "redis://" is the one component "redis:", *)
(* and an absolute path starts with the root.                              *)
IsRedis(l) == ~l.absolute /\ l.first = "redis:"

(* validate_ipfs_cache_location succeeds: a Redis URL is passed on as is; *)
(* otherwise canonicalize (which fails for a missing path and returns an *)
(* absolute one, so the is_absolute check never fails), is_dir, metadata *)
(* and permissions().readonly() must all pass.                             *)
Valid(l) == IsRedis(l) \/ (l.exists /\ l.dir /\ l.metadataOk /\ l.writeBit)

(* canonicalize: the same file, by its absolute path.                      *)
Canonical(l) ==
  [first |-> l.first, absolute |-> TRUE, exists |-> l.exists, dir |-> l.dir,
   metadataOk |-> l.metadataOk, writeBit |-> l.writeBit, writable |-> l.writable]

(* What validate_ipfs_cache_location returns.                             *)
Validated(l) == IF IsRedis(l) THEN l ELSE Canonical(l)

(* try_from: the location first (transpose()? returns its error), then    *)
(* the struct, where entity_cache_size_in_kb * 1000 is a usize product.    *)
TryFrom ==
  /\ phase = "Start"
  /\ phase' = "Done"
  /\ \/ /\ \E l \in location : ~Valid(l)
        /\ result' = [status |-> "Err", cacheSize |-> 0, location |-> {}]
     \/ /\ \A l \in location : Valid(l)
        /\ LET loc == {Validated(l) : l \in location}
           IN  \/ /\ kb * 1000 <= UsizeMax
                  /\ result' = [status |-> "Ok", cacheSize |-> kb * 1000, location |-> loc]
               \/ /\ kb * 1000 > UsizeMax
                  /\ \/ result' = [status |-> "Panic", cacheSize |-> 0, location |-> {}]
                     \/ result' = [status |-> "Ok", cacheSize |-> (kb * 1000) % UsizeModulus,
                                   location |-> loc]
  /\ UNCHANGED <<kb, location>>

Next == TryFrom

Spec == Init /\ [][Next]_vars

-----------------------------------------------------------------------------
(***************************************************************************)
(* What the error message of validate_ipfs_cache_location says: a local   *)
(* cache location the node accepts is a directory it can write to.         *)
(***************************************************************************)
AcceptedLocationWritable ==
  result.status = "Ok" => \A l \in location : IsRedis(l) \/ l.writable
=============================================================================
