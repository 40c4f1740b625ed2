------------------------------ MODULE Backend ------------------------------
(***************************************************************************)
(* store/mod.rs: enum Backend, the store a Database holds.  It is the      *)
(* in-memory store or the RocksDB one, chosen when the database is built   *)
(* or opened, and every call is dispatched to the variant that is there.   *)
(* The module extends the in-memory store and instantiates the other.      *)
(***************************************************************************)
EXTENDS TripleStore, TLC

CONSTANT Batches     \* bound: what the RocksDB store is bulk loaded with

VARIABLES variant,   \* "Memory" or "Rocks"
          db, disk, cache, loading, rocks_reply

rocks_vars == <<db, disk, cache, loading, rocks_reply>>

Rocks == INSTANCE RocksStore WITH reply <- rocks_reply

ASSUME InstanceAssumption == Rocks!BatchesAssumption

BackendInit == variant \in {"Memory", "Rocks"} /\ new /\ Rocks!Init

\* backend_dispatch!
BackendNext ==
  \/ variant = "Memory" /\ Next /\ UNCHANGED <<variant, rocks_vars>>
  \/ variant = "Rocks" /\ Rocks!Next /\ UNCHANGED <<variant, vars>>

BackendSpec == BackendInit /\ [][BackendNext]_<<variant, vars, rocks_vars>>

-----------------------------------------------------------------------------
(* What the RocksDB variant promises; TripleStore states it for the other. *)

(* The RocksDB store's reference counts never go below zero, and its reads *)
(* and statistics, from whichever key order or counter prefix, are what    *)
(* the stored triples determine - after removals, in a half-done bulk load *)
(* and after a power loss too. insert, remove and bulk_load change the set *)
(* of triples as the traits say and report it; only a power loss goes      *)
(* back, to a synchronised state.                                          *)
RocksImplements == Rocks!RocksImplements

-----------------------------------------------------------------------------
(* The instance. Two ids in either role and two predicates: every set of   *)
(* triples of the in-memory store is reached, and shared subjects, objects *)
(* and pairs.                                                              *)

\* Two triples that differ in the predicate only: the second insertion of a
\* bulk load steps the counters the first one created.
Parallel == {{<<s, p, o>> : p \in Preds} : s, o \in Ids}

Symmetric == Permutations(Ids) \cup Permutations(Preds)
=============================================================================
