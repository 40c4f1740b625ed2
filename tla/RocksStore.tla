----------------------------- MODULE RocksStore -----------------------------
(***************************************************************************)
(* The persistent backend (backend/rocks.rs): three key orders of the      *)
(* triples and a column family of reference counts, changed together by    *)
(* one WriteBatch per triple, and a cache of the four global counts.       *)
(*                                                                         *)
(* RocksDB is external: a WriteBatch over several column families is       *)
(* applied atomically, and a power loss drops the batches written after    *)
(* the last synchronisation (the code writes without sync and never syncs  *)
(* except by flush).                                                       *)
(***************************************************************************)
EXTENDS Naturals, FiniteSets, Functions

CONSTANTS Ids, Preds,
          Batches   \* bound: the sets of triples bulk_load is given

\* bulk_load is given ids of the two dictionaries.
BatchesAssumption == Batches \subseteq SUBSET (Ids \X Preds \X Ids)

VARIABLES db,       \* what reads see: the column families
          disk,     \* what a power loss leaves
          cache,    \* the in-memory copies of the global counters
          loading,  \* triples bulk_load still has to insert
          reply     \* result of the last insert / remove

vars == <<db, disk, cache, loading, reply>>

Triples == Ids \X Preds \X Ids

(* Keys of the column families; stats keys are tagged. *)
Empty == [spo |-> {}, pos |-> {}, osp |-> {}, stats |-> [k \in {} |-> 0]]

get_u64(d, k) == IF k \in DOMAIN d.stats THEN d.stats[k] ELSE 0

(* The four global counters as they are stored, and as open reads them. *)
GlobalKeys == {"T", "P", "S", "O"}
Globals(d) == [g \in GlobalKeys |-> get_u64(d, <<g>>)]

-----------------------------------------------------------------------------
(* Mutation. *)

contains_ids(t) == t \in db.spo

(* The five reference counts one triple holds up. *)
Counted(s, p, o) == {<<"c", p>>, <<"s", s>>, <<"o", o>>, <<"x", p, s>>, <<"y", p, o>>}

(* step: a counter moves by one; a counter that reaches zero is deleted.   *)
(* It reads the database, not the batch, so no key may be stepped twice.   *)
step(k, up) == IF up THEN get_u64(db, k) + 1 ELSE get_u64(db, k) - 1

(* The count at which a key's distinct count moves: 0 before an increment, *)
(* 1 before a decrement (old = 0, respectively new = 0).                   *)
edge(up) == IF up THEN 0 ELSE 1

(* The keys stepped for a triple: its reference counts, and the predicate's *)
(* distinct counts on a transition of the (pred, subj) / (pred, obj) count. *)
Stepped(s, p, o, up) ==
  Counted(s, p, o)
    \cup {k \in {<<"u", p>>} : get_u64(db, <<"x", p, s>>) = edge(up)}
    \cup {k \in {<<"v", p>>} : get_u64(db, <<"y", p, o>>) = edge(up)}

(* The global counters that move, and how. *)
MovedGlobals(s, p, o, up) ==
  {"T"} \cup {g \in {"P"} : get_u64(db, <<"c", p>>) = edge(up)}
        \cup {g \in {"S"} : get_u64(db, <<"s", s>>) = edge(up)}
        \cup {g \in {"O"} : get_u64(db, <<"o", o>>) = edge(up)}

NewCache(s, p, o, up) ==
  [g \in GlobalKeys |->
     IF g \notin MovedGlobals(s, p, o, up) THEN cache[g]
     ELSE IF up THEN cache[g] + 1 ELSE cache[g] - 1]

(* The stats column family after the batch. *)
NewStats(s, p, o, up) ==
  LET moved == {<<g>> : g \in MovedGlobals(s, p, o, up)}
      stepped == Stepped(s, p, o, up)
      kept == {k \in DOMAIN db.stats \cup stepped :
                 k \in stepped => step(k, up) # 0}
  IN  [k \in kept \cup moved |->
         IF k \in moved THEN NewCache(s, p, o, up)[k[1]]
         ELSE IF k \in stepped THEN step(k, up)
         ELSE db.stats[k]]

(* insert_ids past its test: one batch, and the cached counters. *)
PutBatch(s, p, o) ==
  /\ db' = [spo |-> db.spo \cup {<<s, p, o>>},
            pos |-> db.pos \cup {<<p, o, s>>},
            osp |-> db.osp \cup {<<o, s, p>>},
            stats |-> NewStats(s, p, o, TRUE)]
  /\ cache' = NewCache(s, p, o, TRUE)

insert_ids(s, p, o) ==
  IF contains_ids(<<s, p, o>>) THEN UNCHANGED <<db, cache>> ELSE PutBatch(s, p, o)

remove_ids(s, p, o) ==
  IF contains_ids(<<s, p, o>>)
    THEN /\ db' = [spo |-> db.spo \ {<<s, p, o>>},
                   pos |-> db.pos \ {<<p, o, s>>},
                   osp |-> db.osp \ {<<o, s, p>>},
                   stats |-> NewStats(s, p, o, FALSE)]
         /\ cache' = NewCache(s, p, o, FALSE)
    ELSE UNCHANGED <<db, cache>>

insert(s, p, o) ==
  /\ loading = {}
  /\ insert_ids(s, p, o)
  /\ reply' = ~contains_ids(<<s, p, o>>)
  /\ UNCHANGED <<disk, loading>>

\* Faulty: removing an absent triple is reported as a removal.
remove_always_true(s, p, o) ==
  /\ loading = {}
  /\ remove_ids(s, p, o)
  /\ reply' = TRUE
  /\ UNCHANGED <<disk, loading>>

remove(s, p, o) ==
  /\ loading = {}
  /\ remove_ids(s, p, o)
  /\ reply' = contains_ids(<<s, p, o>>)
  /\ UNCHANGED <<disk, loading>>

(* bulk_load is a loop of insert_ids, one batch each. *)
bulk_load(T) ==
  /\ loading = {} /\ T # {}
  /\ loading' = T
  /\ UNCHANGED <<db, disk, cache, reply>>

bulk_load_next(s, p, o) ==
  /\ <<s, p, o>> \in loading
  /\ insert_ids(s, p, o)
  /\ loading' = loading \ {<<s, p, o>>}
  /\ UNCHANGED <<disk, reply>>

-----------------------------------------------------------------------------
(* Durability. *)

(* RocksDB writes out its log and memtables, by itself or through flush, which
   asks for the default column family only: the claims count on neither. *)
flush == disk' = db /\ UNCHANGED <<db, cache, loading, reply>>

(* A power loss, and open: the global counters are read back. *)
open ==
  /\ db' = disk
  /\ cache' = Globals(disk)
  /\ loading' = {}
  /\ UNCHANGED <<disk, reply>>

Init ==
  /\ db = Empty /\ disk = Empty
  /\ cache = Globals(Empty)
  /\ loading = {} /\ reply = FALSE

Next ==
  \/ \E s, o \in Ids, p \in Preds :
       insert(s, p, o) \/ remove(s, p, o) \/ bulk_load_next(s, p, o)
  \/ \E T \in Batches : bulk_load(T)
  \/ flush \/ open

Spec == Init /\ [][Next]_vars

-----------------------------------------------------------------------------
(* Reads. *)

(* ids_under(tag): the ids of the live counters with this tag. *)
ids_under(tag) == {k[2] : k \in {j \in DOMAIN db.stats : j[1] = tag}}
predicates == ids_under("c")

Patterns ==
  [exists |-> [t \in Triples |-> contains_ids(t)],
   po_by_s |-> [s \in Ids |-> {<<k[2], k[3]>> : k \in {j \in db.spo : j[1] = s}}],
   o_by_sp |-> [x \in Ids \X Preds |->
                  {k[3] : k \in {j \in db.spo : j[1] = x[1] /\ j[2] = x[2]}}],
   p_by_so |-> [x \in Ids \X Ids |->
                  {k[3] : k \in {j \in db.osp : j[1] = x[2] /\ j[2] = x[1]}}],
   ps_by_o |-> [o \in Ids |-> {<<k[3], k[2]>> : k \in {j \in db.osp : j[1] = o}}],
   s_by_po |-> [x \in Preds \X Ids |->
                  {k[3] : k \in {j \in db.pos : j[1] = x[1] /\ j[2] = x[2]}}],
   so_by_p |-> [p \in Preds |-> {<<k[3], k[2]>> : k \in {j \in db.pos : j[1] = p}}],
   subs_by_p |-> [p \in Preds |-> {k[3] : k \in {j \in db.pos : j[1] = p}}],
   objs_by_p |-> [p \in Preds |-> {k[2] : k \in {j \in db.pos : j[1] = p}}],
   subject_keys |-> ids_under("s"),
   object_keys |-> ids_under("o"),
   iter_all |-> db.spo]

Statistics ==
  [triple_count |-> cache["T"],
   distinct_subjects |-> cache["S"],
   distinct_objects |-> cache["O"],
   num_predicates |-> cache["P"],
   pred_card |-> [p \in Preds |-> get_u64(db, <<"c", p>>)],
   pred_distinct_subj |-> [p \in Preds |-> get_u64(db, <<"u", p>>)],
   pred_distinct_obj |-> [p \in Preds |-> get_u64(db, <<"v", p>>)]]

-----------------------------------------------------------------------------
Contract == INSTANCE TripleSet WITH triples <- db.spo, reply <- reply

TypeOK ==
  /\ db.spo \subseteq Triples /\ disk.spo \subseteq Triples
  /\ db.stats \in [DOMAIN db.stats -> Nat]
  /\ cache \in [GlobalKeys -> Nat]
  /\ loading \subseteq Triples
  /\ reply \in BOOLEAN

(* No counter is ever stepped below zero (old - 1 on a u64), and reference *)
(* counting keeps everything exact: every access pattern, from whichever   *)
(* key order or counter prefix it is scanned, and every optimizer          *)
(* statistic is what the stored triples determine - after removals, in a   *)
(* half-done bulk load and after a power loss too.                         *)
ReadsAgree ==
  /\ TypeOK
  /\ Patterns = Contract!Patterns /\ predicates = Contract!predicates
  /\ Statistics = Contract!Statistics

(* Calls change the set of triples as the backend contract says; only a    *)
(* power loss goes back, to a state synchronised earlier.                  *)
ImplementsContract == [][Contract!Next \/ db' = disk]_(Contract!vars)

(* The RocksDB store's reference counts never go below zero, and its reads *)
(* and statistics, from whichever key order or counter prefix, are what    *)
(* the stored triples determine - after removals, in a half-done bulk load *)
(* and after a power loss too. insert, remove and bulk_load change the set *)
(* of triples as the traits say and report it; only a power loss goes      *)
(* back, to a synchronised state.                                          *)
RocksImplements == []ReadsAgree /\ ImplementsContract
=============================================================================
