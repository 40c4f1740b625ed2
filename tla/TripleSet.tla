------------------------------ MODULE TripleSet ------------------------------
(***************************************************************************)
(* The contract of a storage backend (traits TripleSource and MutableStore *)
(* of store/mod.rs): a set of id-triples.  The mutations return whether    *)
(* they changed it; every access pattern and every optimizer statistic is  *)
(* a function of it.  The three backends (TripleStore, RocksStore,         *)
(* DiskStore) are compared with this module.                               *)
(*                                                                         *)
(* Lists returned by the traits are sets here: the order of a result is    *)
(* not part of the contract (the backends differ in it).                   *)
(***************************************************************************)
EXTENDS Naturals, FiniteSets

CONSTANTS Ids,    \* entity and literal ids (EntityLiteralId)
          Preds   \* predicate ids (PredId)

VARIABLES triples,  \* the stored triples, as <<sub, pred, obj>>
          reply     \* what the last insert or remove returned

vars == <<triples, reply>>

Triples == Ids \X Preds \X Ids

-----------------------------------------------------------------------------
(* TripleSource: the access patterns. *)

po_by_s(s) == {<<t[2], t[3]>> : t \in {u \in triples : u[1] = s}}
o_by_sp(s, p) == {t[3] : t \in {u \in triples : u[1] = s /\ u[2] = p}}
p_by_so(s, o) == {t[2] : t \in {u \in triples : u[1] = s /\ u[3] = o}}
ps_by_o(o) == {<<t[2], t[1]>> : t \in {u \in triples : u[3] = o}}
s_by_po(p, o) == {t[1] : t \in {u \in triples : u[2] = p /\ u[3] = o}}
so_by_p(p) == {<<t[1], t[3]>> : t \in {u \in triples : u[2] = p}}
subs_by_p(p) == {t[1] : t \in {u \in triples : u[2] = p}}
objs_by_p(p) == {t[3] : t \in {u \in triples : u[2] = p}}
subject_keys == {t[1] : t \in triples}
object_keys == {t[3] : t \in triples}
predicates == {t[2] : t \in triples}

(* Everything a reader can be told, one field per method. *)
Patterns ==
  [exists |-> [t \in Triples |-> t \in triples],
   po_by_s |-> [s \in Ids |-> po_by_s(s)],
   o_by_sp |-> [x \in Ids \X Preds |-> o_by_sp(x[1], x[2])],
   p_by_so |-> [x \in Ids \X Ids |-> p_by_so(x[1], x[2])],
   ps_by_o |-> [o \in Ids |-> ps_by_o(o)],
   s_by_po |-> [x \in Preds \X Ids |-> s_by_po(x[1], x[2])],
   so_by_p |-> [p \in Preds |-> so_by_p(p)],
   subs_by_p |-> [p \in Preds |-> subs_by_p(p)],
   objs_by_p |-> [p \in Preds |-> objs_by_p(p)],
   subject_keys |-> subject_keys,
   object_keys |-> object_keys,
   iter_all |-> triples]

(* The statistics the cost-based optimizer reads. *)
Statistics ==
  [triple_count |-> Cardinality(triples),
   distinct_subjects |-> Cardinality(subject_keys),
   distinct_objects |-> Cardinality(object_keys),
   num_predicates |-> Cardinality(predicates),
   pred_card |-> [p \in Preds |-> Cardinality(so_by_p(p))],
   pred_distinct_subj |-> [p \in Preds |-> Cardinality(subs_by_p(p))],
   pred_distinct_obj |-> [p \in Preds |-> Cardinality(objs_by_p(p))]]

-----------------------------------------------------------------------------
(* MutableStore. *)

Init == triples = {} /\ reply = FALSE

Insert(t) == triples' = triples \cup {t} /\ reply' = (t \notin triples)

Remove(t) == triples' = triples \ {t} /\ reply' = (t \in triples)

BulkLoad(T) == triples' = triples \cup T /\ UNCHANGED reply

Next == \/ \E t \in Triples : Insert(t) \/ Remove(t)
        \/ \E T \in SUBSET Triples : BulkLoad(T)

Spec == Init /\ [][Next]_vars
=============================================================================
