----------------------------- MODULE TripleStore -----------------------------
(***************************************************************************)
(* The in-memory backend (store/mod.rs, struct TripleStore): three         *)
(* redundant adjacency maps and a counter.                                 *)
(*                                                                         *)
(* A map is a function whose domain is exactly the set of keys present in  *)
(* the BTreeMap, an empty Vec being a key mapped to {}.  A sorted Vec      *)
(* without repetitions is the set of its pairs, so binary_search, insert   *)
(* at the found position and sort_unstable + dedup are set operations; its *)
(* length is the set's cardinality.                                        *)
(***************************************************************************)
EXTENDS Naturals, FiniteSets

CONSTANTS Ids, Preds

VARIABLES s2po,          \* sub  -> {<<pred, obj>>}
          o2ps,          \* obj  -> {<<pred, sub>>}
          p2so,          \* pred -> {<<sub, obj>>}
          triple_count,
          reply          \* result of the last insert / remove

vars == <<s2po, o2ps, p2so, triple_count, reply>>

Triples == Ids \X Preds \X Ids

(* m.get(&k), None read as the empty slice. *)
Adj(m, k) == IF k \in DOMAIN m THEN m[k] ELSE {}

(* sorted_insert(m.entry(k).or_default(), v) *)
Put(m, k, v) ==
  [x \in DOMAIN m \cup {k} |-> IF x = k THEN Adj(m, k) \cup {v} ELSE m[x]]

(* if let Some(vec) = m.get_mut(&k) { sorted_remove(vec, v) } *)
Take(m, k, v) ==
  [x \in DOMAIN m |-> IF x = k THEN m[k] \ {v} ELSE m[x]]

(* One of the three tests of prune_empty. *)
prune_empty(m, k) ==
  IF k \in DOMAIN m /\ m[k] = {}
    THEN [x \in DOMAIN m \ {k} |-> m[x]]
    ELSE m

-----------------------------------------------------------------------------
new == /\ s2po = [x \in {} |-> {}]
       /\ o2ps = [x \in {} |-> {}]
       /\ p2so = [x \in {} |-> {}]
       /\ triple_count = 0
       /\ reply = FALSE

insert(s, p, o) ==
  /\ s2po' = Put(s2po, s, <<p, o>>)
  /\ IF <<p, o>> \notin Adj(s2po, s)
       THEN /\ o2ps' = Put(o2ps, o, <<p, s>>)
            /\ p2so' = Put(p2so, p, <<s, o>>)
            /\ triple_count' = triple_count + 1
            /\ reply' = TRUE
       ELSE UNCHANGED <<o2ps, p2so, triple_count>> /\ reply' = FALSE

(* Faulty: removing an absent triple is reported as a removal. *)
remove_always_true(s, p, o) ==
  /\ reply' = TRUE
  /\ IF <<p, o>> \in Adj(s2po, s)
       THEN /\ s2po' = prune_empty(Take(s2po, s, <<p, o>>), s)
            /\ o2ps' = prune_empty(Take(o2ps, o, <<p, s>>), o)
            /\ p2so' = prune_empty(Take(p2so, p, <<s, o>>), p)
            /\ triple_count' = triple_count - 1
       ELSE UNCHANGED <<s2po, o2ps, p2so, triple_count>>

remove(s, p, o) ==
  IF <<p, o>> \in Adj(s2po, s)
    THEN /\ s2po' = prune_empty(Take(s2po, s, <<p, o>>), s)
         /\ o2ps' = prune_empty(Take(o2ps, o, <<p, s>>), o)
         /\ p2so' = prune_empty(Take(p2so, p, <<s, o>>), p)
         /\ triple_count' = triple_count - 1
         /\ reply' = TRUE
    ELSE UNCHANGED <<s2po, o2ps, p2so, triple_count>> /\ reply' = FALSE

(* The pairs of all lists of a map, each with its key: the sum of the      *)
(* lengths of the lists is the number of elements.                         *)
Entries(m) == UNION {{<<k, v>> : v \in m[k]} : k \in DOMAIN m}

(* Push the keyed pairs E onto their lists, then sort and dedup each list. *)
Merge(m, E) ==
  [k \in DOMAIN m \cup {e[1] : e \in E} |->
     Adj(m, k) \cup {e[2] : e \in {f \in E : f[1] = k}}]

(* Faulty: the input is counted, present triples included. *)
bulk_load_count_input(T) ==
  /\ s2po' = Merge(s2po, {<<t[1], <<t[2], t[3]>>>> : t \in T})
  /\ o2ps' = Merge(o2ps, {<<t[3], <<t[2], t[1]>>>> : t \in T})
  /\ p2so' = Merge(p2so, {<<t[2], <<t[1], t[3]>>>> : t \in T})
  /\ triple_count' = triple_count + Cardinality(T)
  /\ UNCHANGED reply

(* The count is taken from s2po after the lists are de-duplicated. *)
bulk_load(T) ==
  /\ s2po' = Merge(s2po, {<<t[1], <<t[2], t[3]>>>> : t \in T})
  /\ o2ps' = Merge(o2ps, {<<t[3], <<t[2], t[1]>>>> : t \in T})
  /\ p2so' = Merge(p2so, {<<t[2], <<t[1], t[3]>>>> : t \in T})
  /\ triple_count' = Cardinality(Entries(s2po'))
  /\ UNCHANGED reply

Next ==
  \/ \E s, o \in Ids, p \in Preds : insert(s, p, o) \/ remove(s, p, o)
  \/ \E T \in SUBSET Triples : IsFiniteSet(T) /\ bulk_load(T)

Spec == new /\ [][Next]_vars

-----------------------------------------------------------------------------
(* Access patterns. *)

exists(s, p, o) == <<p, o>> \in Adj(s2po, s)
po_by_s(s) == Adj(s2po, s)
o_by_sp(s, p) == {v[2] : v \in {w \in Adj(s2po, s) : w[1] = p}}
p_by_so(s, o) == {v[1] : v \in {w \in Adj(s2po, s) : w[2] = o}}
ps_by_o(o) == Adj(o2ps, o)
s_by_po(p, o) == {v[2] : v \in {w \in Adj(o2ps, o) : w[1] = p}}
so_by_p(p) == Adj(p2so, p)
subs_by_p(p) == {v[1] : v \in so_by_p(p)}
objs_by_p(p) == {v[2] : v \in so_by_p(p)}
iter_all == UNION {{<<v[1], p, v[2]>> : v \in p2so[p]} : p \in DOMAIN p2so}

Patterns ==
  [exists |-> [t \in Triples |-> exists(t[1], t[2], t[3])],
   po_by_s |-> [s \in Ids |-> po_by_s(s)],
   o_by_sp |-> [x \in Ids \X Preds |-> o_by_sp(x[1], x[2])],
   p_by_so |-> [x \in Ids \X Ids |-> p_by_so(x[1], x[2])],
   ps_by_o |-> [o \in Ids |-> ps_by_o(o)],
   s_by_po |-> [x \in Preds \X Ids |-> s_by_po(x[1], x[2])],
   so_by_p |-> [p \in Preds |-> so_by_p(p)],
   subs_by_p |-> [p \in Preds |-> subs_by_p(p)],
   objs_by_p |-> [p \in Preds |-> objs_by_p(p)],
   subject_keys |-> DOMAIN s2po,
   object_keys |-> DOMAIN o2ps,
   iter_all |-> iter_all]

(* Statistics.  so_by_p is sorted by subject, so the count of changes of   *)
(* the first component is the number of distinct subjects.                 *)
Statistics ==
  [triple_count |-> triple_count,
   distinct_subjects |-> Cardinality(DOMAIN s2po),
   distinct_objects |-> Cardinality(DOMAIN o2ps),
   num_predicates |-> Cardinality(DOMAIN p2so),
   pred_card |-> [p \in Preds |-> Cardinality(so_by_p(p))],
   pred_distinct_subj |-> [p \in Preds |-> Cardinality(subs_by_p(p))],
   pred_distinct_obj |-> [p \in Preds |-> Cardinality(objs_by_p(p))]]

-----------------------------------------------------------------------------
(* The triples the subject index holds: what the store stands for. *)
Held == {t \in Triples : <<t[2], t[3]>> \in Adj(s2po, t[1])}

Contract == INSTANCE TripleSet WITH triples <- Held, reply <- reply

IsMap(m, Keys, Values) ==
  /\ DOMAIN m \subseteq Keys
  /\ m \in [DOMAIN m -> SUBSET Values]

(* Keys and pairs of the right kind, and a counter that is never negative. *)
TypeOK ==
  /\ IsMap(s2po, Ids, Preds \X Ids)
  /\ IsMap(o2ps, Ids, Preds \X Ids)
  /\ IsMap(p2so, Preds, Ids \X Ids)
  /\ triple_count \in Nat
  /\ reply \in BOOLEAN

(* The three maps hold the same triples: what one insert, remove or        *)
(* bulk_load does to one of them it does to the others.                    *)
IndexesAgree ==
  \A s, o \in Ids, p \in Preds :
    /\ <<p, o>> \in Adj(s2po, s) <=> <<p, s>> \in Adj(o2ps, o)
    /\ <<p, o>> \in Adj(s2po, s) <=> <<s, o>> \in Adj(p2so, p)

(* No key is left with an empty list (prune_empty): subject_keys,          *)
(* object_keys and the distinct counts read the key sets.                  *)
NoEmptyLists ==
  /\ \A k \in DOMAIN s2po : s2po[k] # {}
  /\ \A k \in DOMAIN o2ps : o2ps[k] # {}
  /\ \A k \in DOMAIN p2so : p2so[k] # {}

(* triple_count is the number of triples, however they came and went:      *)
(* duplicate inserts, removals of absent triples and reloads of what is    *)
(* already there included.                                                 *)
CountIsExact == IsFiniteSet(Held) /\ triple_count = Cardinality(Held)

(* Every access pattern, whichever of the three maps it reads, and every   *)
(* statistic returns what the set of stored triples determines.            *)
ReadsAgree == Patterns = Contract!Patterns /\ Statistics = Contract!Statistics

(* The store implements the contract: each call changes the set of triples *)
(* as the contract says and returns whether it did.                        *)
Implements == Contract!Spec
=============================================================================
