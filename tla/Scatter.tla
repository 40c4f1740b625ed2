------------------------------ MODULE Scatter ------------------------------
(***************************************************************************)
(* src/cluster.rs: the requests a shard answers (dispatch) and the reads   *)
(* that gather the answers of all shards. A triple is <<sub, pred, obj>>;  *)
(* the sorted, duplicate-free lists of the code are sets. A shard that did *)
(* not answer counts as an empty one: the caller gives it the store {}.    *)
(***************************************************************************)
EXTENDS Integers, Sequences, SequencesExt, FiniteSets, FiniteSetsExt, Functions

-----------------------------------------------------------------------------
\* dispatch: the answer of one shard to a read.
dispatch(store, req) ==
  LET has(s, p, o) == <<s, p, o>> \in store
      subs == {t[1] : t \in store}
      preds == {t[2] : t \in store}
      objs == {t[3] : t \in store}
  IN  CASE req.kind = "Exists" -> [kind |-> "Bool", val |-> has(req.sub, req.pred, req.obj)]
        [] req.kind = "PoByS" -> [kind |-> "Pairs", val |-> {<<t[2], t[3]>> : t \in {u \in store : u[1] = req.sub}}]
        [] req.kind = "OBySp" -> [kind |-> "Ids", val |-> {o \in objs : has(req.sub, req.pred, o)}]
        [] req.kind = "PBySo" -> [kind |-> "Ids", val |-> {p \in preds : has(req.sub, p, req.obj)}]
        [] req.kind = "PsByO" -> [kind |-> "Pairs", val |-> {<<t[2], t[1]>> : t \in {u \in store : u[3] = req.obj}}]
        [] req.kind = "SByPo" -> [kind |-> "Ids", val |-> {s \in subs : has(s, req.pred, req.obj)}]
        [] req.kind = "SoByP" -> [kind |-> "Pairs", val |-> {<<t[1], t[3]>> : t \in {u \in store : u[2] = req.pred}}]
        [] req.kind = "SubsByP" -> [kind |-> "Ids", val |-> {s \in subs : \E o \in objs : has(s, req.pred, o)}]
        [] req.kind = "ObjsByP" -> [kind |-> "Ids", val |-> {o \in objs : \E s \in subs : has(s, req.pred, o)}]
        [] req.kind = "SubjectKeys" -> [kind |-> "Ids", val |-> subs]
        [] req.kind = "ObjectKeys" -> [kind |-> "Ids", val |-> objs]
        [] req.kind = "Predicates" -> [kind |-> "Ids", val |-> preds]
        [] req.kind = "TripleCount" -> [kind |-> "Count", val |-> Cardinality(store)]
        [] req.kind = "PredCard" -> [kind |-> "Count", val |-> Cardinality({t \in store : t[2] = req.pred})]

\* from_triples: each triple to the shard of its subject.
from_triples(shards, triples, shard_of) == [i \in shards |-> {t \in triples : shard_of[t[1]] = i}]

-----------------------------------------------------------------------------
\* The reads over shards, a function from any index to a store.

answers(shards, req) == [i \in DOMAIN shards |-> dispatch(shards[i], req).val]
sort_dedup(lists) == UNION Range(lists)
\* Counts are added up: a triple that is on two shards counts twice.
sum(counts) == FoldSet(LAMBDA i, acc : acc + counts[i], 0, DOMAIN counts)
\* The answers of the shards put together.
gathered(req, vals) ==
  CASE req.kind = "Exists" -> TRUE \in Range(vals)
    [] req.kind \in {"TripleCount", "PredCard"} -> sum(vals)
    [] OTHER -> sort_dedup(vals)
gather(shards, req) == gathered(req, answers(shards, req))
distinct_objects(shards) == Cardinality(gather(shards, [kind |-> "ObjectKeys"]))
distinct_subjects(shards) == Cardinality(gather(shards, [kind |-> "SubjectKeys"]))
num_predicates(shards) == Cardinality(gather(shards, [kind |-> "Predicates"]))
\* iter_all, predicate after predicate: the subjects and objects of each.
iter_all(shards) ==
  LET preds == SetToSortSeq(gather(shards, [kind |-> "Predicates"]), <)
      pairs(p) == SetToSortSeq(gather(shards, [kind |-> "SoByP", pred |-> p]),
                               LAMBDA x, y : x[1] < y[1] \/ (x[1] = y[1] /\ x[2] < y[2]))
      row(p) == [i \in DOMAIN pairs(p) |-> <<pairs(p)[i][1], p, pairs(p)[i][2]>>]
  IN  FlattenSeq([i \in DOMAIN preds |-> row(preds[i])])

-----------------------------------------------------------------------------
\* The single store a sharded one stands for.

Reads(ids, preds) ==
  {[kind |-> k] : k \in {"SubjectKeys", "ObjectKeys", "TripleCount"}}
    \cup [kind : {"Exists"}, sub : ids, pred : preds, obj : ids]
    \cup [kind : {"PoByS"}, sub : ids] \cup [kind : {"PsByO"}, obj : ids]
    \cup [kind : {"OBySp"}, sub : ids, pred : preds] \cup [kind : {"PBySo"}, sub : ids, obj : ids]
    \cup [kind : {"SByPo"}, pred : preds, obj : ids]
    \cup [kind : {"SoByP", "SubsByP", "ObjsByP", "PredCard"}, pred : preds]
IsOrdered(triples) ==
  \A i \in 1..(Len(triples) - 1) :
    LET t == triples[i]
        u == triples[i + 1]
    IN  t[2] < u[2] \/ (t[2] = u[2] /\ (t[1] < u[1] \/ (t[1] = u[1] /\ t[3] < u[3])))
\* Every read over the shards is that of one store with all their triples.
SameAsSingle(shards, store, ids, preds) ==
  /\ \A req \in Reads(ids, preds) : gather(shards, req) = dispatch(store, req).val
  /\ distinct_subjects(shards) = Cardinality({t[1] : t \in store})
  /\ distinct_objects(shards) = Cardinality({t[3] : t \in store})
  /\ num_predicates(shards) = Cardinality({t[2] : t \in store})
  /\ ToSet(iter_all(shards)) = store /\ IsOrdered(iter_all(shards))
=============================================================================
