------------------------------- MODULE Query -------------------------------
(***************************************************************************)
(* src/query/engine.rs: Evaluator, which answers a query over a dictionary *)
(* and a triple store. It computes with ids: a binding maps every variable *)
(* of the query to an id or to Unbound, and solutions are sequences of     *)
(* bindings. Nodes and predicates have ids of their own, which overlap;    *)
(* a computed term that is no node gets a synthetic id.                    *)
(*                                                                         *)
(* The graphs grow by inserting triples (module Database has the updates   *)
(* in detail; what a removal leaves is reached by insertions too); the     *)
(* dictionary knows exactly the terms in use. Answers are functions of the *)
(* state, to be compared with module Sparql.                               *)
(***************************************************************************)
EXTENDS Sparql, JoinOrder

CONSTANTS
  Triples,     \* bound: triples of terms that the default graph can hold
  Quads,       \* bound: <<name, triple>> that the named graphs can hold
  GraphNames,  \* terms that name graphs
  PRED_FIRST   \* predicates are the terms above it; PRED_FIRST + i has id i

VARIABLES
  default,     \* triples of the default graph
  named        \* graph name -> triples

vars == <<default, named>>

Init == default = {} /\ named = [n \in GraphNames |-> {}]
insert(t) == t \notin default /\ default' = default \cup {t} /\ UNCHANGED named
insert_quad(n, t) == t \notin named[n] /\ named' = [named EXCEPT ![n] = @ \cup {t}] /\ UNCHANGED default
Next ==
  \/ \E t \in Triples : insert(t)
  \/ \E d \in Quads : insert_quad(d[1], d[2])
Spec == Init /\ [][Next]_vars

-----------------------------------------------------------------------------
\* Dictionary and ids.

Unbound == 0
SYNTH_BASE == 1000
is_synth(id) == id >= SYNTH_BASE

\* An evaluator is [store, graphs, nodes, preds, vstree, cancelled]: the
\* id-triples it reads, those of the named graphs, the terms its dictionary
\* knows as nodes and as predicates, whether it has a VS-tree, and the
\* cancellation flag.
IdGraph(g) == {<<t[1], t[2] - PRED_FIRST, t[3]>> : t \in g}
Dataset == [default |-> default, named |-> named]
Graphs(D) == {D.default} \cup {D.named[n] : n \in GraphNames}
Evaluator(D, vstree, cancelled) ==
  [store |-> IdGraph(D.default), graphs |-> [n \in GraphNames |-> IdGraph(D.named[n])],
   nodes |-> UNION {Terms(g) : g \in Graphs(D)} \cup {n \in GraphNames : D.named[n] # {}},
   preds |-> {t[2] : t \in UNION Graphs(D)}, vstree |-> vstree, cancelled |-> cancelled]

live_graphs(ev) == {n \in DOMAIN ev.graphs : ev.graphs[n] # {}}
predicate_id(ev, t) == IF t \in ev.preds THEN t - PRED_FIRST ELSE Unbound
term_id(ev, t) == IF t \in ev.nodes THEN t ELSE Unbound
\* Extras::intern: one synthetic id per term.
intern(t) == SYNTH_BASE + t
\* A term that has an id keeps it.
term_to_id(ev, t) == IF t \in ev.nodes THEN t ELSE intern(t)

\* resolve_string, id_to_term, id_to_value.
resolve(id, is_pred) ==
  CASE id = Unbound -> Error
    [] is_synth(id) -> id - SYNTH_BASE
    [] is_pred -> PRED_FIRST + id
    [] OTHER -> id

\* GraphPattern::collect_vars and collect_triples: the variables of a pattern,
\* and those in predicate position. Neither looks inside a sub-SELECT.
result_vars(q) == {q.items[i].v : i \in DOMAIN q.items}
PositionVars(x) == {v \in x : IsVar(v)}
RECURSIVE collect_vars(_), pred_vars(_)
collect_vars(p) ==
  CASE p.k = "empty" -> {}
    [] p.k = "bgp" -> AllVars(p.tps)
    [] p.k = "path" -> PositionVars({p.s, p.o})
    [] p.k \in {"join", "union", "minus", "left_join"} -> collect_vars(p.a) \cup collect_vars(p.b)
    [] p.k \in {"filter", "service"} -> collect_vars(p.a)
    [] p.k = "extend" -> collect_vars(p.a) \cup {p.v}
    [] p.k = "values" -> p.vs
    [] p.k = "subselect" -> IF p.q.items = << >> THEN collect_vars(p.q.pattern) ELSE result_vars(p.q)
    [] p.k = "graph" -> PositionVars({p.g}) \cup collect_vars(p.a)
pred_vars(p) ==
  CASE p.k \in {"empty", "path", "values", "subselect"} -> {}
    [] p.k = "bgp" -> PositionVars({p.tps[i][2] : i \in DOMAIN p.tps})
    [] p.k \in {"join", "union", "minus", "left_join"} -> pred_vars(p.a) \cup pred_vars(p.b)
    [] OTHER -> pred_vars(p.a)
VarLayout(p) == [vars |-> collect_vars(p), is_pred |-> pred_vars(p)]
NoBinding(l) == [v \in l.vars |-> Unbound]

-----------------------------------------------------------------------------
\* Joins of solution sequences.

ProductSeq(left, right, Keep(_, _), Merge(_, _)) ==
  FlattenSeq([i \in DOMAIN left |->
    LET rs == SelectSeq(right, LAMBDA r : Keep(left[i], r))
    IN  [j \in DOMAIN rs |-> Merge(left[i], rs[j])]])

compatible(l, r) == \A v \in DOMAIN l : l[v] = Unbound \/ r[v] = Unbound \/ l[v] = r[v]
merge_bindings(l, r) == [v \in DOMAIN l |-> IF r[v] = Unbound THEN l[v] ELSE r[v]]

\* The rows of the right side by their key.
join_sets_hash(left, right, shared) ==
  LET key_of(b) == [v \in shared |-> b[v]]
      index == [k \in {key_of(right[i]) : i \in DOMAIN right} |-> SelectSeq(right, LAMBDA r : key_of(r) = k)]
  IN  FlattenSeq([i \in DOMAIN left |->
        LET k == key_of(left[i])
        IN  IF k \in DOMAIN index
            THEN ProductSeq(<<left[i]>>, index[k], compatible, merge_bindings) ELSE << >>])
join_sets_nested(left, right, shared) ==
  ProductSeq(left, right, LAMBDA l, r : (\A v \in shared : l[v] = r[v]) /\ compatible(l, r), merge_bindings)

join_sets(left, lvars, right, rvars) ==
  LET shared == lvars \cap rvars
      unbound_shared == \E v \in shared : \E b \in ToSet(left) \cup ToSet(right) : b[v] = Unbound
  IN  IF shared = {} \/ unbound_shared THEN ProductSeq(left, right, compatible, merge_bindings)
      ELSE IF judge(Len(left), Len(right)) = "Hash" THEN join_sets_hash(left, right, shared)
      ELSE join_sets_nested(left, right, shared)

eval_minus(left, lvars, right, rvars) ==
  LET shared == lvars \cap rvars
      drops(l, r) == /\ \E v \in shared : l[v] # Unbound /\ r[v] # Unbound
                     /\ \A v \in shared : l[v] # Unbound /\ r[v] # Unbound => l[v] = r[v]
  IN  SelectSeq(left, LAMBDA l : ~\E i \in DOMAIN right : drops(l, right[i]))

\* eval_join: the smallest part first, then the smallest that is connected.
\* The order of parts of equal size is not followed.
RECURSIVE join_parts(_, _, _)
join_parts(acc, avars, parts) ==
  LET rank(x) == <<IF x.vars \cap avars = {} THEN 1 ELSE 0, Len(x.rows)>>
      before(x, y) == x[1] < y[1] \/ (x[1] = y[1] /\ x[2] <= y[2])
      pick == CHOOSE i \in DOMAIN parts : \A j \in DOMAIN parts : before(rank(parts[i]), rank(parts[j]))
  IN  IF parts = << >> \/ acc = << >> THEN acc
      ELSE join_parts(join_sets(acc, avars, parts[pick].rows, parts[pick].vars),
                      avars \cup parts[pick].vars, RemoveAt(parts, pick))
eval_join(parts) ==
  LET start == CHOOSE i \in DOMAIN parts : \A j \in DOMAIN parts : Len(parts[i].rows) <= Len(parts[j].rows)
  IN  join_parts(parts[start].rows, parts[start].vars, RemoveAt(parts, start))
RECURSIVE flatten_join(_)
flatten_join(p) == IF p.k = "join" THEN flatten_join(p.a) \o flatten_join(p.b) ELSE <<p>>

-----------------------------------------------------------------------------
\* Basic graph patterns.

\* compile_pattern: positions of constants become ids, Unbound if there is none.
compile_pattern(ev, tp) ==
  <<IF IsVar(tp[1]) THEN tp[1] ELSE term_id(ev, tp[1]),
    IF IsVar(tp[2]) THEN tp[2] ELSE predicate_id(ev, tp[2]),
    IF IsVar(tp[3]) THEN tp[3] ELSE term_id(ev, tp[3])>>

slot_known(x, b) == IF IsSlotVar(x) THEN IF b[x] = Unbound THEN x ELSE b[x] ELSE x
cand_ok(x, id, cand) == x \in DOMAIN cand => id \in cand[x]
unify(b, pat, t) ==
  /\ \A i \in 1..3 : IsSlotVar(pat[i]) /\ b[pat[i]] # Unbound => b[pat[i]] = t[i]
  /\ \A i, j \in 1..3 : IsSlotVar(pat[i]) /\ pat[i] = pat[j] => t[i] = t[j]
\* extend: the bindings that one more pattern makes of b.
extend(ev, b, pat, cand) ==
  LET found == scan(ev.store, [i \in 1..3 |-> slot_known(pat[i], b)])
      kept == {t \in found : cand_ok(pat[1], t[1], cand) /\ cand_ok(pat[3], t[3], cand) /\ unify(b, pat, t)}
      Bound(t) == [v \in DOMAIN b |-> IF \E i \in 1..3 : pat[i] = v THEN t[CHOOSE i \in 1..3 : pat[i] = v] ELSE b[v]]
  IN  Enumerated({Bound(t) : t \in kept})

RECURSIVE eval_join_tree(_, _, _, _, _)
eval_join_tree(ev, tree, pats, cand, l) ==
  IF IsLeaf(tree)
  THEN [rows |-> extend(ev, NoBinding(l), pats[tree.leaf], cand), vars |-> plan_vars(pats[tree.leaf])]
  ELSE LET a == eval_join_tree(ev, tree.l, pats, cand, l)
           b == eval_join_tree(ev, tree.r, pats, cand, l)
       IN  IF a.rows = << >> THEN a
           ELSE [rows |-> join_sets(a.rows, a.vars, b.rows, b.vars), vars |-> a.vars \cup b.vars]

\* refine_candidates_with_vstree: the entities whose signature covers the edges
\* of a subject variable. The tree may return more, never fewer (VsTree).
vstree_candidates(ev, pats, v) ==
  LET Fits(s, pat) ==
        /\ pat[1] = v => \E t \in ev.store : t[1] = s /\ \A i \in {2, 3} : IsSlotVar(pat[i]) \/ pat[i] = t[i]
        /\ pat[3] = v => \E t \in ev.store : t[3] = s /\ \A i \in {1, 2} : IsSlotVar(pat[i]) \/ pat[i] = t[i]
  IN  {s \in Column(ev.store, 1) : \A i \in DOMAIN pats : Fits(s, pats[i])}
refine_candidates_with_vstree(ev, cand, pats) ==
  IF ~ev.vstree THEN cand
  ELSE FoldSet(LAMBDA v, c : intersect_into(c, v, vstree_candidates(ev, pats, v)), cand,
               PositionVars({pats[i][1] : i \in DOMAIN pats}))

\* eval_bgp_constrained; constraints as in refine_with_substrings.
eval_bgp_constrained(ev, tps, l, constraints) ==
  LET pats == [i \in DOMAIN tps |-> compile_pattern(ev, tps[i])]
      cand == refine_with_substrings(refine_candidates_with_vstree(ev, generate(pats, ev.store), pats),
                                     constraints, pats)
      chosen == optimize(ev.store, cand, pats, Cardinality(l.vars))
      Extended(rows, i) == FlattenSeq([j \in DOMAIN rows |-> extend(ev, rows[j], pats[i], cand)])
  IN  IF \E i \in DOMAIN pats : \E k \in 1..3 : pats[i][k] = Unbound THEN << >>
      ELSE IF pats = << >> THEN <<NoBinding(l)>>
      ELSE IF chosen.trees # {}
           THEN eval_join_tree(ev, CHOOSE x \in chosen.trees : TRUE, pats, cand, l).rows
      ELSE IF ev.cancelled THEN << >>
      ELSE FoldLeft(Extended, <<NoBinding(l)>>, chosen.order)

-----------------------------------------------------------------------------
\* Property paths.

RECURSIVE path_reach(_, _, _, _), path_closure(_, _, _, _, _)
\* Faulty: the start counts as visited even if the path must take a step.
path_closure_visited(ev, inner, reverse, frontier, out) ==
  LET next == UNION {path_reach(ev, inner, n, reverse) : n \in frontier} \ (out \cup frontier)
  IN  IF next = {} THEN out ELSE path_closure(ev, inner, reverse, next, out \cup next)
\* What is reachable beyond out, by further steps from the frontier.
path_closure(ev, inner, reverse, frontier, out) ==
  LET next == UNION {path_reach(ev, inner, n, reverse) : n \in frontier} \ out
  IN  IF next = {} THEN out ELSE path_closure(ev, inner, reverse, next, out \cup next)
\* A negated set bans, in the direction it is followed, the entries marked with
\* that direction: <<predicate, inverse>>.
path_reach(ev, e, start, reverse) ==
  LET from == IF reverse THEN 3 ELSE 1
      steps == {t \in ev.store : t[from] = start}
      banned == {predicate_id(ev, entry[1]) : entry \in {x \in e.ps : x[2] = reverse}}
  IN
  CASE e.k = "pred" -> Column({t \in steps : t[2] = predicate_id(ev, e.p)}, 4 - from)
    [] e.k = "inverse" -> path_reach(ev, e.a, start, ~reverse)
    [] e.k = "seq" -> UNION {path_reach(ev, IF reverse THEN e.a ELSE e.b, mid, reverse) :
                               mid \in path_reach(ev, IF reverse THEN e.b ELSE e.a, start, reverse)}
    [] e.k = "alt" -> path_reach(ev, e.a, start, reverse) \cup path_reach(ev, e.b, start, reverse)
    [] e.k = "zero_or_one" -> {start} \cup path_reach(ev, e.a, start, reverse)
    [] e.k = "zero_or_more" -> path_closure(ev, e.a, reverse, {start}, {start})
    [] e.k = "one_or_more" -> path_closure(ev, e.a, reverse, {start}, {})
    [] e.k = "negated" -> Column({t \in steps : t[2] \notin banned}, 4 - from)
\* path_pairs: from the subject, or else backwards from the object, or else
\* from every node of the store.
path_pairs(ev, e, s, o) ==
  CASE ~IsVar(s) -> {<<s, x>> : x \in {y \in path_reach(ev, e, s, FALSE) : IsVar(o) \/ y = o}}
    [] IsVar(s) /\ ~IsVar(o) -> {<<x, o>> : x \in path_reach(ev, e, o, TRUE)}
    [] OTHER -> UNION {{<<n, x>> : x \in path_reach(ev, e, n, FALSE)} : n \in Column(ev.store, 1) \cup Column(ev.store, 3)}
eval_path_pattern(ev, p, l) ==
  LET node(x) == IF IsVar(x) THEN x ELSE term_id(ev, x)
      pairs == {r \in path_pairs(ev, p.path, node(p.s), node(p.o)) : p.s = p.o => r[1] = r[2]}
  IN  IF Unbound \in {node(p.s), node(p.o)} THEN << >>
      ELSE Enumerated({[v \in l.vars |-> IF v = p.s THEN r[1] ELSE IF v = p.o THEN r[2] ELSE Unbound] : r \in pairs})

-----------------------------------------------------------------------------
\* Expressions and graph patterns.

RECURSIVE eval_value(_, _, _, _), eval_pattern(_, _, _), eval_select_solutions(_, _), subst(_, _, _)

\* eval_ebv: AND and OR tolerate an error of the other side.
Negated(x) == IF x = Error THEN x ELSE Truth(x = False)
eval_ebv(ev, e, b, l) == Ebv(eval_value(ev, e, b, l))

\* subst_pattern, subst_node, subst_expr: the variables that b binds become
\* constants, except in VALUES and in a sub-SELECT. (BOUND of one is an error.)
Constant(x, b, l) == IF x \in l.vars /\ b[x] # Unbound THEN resolve(b[x], x \in l.is_pred) ELSE x
subst(x, b, l) ==
  LET in(y) == subst(y, b, l)
      all(ys) == [i \in DOMAIN ys |-> in(ys[i])]
  IN
  CASE x.k \in {"empty", "values", "subselect", "const"} -> x
    [] x.k = "bound" -> [x EXCEPT !.v = Constant(@, b, l)]
    [] x.k = "bgp" -> [x EXCEPT !.tps = [i \in DOMAIN x.tps |-> [j \in 1..3 |-> Constant(x.tps[i][j], b, l)]]]
    [] x.k = "path" -> [x EXCEPT !.s = Constant(@, b, l), !.o = Constant(@, b, l)]
    [] x.k = "filter" -> [x EXCEPT !.a = in(@), !.fs = all(@)]
    [] x.k = "left_join" -> [x EXCEPT !.a = in(@), !.b = in(@), !.fs = all(@)]
    [] x.k = "extend" -> [x EXCEPT !.a = in(@), !.e = in(@)]
    [] x.k = "graph" -> [x EXCEPT !.g = Constant(@, b, l), !.a = in(@)]
    [] x.k = "var" -> IF IsVar(Constant(x.v, b, l)) THEN x ELSE [k |-> "const", t |-> Constant(x.v, b, l)]
    [] x.k = "exists" -> [x EXCEPT !.p = in(@)]
    [] x.k = "not" -> [x EXCEPT !.a = in(@)]
    [] x.k = "if" -> [x EXCEPT !.c = in(@), !.a = in(@), !.b = in(@)]
    [] x.k = "in" -> IF IsVar(Constant(x.v, b, l)) THEN x
                     ELSE [k |-> "const", t |-> Truth(Constant(x.v, b, l) \in x.ts)]
    [] OTHER -> [x EXCEPT !.a = in(@), !.b = in(@)]

\* eval_exists: b is put into the pattern, which has a layout of its own.
eval_exists(ev, e, b, l) ==
  LET p == subst(e.p, b, l)
  IN  (eval_pattern(ev, p, VarLayout(p)) # << >>) # e.neg

\* eval_value, eval_compare, eval_builtin. "in" stands for the builtins that
\* test the text of a variable (CONTAINS, STRSTARTS, STRENDS, REGEX): true
\* of the terms ts.
eval_value(ev, e, b, l) ==
  LET val(x) == eval_value(ev, x, b, l)
      of(v) == IF v \in l.vars THEN resolve(b[v], v \in l.is_pred) ELSE Error
  IN
  CASE e.k = "var" -> of(e.v)
    [] e.k = "const" -> e.t
    [] e.k = "bound" -> IF e.v \in l.vars THEN Truth(b[e.v] # Unbound) ELSE Error
    [] e.k = "in" -> IF of(e.v) = Error THEN Error ELSE Truth(of(e.v) \in e.ts)
    [] e.k = "not" -> Negated(eval_ebv(ev, e.a, b, l))
    [] e.k \in {"and", "or"} -> Logic(e.k, eval_ebv(ev, e.a, b, l), eval_ebv(ev, e.b, b, l))
    [] e.k \in {"eq", "ne", "lt"} -> Related(e.k, val(e.a), val(e.b))
    [] e.k = "add" -> Plus(val(e.a), val(e.b))
    [] e.k = "if" -> LET c == eval_ebv(ev, e.c, b, l)
                     IN  IF c = Error THEN c ELSE val(IF c = True THEN e.a ELSE e.b)
    [] e.k = "coalesce" -> IF val(e.a) = Error THEN val(e.b) ELSE val(e.a)
    [] e.k = "exists" -> Truth(eval_exists(ev, e, b, l))
    [] e.k = "agg" -> Error

\* collect_substr_constraints: the tests that a conjunction makes mandatory,
\* each with the ids of the terms that pass.
RECURSIVE substr_constraints(_)
substr_constraints(e) ==
  CASE e.k = "and" -> substr_constraints(e.a) \cup substr_constraints(e.b)
    [] e.k = "in" -> {<<e.v, e.ts>>}
    [] OTHER -> {}
filter_string_constraints(ev, fs) ==
  LET found == UNION {substr_constraints(fs[i]) : i \in DOMAIN fs}
  IN  [v \in {c[1] : c \in found} |->
         {t \in ev.nodes : \A c \in found : c[1] = v => t \in c[2]}]

passes(ev, fs, b, l) == \A i \in DOMAIN fs : eval_ebv(ev, fs[i], b, l) = True

\* OPTIONAL.
eval_left_join(ev, left, right, fs, l) ==
  FlattenSeq([i \in DOMAIN left |->
    LET found == SelectSeq(ProductSeq(<<left[i]>>, right, compatible, merge_bindings),
                           LAMBDA m : passes(ev, fs, m, l))
    IN  IF found = << >> THEN <<left[i]>> ELSE found])

\* graph_sub_evaluator: over a named graph there is no VS-tree.
Over(ev, n) == [ev EXCEPT !.store = ev.graphs[n], !.vstree = FALSE]
eval_graph(ev, p, l) ==
  IF IsVar(p.g)
  THEN LET ns == Enumerated(live_graphs(ev))
       IN  FlattenSeq([i \in DOMAIN ns |->
             LET rows == eval_pattern(Over(ev, ns[i]), p.a, l)
             IN  [j \in DOMAIN rows |-> [rows[j] EXCEPT ![p.g] = ns[i]]]])
  ELSE IF p.g \in live_graphs(ev) THEN eval_pattern(Over(ev, p.g), p.a, l) ELSE << >>

eval_values(ev, p, l) ==
  [i \in DOMAIN p.rows |->
     [v \in l.vars |-> IF v \in DOMAIN p.rows[i] THEN term_to_id(ev, p.rows[i][v]) ELSE Unbound]]

\* eval_subselect: the columns the outer query knows. The id of a predicate is
\* exchanged for a synthetic one.
lifted(r, l) ==
  LET lift(v, id) == IF v \in r.is_pred /\ id # Unbound /\ ~is_synth(id) THEN intern(resolve(id, TRUE)) ELSE id
  IN  [i \in DOMAIN r.rows |->
         [v \in l.vars |-> IF v \in DOMAIN r.rows[i] THEN lift(v, r.rows[i][v]) ELSE Unbound]]
eval_subselect(ev, q, l) == lifted(eval_select_solutions(ev, q), l)   \* one that fails has no rows

\* eval_service: the remote answer; a pattern that cannot be sent, or a call
\* that fails, is no row, or with SILENT one row that binds nothing.
RECURSIVE serializable(_)
serializable(p) ==
  CASE p.k \in {"empty", "bgp"} -> TRUE
    [] p.k \in {"join", "union"} -> serializable(p.a) /\ serializable(p.b)
    [] OTHER -> FALSE
eval_service(ev, p, l) ==
  IF p.answer = << >> \/ ~serializable(p.a)
  THEN IF p.silent THEN <<NoBinding(l)>> ELSE << >>
  ELSE eval_values(ev, [rows |-> p.answer[1]], l)

eval_pattern(ev, p, l) ==
  CASE p.k = "empty" -> <<NoBinding(l)>>
    [] p.k = "bgp" -> eval_bgp_constrained(ev, p.tps, l, << >>)
    [] p.k = "union" -> eval_pattern(ev, p.a, l) \o eval_pattern(ev, p.b, l)
    [] p.k = "filter" ->
         LET rows == IF p.a.k = "bgp"
                     THEN eval_bgp_constrained(ev, p.a.tps, l, filter_string_constraints(ev, p.fs))
                     ELSE eval_pattern(ev, p.a, l)
         IN  SelectSeq(rows, LAMBDA b : ~ev.cancelled /\ passes(ev, p.fs, b, l))
    [] p.k = "join" ->
         LET ps == flatten_join(p)
         IN  eval_join([i \in DOMAIN ps |-> [rows |-> eval_pattern(ev, ps[i], l), vars |-> collect_vars(ps[i])]])
    [] p.k = "left_join" -> eval_left_join(ev, eval_pattern(ev, p.a, l), eval_pattern(ev, p.b, l), p.fs, l)
    [] p.k = "minus" -> eval_minus(eval_pattern(ev, p.a, l), collect_vars(p.a),
                                   eval_pattern(ev, p.b, l), collect_vars(p.b))
    [] p.k = "extend" ->
         LET rows == eval_pattern(ev, p.a, l)
             bind(b, value) == IF value = Error THEN b ELSE [b EXCEPT ![p.v] = term_to_id(ev, value)]
         IN  [i \in DOMAIN rows |-> bind(rows[i], eval_value(ev, p.e, rows[i], l))]
    [] p.k = "values" -> eval_values(ev, p, l)
    [] p.k = "subselect" -> eval_subselect(ev, p.q, l)
    [] p.k = "path" -> eval_path_pattern(ev, p, l)
    [] p.k = "graph" -> eval_graph(ev, p, l)
    [] p.k = "service" -> eval_service(ev, p, l)

-----------------------------------------------------------------------------
\* Query forms.

\* order_key: unbound, IRIs, numbers, booleans ("false" before "true").
order_key(t) ==
  CASE t = Error -> 0
    [] t \in {True, False} -> 10 * SYNTH_BASE + False - t
    [] OTHER -> t
\* sort_solutions: stable.
sorted_by(rows, order, keys) ==
  LET less(x, y, j) == IF order[j].desc THEN x[j] > y[j] ELSE x[j] < y[j]
      first(x, y) == \E j \in DOMAIN order : less(x, y, j) /\ \A h \in 1..(j - 1) : x[h] = y[h]
      perm == SortSeq([i \in DOMAIN rows |-> i],
                      LAMBDA i, j : first(keys[i], keys[j]) \/ (keys[i] = keys[j] /\ i < j))
  IN  [i \in DOMAIN rows |-> rows[perm[i]]]
sort_solutions(ev, rows, order, l) ==
  sorted_by(rows, order,
            [i \in DOMAIN rows |-> [j \in DOMAIN order |-> order_key(eval_value(ev, order[j].e, rows[i], l))]])
slice(rows, offset, limit) ==
  IF offset >= Len(rows) THEN << >> ELSE SubSeq(rows, offset + 1, Min({offset + limit, Len(rows)}))

value_to_id(ev, t) == IF t = Error THEN Unbound ELSE term_to_id(ev, t)
IsPlain(item) == item.e = [k |-> "var", v |-> item.v]
project_items(ev, b, l, q) ==
  IF q.items = << >> THEN b
  ELSE [v \in result_vars(q) |->
          LET item == q.items[CHOOSE i \in DOMAIN q.items : q.items[i].v = v]
          IN  IF IsPlain(item) THEN IF v \in l.vars THEN b[v] ELSE Unbound
              ELSE value_to_id(ev, eval_value(ev, item.e, b, l))]

\* eval_aggregate. SUM adds the numbers and skips the rest; MIN and MAX keep
\* the first of the values that do not compare. AVG and GROUP_CONCAT, which make
\* a double and a string, are left out: Sparql's terms have neither.
Keep(op, vals) ==
  FoldLeft(LAMBDA m, t : IF Related("lt", IF op = "min" THEN t ELSE m, IF op = "min" THEN m ELSE t) = True
                         THEN t ELSE m, Head(vals), Tail(vals))
sum_values(vals) == FoldLeft(LAMBDA acc, t : IF IsNumber(t) THEN Plus(acc, t) ELSE acc, Number(0), vals)
over_values(f, vals) ==
  CASE f = "count" -> Number(Len(vals))
    [] f = "sum" -> sum_values(vals)
    [] vals = << >> -> Error
    [] f = "sample" -> Head(vals)
    [] OTHER -> Keep(f, vals)
deduplicated(all, dedup) == IF dedup THEN Enumerated(ToSet(all)) ELSE all
eval_aggregate(ev, e, sols, l) ==
  IF e.f = "count" /\ e.a.k = "star" THEN Number(Len(deduplicated(sols, e.distinct)))
  ELSE over_values(e.f, deduplicated(SelectSeq([i \in DOMAIN sols |-> eval_value(ev, e.a, sols[i], l)],
                                               LAMBDA t : t # Error), e.distinct))

\* eval_group_expr: an error of either side of AND and OR is an error here, and
\* a variable that is not grouped takes its value in the first solution.
KeyOf(q, v) == {i \in DOMAIN q.group : q.group[i] = [k |-> "var", v |-> v]}
RECURSIVE eval_group_expr(_, _, _, _, _, _)
eval_group_expr(ev, e, sols, l, q, key) ==
  LET in(x) == eval_group_expr(ev, x, sols, l, q, key)
      strict(x, y) == IF x = Error \/ y = Error THEN Error ELSE Logic(e.k, x, y)
  IN
  CASE e.k = "agg" -> eval_aggregate(ev, e, sols, l)
    [] e.k = "var" -> IF KeyOf(q, e.v) # {} THEN resolve(key[Max(KeyOf(q, e.v))], FALSE)
                      ELSE IF sols = << >> THEN Error ELSE eval_value(ev, e, sols[1], l)
    [] e.k = "const" -> e.t
    [] e.k = "add" -> Plus(in(e.a), in(e.b))
    [] e.k \in {"eq", "ne", "lt"} -> Related(e.k, in(e.a), in(e.b))
    [] e.k \in {"and", "or"} -> strict(Ebv(in(e.a)), Ebv(in(e.b)))
    [] e.k = "not" -> Negated(Ebv(in(e.a)))
    [] e.k = "exists" -> IF sols = << >> THEN Error ELSE Truth(eval_exists(ev, e, sols[1], l))
    [] OTHER -> Error

\* eval_aggregation: without GROUP BY there is one group, even of no rows.
keeps(ev, sols, l, q, k) == \A j \in DOMAIN q.having : Ebv(eval_group_expr(ev, q.having[j], sols, l, q, k)) = True
column(ev, item, sols, l, q, k) ==
  IF ~IsPlain(item) THEN value_to_id(ev, eval_group_expr(ev, item.e, sols, l, q, k))
  ELSE IF KeyOf(q, item.v) # {} THEN k[Max(KeyOf(q, item.v))]
  ELSE IF sols = << >> \/ item.v \notin l.vars THEN Unbound ELSE sols[1][item.v]
\* groups: each key with its solutions.
aggregated(ev, groups, l, q) ==
  [i \in DOMAIN groups |->
     [v \in result_vars(q) |->
        column(ev, q.items[CHOOSE j \in DOMAIN q.items : q.items[j].v = v], groups[i][2], l, q, groups[i][1])]]
\* keys[i] is the key of sols[i].
grouped(sols, keys, q) ==
  LET ks == Enumerated(IF q.group = << >> THEN {<< >>} ELSE ToSet(keys))
      rows(k) == SelectSeq([i \in DOMAIN sols |-> i], LAMBDA i : keys[i] = k)
  IN  [n \in DOMAIN ks |-> <<ks[n], [i \in DOMAIN rows(ks[n]) |-> sols[rows(ks[n])[i]]]>>]
eval_aggregation(ev, sols, l, q) ==
  LET keys == [i \in DOMAIN sols |-> [j \in DOMAIN q.group |-> value_to_id(ev, eval_value(ev, q.group[j], sols[i], l))]]
  IN  aggregated(ev, SelectSeq(grouped(sols, keys, q), LAMBDA g : keeps(ev, g[2], l, q, g[1])), l, q)

RECURSIVE expr_has_aggregate(_)
expr_has_aggregate(e) ==
  CASE e.k = "agg" -> TRUE
    [] e.k \in {"or", "and", "add", "eq", "ne", "lt"} -> expr_has_aggregate(e.a) \/ expr_has_aggregate(e.b)
    [] e.k = "not" -> expr_has_aggregate(e.a)
    [] e.k = "coalesce" -> expr_has_aggregate(e.a) \/ expr_has_aggregate(e.b)
    [] e.k = "if" -> expr_has_aggregate(e.c) \/ expr_has_aggregate(e.a) \/ expr_has_aggregate(e.b)
    [] OTHER -> FALSE
projection_has_aggregate(q) == \E i \in DOMAIN q.items : expr_has_aggregate(q.items[i].e)

\* Solutions are sorted before they are projected, with the aliases added.
with_aliases(ev, sols, l, q) ==
  FoldLeft(LAMBDA acc, item :
             IF item.v \in acc.layout.vars THEN acc
             ELSE [rows |-> [i \in DOMAIN acc.rows |->
                               acc.rows[i] @@ (item.v :> value_to_id(ev, eval_value(ev, item.e, acc.rows[i], acc.layout)))],
                   layout |-> [acc.layout EXCEPT !.vars = @ \cup {item.v}]],
           [rows |-> sols, layout |-> l],
           SelectSeq(q.items, LAMBDA item : ~IsPlain(item)))

Cancelled == [cancelled |-> TRUE]
StarOfGroups == [refused |-> "SELECT * with aggregation is not allowed"]
IsCancelled(r) == "cancelled" \in DOMAIN r
check_cancel(ev) == ev.cancelled

projected(ev, sorted, l, q) == [i \in DOMAIN sorted |-> project_items(ev, sorted[i], l, q)]
sorted_projected(ev, wide, q) ==
  projected(ev, sort_solutions(ev, wide.rows, q.order, wide.layout), wide.layout, q)
distinct(rows) ==
  LET first == SelectSeq([i \in DOMAIN rows |-> i], LAMBDA i : ~\E j \in 1..(i - 1) : rows[j] = rows[i])
  IN  [n \in DOMAIN first |-> rows[first[n]]]
result_layout(l, q) ==
  LET names == IF q.items = << >> THEN l.vars ELSE result_vars(q)
  IN  [vars |-> names, is_pred |-> names \cap l.is_pred]
\* The rows of the solutions sols, whose columns are those of l.
result_rows(ev, sols, l, q) ==
  IF q.group # << >> \/ projection_has_aggregate(q)
  THEN sort_solutions(ev, eval_aggregation(ev, sols, l, q), q.order, result_layout(l, q))
  ELSE sorted_projected(ev, IF q.order = << >> THEN [rows |-> sols, layout |-> l] ELSE with_aliases(ev, sols, l, q), q)
sliced(rows, q) == slice(IF q.distinct THEN distinct(rows) ELSE rows, q.offset, q.limit)
eval_select_solutions(ev, q) ==
  LET l == VarLayout(q.pattern)
      fails(error) == [rows |-> << >>, is_pred |-> {}, failed |-> <<error>>]
  IN  IF check_cancel(ev) THEN fails(Cancelled)
      ELSE IF q.group # << >> /\ q.items = << >> THEN fails(StarOfGroups)
      ELSE [rows |-> sliced(result_rows(ev, eval_pattern(ev, q.pattern, l), l, q), q),
            is_pred |-> result_layout(l, q).is_pred, failed |-> << >>]
\* The terms of the bound columns.
resolved(r) ==
  LET term(b, v) == resolve(b[v], v \in r.is_pred)
  IN  [i \in DOMAIN r.rows |->
         [v \in {u \in DOMAIN r.rows[i] : term(r.rows[i], u) # Error} |-> term(r.rows[i], v)]]
answered(r) == IF r.failed # << >> THEN r.failed[1] ELSE [rows |-> resolved(r)]
eval_select(ev, q) == answered(eval_select_solutions(ev, q))

\* evaluate: a query that is cancelled when it starts is not answered at all.
evaluate(ev, answer) == IF check_cancel(ev) THEN Cancelled ELSE answer

eval_ask(ev, p) ==
  LET found == eval_pattern(ev, p, VarLayout(p)) # << >>
  IN  IF check_cancel(ev) THEN Cancelled ELSE [answer |-> found]

\* Faulty: every id is looked up among the nodes.
instantiate_template_nodes(tp, b, l) ==
  LET at(x) == IF ~IsVar(x) THEN x ELSE IF x \in l.vars THEN resolve(b[x], FALSE) ELSE Error
      t == <<at(tp[1]), at(tp[2]), at(tp[3])>>
  IN  IF Error \in {t[1], t[2], t[3]} THEN {} ELSE {t}
\* instantiate_template: no triple if a position is unbound.
instantiate_template(tp, b, l) ==
  LET at(x, pred) == IF ~IsVar(x) THEN x
                     ELSE IF x \in l.vars THEN resolve(b[x], pred /\ x \in l.is_pred) ELSE Error
      t == <<at(tp[1], FALSE), at(tp[2], TRUE), at(tp[3], FALSE)>>
  IN  IF Error \in {t[1], t[2], t[3]} THEN {} ELSE {t}
Instances(template, rows, l) ==
  UNION {instantiate_template(template[j], rows[i], l) : i \in DOMAIN rows, j \in DOMAIN template}
eval_construct(ev, q) ==
  LET l == VarLayout(q.pattern)
      sorted == sort_solutions(ev, eval_pattern(ev, q.pattern, l), q.order, l)
  IN  IF check_cancel(ev) THEN Cancelled
      ELSE [triples |-> Instances(q.template, slice(sorted, q.offset, q.limit), l)]

\* eval_describe: what the named resources and the nodes bound to the wanted
\* variables are subjects of.
bound_in(rows, want) == {rows[i][v] : i \in DOMAIN rows, v \in want}
eval_describe(ev, q) ==
  LET l == VarLayout(q.pattern)
      want == (IF q.all THEN l.vars ELSE {v \in q.targets : IsVar(v)} \cap l.vars) \ l.is_pred
      ids == {term_id(ev, t) : t \in {u \in q.targets : ~IsVar(u)}}
               \cup {id \in bound_in(eval_pattern(ev, q.pattern, l), want) : ~is_synth(id)}
  IN  IF (q.all \/ \E v \in q.targets : IsVar(v)) /\ check_cancel(ev) THEN Cancelled
      ELSE [triples |-> {<<t[1], PRED_FIRST + t[2], t[3]>> : t \in {u \in ev.store : u[1] \in ids}}]

\* eval_update_modify: what DELETE/INSERT ... WHERE removes and adds.
modification(q, rows, l) == [dels |-> Instances(q.delete, rows, l), ins |-> Instances(q.insert, rows, l)]
eval_update_modify(ev, q) ==
  LET l == VarLayout(q.pattern)
  IN  modification(q, eval_pattern(ev, q.pattern, l), l)
=============================================================================
