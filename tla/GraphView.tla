----------------------------- MODULE GraphView -----------------------------
(***************************************************************************)
(* src/analytics/mod.rs, GraphView: the algorithms on the graph of a       *)
(* store, whose nodes are its subjects and objects. E is the set of edges  *)
(* <<s, o>>; nodes are visited in the order of their ids, as the dense     *)
(* indices of the code are. Ratios are pairs <<numerator, denominator>>;    *)
(* modularity gains are multiplied by their common denominator, which makes *)
(* them integers.                                                          *)
(***************************************************************************)
EXTENDS Integers, Sequences, FiniteSets, FiniteSetsExt, SequencesExt, Functions, TLC

\* from_source, from_raw_pairs: predicates are ignored.
from_source(store) == {<<t[1], t[3]>> : t \in store}
nodes(E) == {e[1] : e \in E} \cup {e[2] : e \in E}
Listed(S) == FoldSet(LAMBDA x, acc : Append(acc, x), << >>, S)
Ascending(S) == SortSeq(Listed(S), LAMBDA x, y : x < y)
out_adj(E) == [u \in nodes(E) |-> Ascending({v \in nodes(E) : <<u, v>> \in E})]
undirected_adj(E) ==
  [u \in nodes(E) |-> Ascending({v \in nodes(E) : <<u, v>> \in E}) \o Ascending({v \in nodes(E) : <<v, u>> \in E})]
undirected_neighbors(E, u) == {v \in nodes(E) \ {u} : <<u, v>> \in E \/ <<v, u>> \in E}
undirected_adjacent(E, u, v) == <<u, v>> \in E \/ <<v, u>> \in E
Pairs(S) == {x \in SUBSET S : Cardinality(x) = 2}

-----------------------------------------------------------------------------
\* Breadth-first search. dist is a function on the nodes that were reached.

MAX == 1000000     \* u32::MAX, no budget of hops
RECURSIVE bfs(_, _, _, _)
bfs(adj, queue, dist, max_hops) ==
  IF queue = << >> THEN dist
  ELSE LET u == Head(queue)
           new == SelectSeq(adj[u], LAMBDA v : v \notin DOMAIN dist)
       IN  IF dist[u] >= max_hops THEN bfs(adj, Tail(queue), dist, max_hops)
           ELSE bfs(adj, Tail(queue) \o new, dist @@ [v \in ToSet(new) |-> dist[u] + 1], max_hops)
bounded_out_bfs(E, src, max_hops) == bfs(out_adj(E), <<src>>, src :> 0, max_hops)
out_bfs_dist(E, src) == bounded_out_bfs(E, src, MAX)
bfs_distances(E, src) == out_bfs_dist(E, src)
\* khop_reachable: src reaches itself whatever the budget.
khop_reachable(E, src, dst, max_hops) == src = dst \/ dst \in DOMAIN bounded_out_bfs(E, src, max_hops)
khop_neighbors(E, src, k) ==
  IF k = MAX \/ src \notin nodes(E) THEN {}
  ELSE LET d == bounded_out_bfs(E, src, k) IN {v \in DOMAIN d : d[v] = k}
khop_all_neighbors(E, src, k) ==
  IF src \notin nodes(E) THEN {} ELSE LET d == bounded_out_bfs(E, src, k) IN {v \in DOMAIN d : d[v] >= 1}
bfs_count(E, src, max_hops) ==
  IF src \notin nodes(E) THEN 0 ELSE Cardinality(DOMAIN bounded_out_bfs(E, src, max_hops) \ {src})

\* undirected_bfs: the farthest node, the least of them, and its distance.
undirected_bfs(E, src) ==
  LET d == bfs(undirected_adj(E), <<src>>, src :> 0, MAX)
      far == Max({d[v] : v \in DOMAIN d})
  IN  [far |-> IF far = 0 THEN src ELSE Min({v \in DOMAIN d : d[v] = far}), dist |-> far]
\* diameter_estimate: two sweeps from each of at most four seeds.
diameter_estimate(E) ==
  LET ids == Ascending(nodes(E))
      n == Len(ids)
      samples == Min({4, n})
      step == Max({n \div samples, 1})
      seeds == {ids[Min({s * step, n - 1}) + 1] : s \in 0..(samples - 1)}
  IN  IF n <= 1 THEN 0
      ELSE Max({undirected_bfs(E, undirected_bfs(E, seed).far).dist : seed \in seeds})

\* shortest_path: the search stops at dst and the path is walked back.
RECURSIVE bfs_tree(_, _, _, _)
bfs_tree(adj, queue, prev, dst) ==
  IF queue = << >> \/ dst \in DOMAIN prev THEN prev
  ELSE LET new == SelectSeq(adj[Head(queue)], LAMBDA v : v \notin DOMAIN prev)
       IN  bfs_tree(adj, Tail(queue) \o new, prev @@ [v \in ToSet(new) |-> Head(queue)], dst)
RECURSIVE walk_back(_, _, _)
walk_back(prev, src, cur) == IF cur = src THEN <<src>> ELSE Append(walk_back(prev, src, prev[cur]), cur)
shortest_path(E, src, dst) ==
  LET prev == bfs_tree(out_adj(E), <<src>>, src :> src, dst)
  IN  IF src = dst THEN <<src>> ELSE IF dst \notin DOMAIN prev THEN << >> ELSE walk_back(prev, src, dst)

\* Brandes: sigma[v] shortest paths lead from src to v, over the nodes preds[v];
\* order is the order in which nodes were taken from the queue.
RECURSIVE brandes(_, _, _)
brandes(adj, queue, st) ==
  IF queue = << >> THEN st
  ELSE LET u == Head(queue)
           new == SelectSeq(adj[u], LAMBDA v : v \notin DOMAIN st.dist)
           dist == st.dist @@ [v \in ToSet(new) |-> st.dist[u] + 1]
           next == {v \in ToSet(adj[u]) : dist[v] = dist[u] + 1}
           sigma == [v \in DOMAIN dist |->
                       (IF v \in DOMAIN st.sigma THEN st.sigma[v] ELSE 0) + (IF v \in next THEN st.sigma[u] ELSE 0)]
           preds == [v \in DOMAIN dist |->
                       (IF v \in DOMAIN st.preds THEN st.preds[v] ELSE {}) \cup (IF v \in next THEN {u} ELSE {})]
       IN  brandes(adj, Tail(queue) \o new,
                   [dist |-> dist, sigma |-> sigma, preds |-> preds, order |-> Append(st.order, u)])
shortest_paths_from(E, src) ==
  brandes(out_adj(E), <<src>>,
          [dist |-> src :> 0, sigma |-> src :> 1, preds |-> src :> {}, order |-> << >>])
count_shortest_paths(E, src, dst) ==
  LET st == shortest_paths_from(E, src)
  IN  IF src = dst THEN 1 ELSE IF dst \in DOMAIN st.dist THEN st.sigma[dst] ELSE 0

\* Dependencies are accumulated in reverse order; SCALE makes them integers.
SCALE == 144
dependencies(E, src) ==
  LET st == shortest_paths_from(E, src)
      back(w, delta) == [v \in DOMAIN delta |->
                           delta[v] + (IF v \in st.preds[w] THEN (st.sigma[v] * (SCALE + delta[w])) \div st.sigma[w] ELSE 0)]
  IN  FoldRight(back, st.order, [v \in DOMAIN st.dist |-> 0])
betweenness_centrality(E) ==
  [v \in nodes(E) |->
     FoldSet(LAMBDA s, acc : acc + LET d == dependencies(E, s) IN IF v # s /\ v \in DOMAIN d THEN d[v] ELSE 0,
             0, nodes(E))]
\* closeness_centrality: <<numerator, denominator>>.
closeness_centrality(E) ==
  [v \in nodes(E) |->
     LET d == out_bfs_dist(E, v)
         sum == FoldFunction(LAMBDA x, acc : x + acc, 0, d)
         reach == Cardinality(DOMAIN d) - 1
     IN  IF sum = 0 THEN <<0, 1>> ELSE <<reach * reach, sum * (Cardinality(nodes(E)) - 1)>>]

\* khop_enumerate_paths: simple paths, depth first, at most max_paths.
RECURSIVE enum_paths_dfs(_, _, _, _, _)
enum_paths_dfs(adj, stack, remaining, out, max_paths) ==
  LET visit(acc, v) ==
        IF Len(acc) >= max_paths \/ v \in ToSet(stack) THEN acc
        ELSE enum_paths_dfs(adj, Append(stack, v), remaining - 1, Append(acc, Append(stack, v)), max_paths)
  IN  IF remaining = 0 THEN out ELSE FoldLeft(visit, out, adj[Last(stack)])
khop_enumerate_paths(E, src, k, max_paths) ==
  IF src \notin nodes(E) \/ k = 0 THEN << >> ELSE enum_paths_dfs(out_adj(E), <<src>>, k, << >>, max_paths)

-----------------------------------------------------------------------------
\* Components.

\* uf_find halves the path on the way to the root; [root, parent].
RECURSIVE uf_find(_, _)
uf_find(parent, x) ==
  IF parent[x] = x THEN [root |-> x, parent |-> parent]
  ELSE LET halved == [parent EXCEPT ![x] = parent[parent[x]]] IN uf_find(halved, halved[x])
uf_union(uf, a, b) ==
  LET fa == uf_find(uf.parent, a)
      fb == uf_find(fa.parent, b)
      ra == fa.root
      rb == fb.root
  IN  CASE ra = rb -> [uf EXCEPT !.parent = fb.parent]
        [] ra # rb /\ uf.rank[ra] < uf.rank[rb] -> [uf EXCEPT !.parent = [fb.parent EXCEPT ![ra] = rb]]
        [] ra # rb /\ uf.rank[ra] > uf.rank[rb] -> [uf EXCEPT !.parent = [fb.parent EXCEPT ![rb] = ra]]
        [] OTHER -> [parent |-> [fb.parent EXCEPT ![rb] = ra], rank |-> [uf.rank EXCEPT ![ra] = @ + 1]]
weakly_connected_components(E) ==
  LET edges == SortSeq(Listed(E), LAMBDA x, y : x[1] < y[1] \/ (x[1] = y[1] /\ x[2] < y[2]))
      uf == FoldLeft(LAMBDA u, e : uf_union(u, e[1], e[2]),
                     [parent |-> [v \in nodes(E) |-> v], rank |-> [v \in nodes(E) |-> 0]], edges)
  IN  [v \in nodes(E) |-> uf_find(uf.parent, v).root]

\* Tarjan's algorithm with a stack of work, one step of the loop at a time:
\* the top frame follows its next edge, or is closed.
Frame(v) == [node |-> v, cursor |-> 1]
tarjan_open(st, v) ==
  [st EXCEPT !.index = @ @@ (v :> st.next_index), !.lowlink = @ @@ (v :> st.next_index),
             !.next_index = @ + 1, !.stack = Append(@, v), !.work = Append(@, Frame(v))]
SetLow(st, v, x) == [st EXCEPT !.lowlink[v] = Min({@, x})]
tarjan_close(st, v) ==
  LET at == CHOOSE i \in DOMAIN st.stack : st.stack[i] = v
      done == IF st.lowlink[v] # st.index[v] THEN st
              ELSE [st EXCEPT !.comp = @ @@ [w \in {st.stack[i] : i \in at..Len(st.stack)} |-> st.num_comp],
                              !.stack = SubSeq(@, 1, at - 1), !.num_comp = @ + 1]
      popped == [done EXCEPT !.work = Front(@)]
  IN  IF popped.work = << >> THEN popped ELSE SetLow(popped, Last(popped.work).node, st.lowlink[v])
tarjan_edge(st, v, w) ==
  LET moved == [st EXCEPT !.work[Len(st.work)].cursor = @ + 1]
  IN  CASE w \notin DOMAIN st.index -> tarjan_open(moved, w)
        [] w \in DOMAIN st.index /\ w \in ToSet(st.stack) -> SetLow(moved, v, st.index[w])
        [] OTHER -> moved
RECURSIVE tarjan_run(_, _)
tarjan_run(adj, st) ==
  IF st.work = << >> THEN st
  ELSE LET top == Last(st.work)
       IN  tarjan_run(adj, IF top.cursor <= Len(adj[top.node])
                           THEN tarjan_edge(st, top.node, adj[top.node][top.cursor])
                           ELSE tarjan_close(st, top.node))
strongly_connected_components(E) ==
  LET adj == out_adj(E)
      start(st, v) == IF v \in DOMAIN st.index THEN st ELSE tarjan_run(adj, tarjan_open(st, v))
  IN  FoldLeft(start, [index |-> << >>, lowlink |-> << >>, comp |-> << >>, stack |-> << >>, work |-> << >>,
                       next_index |-> 0, num_comp |-> 0], Ascending(nodes(E))).comp
has_cycle(E) ==
  LET comp == strongly_connected_components(E)
  IN  (\E v \in nodes(E) : <<v, v>> \in E) \/ \E u, v \in nodes(E) : u # v /\ comp[u] = comp[v]

-----------------------------------------------------------------------------
\* Sums over the nodes.
Total(f) == FoldFunction(LAMBDA x, acc : x + acc, 0, f)

-----------------------------------------------------------------------------
\* Triangles and neighbourhoods.

\* triangle_count: common neighbours of the ends of every edge, over three.
triangle_count(E) ==
  Total([e \in {x \in nodes(E) \X nodes(E) : x[1] < x[2] /\ undirected_adjacent(E, x[1], x[2])} |->
           Cardinality(undirected_neighbors(E, e[1]) \cap undirected_neighbors(E, e[2]))]) \div 3
node_triangle_count(E, v) ==
  Cardinality({x \in Pairs(undirected_neighbors(E, v)) : \E a, b \in x : a # b /\ undirected_adjacent(E, a, b)})
PossibleLinks(k) == (k * (k - 1)) \div 2
local_clustering_coefficient(E, v) ==
  LET k == Cardinality(undirected_neighbors(E, v))
  IN  IF k < 2 THEN <<0, 1>> ELSE <<node_triangle_count(E, v), PossibleLinks(k)>>
global_clustering_coefficient(E) ==
  LET wedges == Total([v \in nodes(E) |-> PossibleLinks(Cardinality(undirected_neighbors(E, v)))])
  IN  IF wedges = 0 THEN <<0, 1>> ELSE <<3 * triangle_count(E), wedges>>
jaccard_similarity(E, a, b) ==
  LET inter == Cardinality(undirected_neighbors(E, a) \cap undirected_neighbors(E, b))
      union == Cardinality(undirected_neighbors(E, a)) + Cardinality(undirected_neighbors(E, b)) - inter
  IN  IF union = 0 THEN <<0, 1>> ELSE <<inter, union>>

-----------------------------------------------------------------------------
\* k_core: Batagelj and Zaversnik's buckets. vert lists the nodes by residual
\* degree, pos is its inverse and bin[d] the first slot of degree d.

k_core_start(E) ==
  LET deg == [v \in nodes(E) |-> Cardinality(undirected_neighbors(E, v))]
      vert == SortSeq(Listed(nodes(E)), LAMBDA x, y : deg[x] < deg[y] \/ (deg[x] = deg[y] /\ x < y))
  IN  [core |-> << >>, deg |-> deg, vert |-> vert, pos |-> [v \in nodes(E) |-> CHOOSE i \in DOMAIN vert : vert[i] = v],
       bin |-> [d \in 0..(Max(Range(deg)) + 1) |-> 1 + Cardinality({v \in nodes(E) : deg[v] < d})]]
\* A neighbour u of the peeled v moves to the front of its bucket, which shrinks.
k_core_lower(st, v, u) ==
  LET du == st.deg[u]
      pw == st.bin[du]
      w == st.vert[pw]
  IN  IF du <= st.deg[v] THEN st
      ELSE [st EXCEPT !.vert = [@ EXCEPT ![st.pos[u]] = w, ![pw] = u],
                      !.pos = [@ EXCEPT ![w] = st.pos[u], ![u] = pw],
                      !.bin[du] = @ + 1,
                      !.deg[u] = @ - 1]
k_core(E) ==
  LET peel(st, i) ==
        LET v == st.vert[i]
        IN  FoldLeft(LAMBDA s, u : k_core_lower(s, v, u), [st EXCEPT !.core = @ @@ (v :> st.deg[v])],
                     Ascending(undirected_neighbors(E, v)))
  IN  IF E = {} THEN << >> ELSE FoldLeft(peel, k_core_start(E), [i \in 1..Cardinality(nodes(E)) |-> i]).core

-----------------------------------------------------------------------------
\* label_propagation: the plurality label of the neighbours, the least on a tie.

MAX_ITERS == 100
adopt(E, label, u) ==
  LET nbrs == undirected_neighbors(E, u)
      count(l) == Cardinality({v \in nbrs : label[v] = l})
      most == Max({count(label[v]) : v \in nbrs})
  IN  IF nbrs = {} THEN label ELSE [label EXCEPT ![u] = Min({label[v] : v \in {x \in nbrs : count(label[x]) = most}})]
RECURSIVE propagate(_, _, _)
propagate(E, label, rounds) ==
  LET after == FoldLeft(LAMBDA l, u : adopt(E, l, u), label, Ascending(nodes(E)))
  IN  IF rounds = 0 \/ after = label THEN label ELSE propagate(E, after, rounds - 1)
\* A community is named by its least member.
Least(label) == [v \in DOMAIN label |-> Min({u \in DOMAIN label : label[u] = label[v]})]
label_propagation(E) == Least(propagate(E, [v \in nodes(E) |-> v], MAX_ITERS))

-----------------------------------------------------------------------------
\* Louvain. A level is a weighted graph: V its nodes, w its weights between
\* different nodes (symmetric when undirected) and self the weights of the loops.
\* Which of several best communities a node joins depends on the order of a
\* hash map, so that a level has a set of outcomes.

W(g, S, T) == Total([e \in (S \X T) |-> g.w[e]])
louvain_start(E) ==
  [V |-> nodes(E), w |-> [e \in nodes(E) \X nodes(E) |->
                            IF e[1] = e[2] THEN 0
                            ELSE (IF e \in E THEN 1 ELSE 0) + (IF <<e[2], e[1]>> \in E THEN 1 ELSE 0)],
   self |-> [v \in nodes(E) |-> IF <<v, v>> \in E THEN 1 ELSE 0]]
louvain_directed_start(E) ==
  [V |-> nodes(E), w |-> [e \in nodes(E) \X nodes(E) |-> IF e[1] # e[2] /\ e \in E THEN 1 ELSE 0],
   self |-> [v \in nodes(E) |-> IF <<v, v>> \in E THEN 1 ELSE 0]]

Degree(g, i) == W(g, {i}, g.V) + 2 * g.self[i]
k_out(g, i) == W(g, {i}, g.V) + g.self[i]
k_in(g, i) == W(g, g.V, {i}) + g.self[i]

\* Faulty: the weights are compared with those of twice as many edges.
louvain_gain_half(g, m, C, i) ==
  m * W(g, {i}, C) - MapThenSumSet(LAMBDA j : Degree(g, j), C) * Degree(g, i)
\* The gain of node i in the community C, which does not hold it.
louvain_gain(g, m, C, i) ==
  2 * m * W(g, {i}, C) - MapThenSumSet(LAMBDA j : Degree(g, j), C) * Degree(g, i)
louvain_directed_gain(g, m, C, i) ==
  m * (W(g, {i}, C) + W(g, C, {i}))
    - (k_out(g, i) * MapThenSumSet(LAMBDA j : k_in(g, j), C) + k_in(g, i) * MapThenSumSet(LAMBDA j : k_out(g, j), C))
best_communities(g, m, comm, i, both) ==
  LET gain(C) == IF both THEN louvain_gain(g, m, C, i) ELSE louvain_directed_gain(g, m, C, i)
      members(c) == {j \in g.V \ {i} : comm[j] = c}
      near == {comm[j] : j \in {x \in g.V \ {i} : g.w[<<i, x>>] + g.w[<<x, i>>] > 0}}
      best == Max({gain(members(c)) : c \in near \cup {comm[i]}})
  IN  IF gain(members(comm[i])) = best THEN {comm[i]} ELSE {c \in near : gain(members(c)) = best}
RECURSIVE louvain_one_level(_, _, _, _)
louvain_one_level(g, m, comm, both) ==
  LET move(cs, i) == UNION {{[c EXCEPT ![i] = b] : b \in best_communities(g, m, c, i, both)} : c \in cs}
      swept == FoldLeft(move, {comm}, Ascending(g.V))
  IN  UNION {IF c = comm THEN {c} ELSE louvain_one_level(g, m, c, both) : c \in swept}

\* The communities become the nodes of the next level; a weight inside one
\* becomes part of its loop, an undirected one once.
louvain_aggregate(g, lab, both) ==
  LET V == Range(lab)
      members(c) == {v \in g.V : lab[v] = c}
  IN  [V |-> V,
       w |-> [e \in V \X V |-> IF e[1] = e[2] THEN 0 ELSE W(g, members(e[1]), members(e[2]))],
       self |-> [c \in V |-> MapThenSumSet(LAMBDA v : g.self[v], members(c))
                             + W(g, members(c), members(c)) \div (IF both THEN 2 ELSE 1)]]
RECURSIVE louvain_levels(_, _, _)
louvain_levels(g, orig, both) ==
  LET m == MapThenSumSet(LAMBDA v : g.self[v], g.V) + W(g, g.V, g.V) \div (IF both THEN 2 ELSE 1)
      next(lab) == LET o == [v \in DOMAIN orig |-> lab[orig[v]]]
                   IN  IF Cardinality(Range(lab)) = Cardinality(g.V) THEN {o}
                       ELSE louvain_levels(louvain_aggregate(g, lab, both), o, both)
  IN  UNION {next(Least(comm)) : comm \in louvain_one_level(g, m, [v \in g.V |-> v], both)}
louvain(E) == louvain_levels(louvain_start(E), [v \in nodes(E) |-> v], TRUE)
louvain_directed(E) == louvain_levels(louvain_directed_start(E), [v \in nodes(E) |-> v], FALSE)

-----------------------------------------------------------------------------
\* WeightedGraphView: the labelled edges of a store, with a weight for every
\* triple, shortest paths on it and the k best matches of a pattern. A pattern is
\* [num_vars, edges], an edge of it [src, dst, pred] over the variables
\* 1..num_vars, where pred may be AnyPred.

AnyPred == 0

\* from_store_with_weights: one edge for a triple.
from_store_with_weights(store, weight_of) ==
  {[src |-> t[1], pred |-> t[2], dst |-> t[3], weight |-> weight_of[t]] : t \in store}
wnodes(G) == {e.src : e \in G} \cup {e.dst : e \in G}

-----------------------------------------------------------------------------
\* Dijkstra. The heap may hold stale entries; dist and prev have the nodes
\* that were reached.

dijkstra_relax(st, d, e) ==
  IF e.dst \in DOMAIN st.dist /\ d + e.weight >= st.dist[e.dst] THEN st
  ELSE [heap |-> st.heap \cup {<<d + e.weight, e.dst>>},
        dist |-> (e.dst :> d + e.weight) @@ st.dist, prev |-> (e.dst :> e.src) @@ st.prev]
ByTarget(S) == SortSeq(Listed(S), LAMBDA x, y : x.dst < y.dst \/ (x.dst = y.dst /\ x.pred < y.pred))
RECURSIVE dijkstra_run(_, _, _)
dijkstra_run(G, preds, st) ==
  IF st.heap = {} THEN st
  ELSE LET top == CHOOSE x \in st.heap : \A y \in st.heap : x[1] < y[1] \/ (x[1] = y[1] /\ x[2] <= y[2])
           popped == [st EXCEPT !.heap = @ \ {top}]
       IN  dijkstra_run(G, preds,
             IF top[1] > st.dist[top[2]] THEN popped
             ELSE FoldLeft(LAMBDA s, e : dijkstra_relax(s, top[1], e), popped,
                           ByTarget({e \in G : e.src = top[2] /\ e.pred \in preds})))
dijkstra(G, src, preds) == dijkstra_run(G, preds, [heap |-> {<<0, src>>}, dist |-> src :> 0, prev |-> << >>])
weighted_distances(G, src, preds) == dijkstra(G, src, preds).dist
weighted_path_impl(G, src, dst, preds) ==
  LET st == dijkstra(G, src, preds)
  IN  IF src = dst THEN [weight |-> 0, path |-> <<src>>]
      ELSE IF dst \notin DOMAIN st.dist THEN [weight |-> 0, path |-> << >>]
      ELSE [weight |-> st.dist[dst], path |-> walk_back(st.prev, src, dst)]
bfs_distances_filtered(G, src, preds) ==
  LET adj == [u \in wnodes(G) |-> Ascending({e.dst : e \in {x \in G : x.src = u /\ x.pred \in preds}})]
  IN  bfs(adj, <<src>>, src :> 0, MAX)

-----------------------------------------------------------------------------
\* The k best matches.

Admits(e, x) == e.pred = AnyPred \/ e.pred = x.pred
\* representative, pair_edges: the heaviest edge between two nodes that a
\* pattern edge admits, the least predicate on a tie.
Parallel(G, a, b, e) == {x \in G : x.src = a /\ x.dst = b /\ Admits(e, x)}
representative(G, a, b, e) ==
  LET all == Parallel(G, a, b, e)
      top == {x \in all : \A y \in all : y.weight <= x.weight}
  IN  CHOOSE x \in top : \A y \in top : x.pred <= y.pred

\* match_order, match_tree: the order of a breadth-first search over the
\* variables, and the first pattern edge by which a variable was reached.
Joins(e, u, v) == (e.src = u /\ e.dst = v) \/ (e.src = v /\ e.dst = u)
PatternNeighbors(p, u) == {v \in 1..p.num_vars \ {u} : \E i \in DOMAIN p.edges : Joins(p.edges[i], u, v)}
RECURSIVE match_bfs(_, _, _)
match_bfs(p, queue, st) ==
  IF queue = << >> THEN st
  ELSE LET u == Head(queue)
           new == {v \in PatternNeighbors(p, u) : v \notin st.seen}
       IN  match_bfs(p, Tail(queue) \o Ascending(new),
             [order |-> Append(st.order, u), seen |-> st.seen \cup new,
              parent |-> [v \in new |-> [pvar |-> u,
                            edge |-> Min({i \in DOMAIN p.edges : Joins(p.edges[i], u, v)})]] @@ st.parent])
match_tree(p) ==
  FoldLeft(LAMBDA st, v : IF v \in st.seen THEN st
                          ELSE match_bfs(p, <<v>>, [st EXCEPT !.seen = @ \cup {v}]),
           [order |-> << >>, seen |-> {}, parent |-> << >>], [v \in 1..p.num_vars |-> v])

\* The other end of edge i is bound before var.
BoundEnds(p, pos, var) ==
  {i \in DOMAIN p.edges : LET e == p.edges[i]
                          IN  e.src # e.dst /\ ((e.src = var /\ pos[e.dst] < pos[var])
                                                \/ (e.dst = var /\ pos[e.src] < pos[var]))}
Satisfies(G, p, assign, i, var, c) ==
  LET e == p.edges[i]
      at(x) == IF x = var THEN c ELSE assign[x]
  IN  Parallel(G, at(e.src), at(e.dst), e) # {}
\* expansion: the nodes that one edge of the pattern leads to from its bound end.
expansion(G, p, assign, i, var) ==
  LET e == p.edges[i]
  IN  IF e.dst = var THEN {x.dst : x \in {y \in G : y.src = assign[e.src] /\ Admits(e, y)}}
      ELSE {x.src : x \in {y \in G : y.dst = assign[e.dst] /\ Admits(e, y)}}
\* candidates seeds from the first constraint, candidates_memo from the tree
\* edge; both filter by the others and keep the match injective.
candidates(G, p, pos, assign, var) ==
  LET cs == BoundEnds(p, pos, var)
  IN  IF cs = {} THEN wnodes(G) \ Range(assign)
      ELSE {c \in expansion(G, p, assign, Min(cs), var) \ Range(assign) :
              \A i \in cs \ {Min(cs)} : Satisfies(G, p, assign, i, var, c)}
candidates_memo(G, p, tree, pos, assign, var) ==
  LET cs == BoundEnds(p, pos, var)
  IN  IF cs = {} THEN wnodes(G) \ Range(assign)
      ELSE {c \in expansion(G, p, assign, tree.parent[var].edge, var) \ Range(assign) :
              \A i \in cs : Satisfies(G, p, assign, i, var, c)}

SumSeq(s) == FoldLeft(LAMBDA acc, x : acc + x, 0, s)
\* The best k scores seen, least first.
Scores(topk, k, s) ==
  LET all == SortSeq(Append(topk, s), LAMBDA x, y : x < y)
  IN  IF Len(topk) < k THEN all ELSE IF s > topk[1] THEN Tail(all) ELSE topk
max_w(G, e) == LET ws == {x.weight : x \in {y \in G : Admits(e, y)}} IN IF ws = {} THEN 0 ELSE Max(ws)
\* Faulty: only the weight that is already bound counts, not what may follow.
cannot_beat_partial(st, k, partial, remaining) == Len(st.topk) = k /\ partial < st.topk[1]
\* Branch and bound: partial and what the open edges can add do not reach the k-th
\* best. The code's sums are f64, added in another order than the scores: where
\* they round, it may cut a tie that this keeps.
cannot_beat(st, k, partial, remaining) == Len(st.topk) = k /\ partial + remaining < st.topk[1]

\* topk_rec, topk_rec_memo. q carries the context of a search; topk_try binds the
\* variable at depth to each candidate in turn and closes the edges it completes.
RECURSIVE topk_rec(_, _, _, _, _, _)
RECURSIVE topk_try(_, _, _, _, _, _, _)
topk_try(q, st, assign, depth, partial, remaining, cands) ==
  LET p == q.pattern
      a == (q.tree.order[depth] :> Head(cands)) @@ assign
      closed == {i \in DOMAIN p.edges : Max({q.pos[p.edges[i].src], q.pos[p.edges[i].dst]}) = depth}
      ends(i) == <<a[p.edges[i].src], a[p.edges[i].dst]>>
      closed_ok == \A i \in closed : Parallel(q.G, ends(i)[1], ends(i)[2], p.edges[i]) # {}
      add_partial == MapThenSumSet(LAMBDA i : representative(q.G, ends(i)[1], ends(i)[2], p.edges[i]).weight, closed)
      sub_remaining == MapThenSumSet(LAMBDA i : max_w(q.G, p.edges[i]), closed)
  IN  IF cands = << >> THEN st
      ELSE topk_try(q, IF closed_ok THEN topk_rec(q, st, a, depth + 1, partial + add_partial, remaining - sub_remaining) ELSE st,
                    assign, depth, partial, remaining, Tail(cands))
topk_rec(q, st, assign, depth, partial, remaining) ==
  LET p == q.pattern
      var == q.tree.order[depth]
      edges == FoldLeft(LAMBDA acc, e : Append(acc, representative(q.G, assign[e.src], assign[e.dst], e)), << >>, p.edges)
      score == SumSeq([i \in DOMAIN edges |-> edges[i].weight])
      cands == IF q.memo THEN candidates_memo(q.G, p, q.tree, q.pos, assign, var) ELSE candidates(q.G, p, q.pos, assign, var)
  IN  CASE depth > p.num_vars ->
             [topk |-> IF q.prune THEN Scores(st.topk, q.k, score) ELSE st.topk,
              results |-> Append(st.results, [vars |-> assign, edges |-> edges, score |-> score])]
        [] depth <= p.num_vars /\ q.prune /\ cannot_beat(st, q.k, partial, remaining) -> st
        [] OTHER -> topk_try(q, st, assign, depth, partial, remaining, Ascending(cands))

\* run_topk, run_topk_memoized: scores descend, assignments ascend on a tie.
LexLess(a, b) == \E i \in DOMAIN a : a[i] < b[i] /\ \A j \in 1..(i - 1) : a[j] = b[j]
Rank(results, k) ==
  LET all == SortSeq(results, LAMBDA x, y : x.score > y.score \/ (x.score = y.score /\ LexLess(x.vars, y.vars)))
  IN  SubSeq(all, 1, Min({k, Len(all)}))
run_topk(G, p, k, prune, memo) ==
  LET tree == match_tree(p)
      pos == [v \in 1..p.num_vars |-> CHOOSE i \in DOMAIN tree.order : tree.order[i] = v]
      total_max == SumSeq([i \in DOMAIN p.edges |-> max_w(G, p.edges[i])])
      q == [G |-> G, pattern |-> p, k |-> k, prune |-> prune, memo |-> memo, tree |-> tree, pos |-> pos]
  IN  IF k = 0 \/ p.num_vars = 0 THEN << >>
      ELSE Rank(topk_rec(q, [topk |-> << >>, results |-> << >>], << >>, 1, 0, total_max).results, k)
topk_subgraph(G, p, k) == run_topk(G, p, k, TRUE, FALSE)
topk_subgraph_by(G, p, k) == run_topk(G, p, k, FALSE, FALSE)
topk_subgraph_memoized(G, p, k) == run_topk(G, p, k, TRUE, TRUE)
=============================================================================
