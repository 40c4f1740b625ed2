------------------------------ MODULE MCGraph ------------------------------
(* Four parts: the graph algorithms on every graph that some edges form;    *)
(* materialization of a schema; user-defined rules; and the signature index.*)
(* The first three use no index: they begin with one in an empty node file, *)
(* which the first insertion makes invalid.                                 *)
EXTENDS VsTree

VARIABLE part

C == INSTANCE GraphView

\* Terms: 1 to 4 are plain, 5 to 9 the vocabulary, 10 is a literal.
Edges == {<<1, 1, 2>>, <<2, 1, 3>>, <<3, 1, 1>>, <<3, 2, 4>>, <<4, 1, 3>>, <<2, 2, 3>>, <<1, 2, 1>>, <<4, 2, 1>>, <<2, 1, 4>>}
Schema == {<<1, 6, 2>>, <<2, 6, 1>>, <<2, 6, 3>>, <<4, 5, 1>>, <<3, 7, 4>>, <<4, 8, 2>>, <<4, 9, 3>>, <<1, 3, 10>>}
Facts == {<<1, 1, 2>>, <<2, 1, 3>>, <<3, 1, 1>>, <<2, 2, 10>>}
Signed == {<<1, 1, 2>>, <<2, 2, 3>>, <<3, 1, 4>>, <<4, 2, 1>>, <<1, 2, 10>>, <<3, 3, 3>>}
MCInsertable == Edges \cup Schema \cup Facts \cup Signed
MCDefinitions ==
  [trans |-> [body |-> <<-1, 1, -2, -2, 1, -3>>, head |-> <<-1, 1, -3>>],
   loop |-> [body |-> <<-1, 1, -1>>, head |-> <<-1, 2, 4>>],
   swap |-> [body |-> <<-1, 2, -2>>, head |-> <<-2, 3, -1>>],
   \* refused
   bare |-> [body |-> << >>, head |-> <<1, 1, 1>>],
   both |-> [body |-> <<-1, 1, -2>>, head |-> <<-1, 2, -2, -2, 2, -1>>],
   torn |-> [body |-> <<-1, 1>>, head |-> <<-1, 2, -1>>],
   every |-> [body |-> <<-1, -3, -2>>, head |-> <<-2, 1, -1>>]]

Init ==
  /\ part \in {"graph", "schema", "rules", "index"}
  /\ store = {} /\ preds = {} /\ rules = << >>
  /\ vstree = IF part = "index" THEN NoTree ELSE build_disk(<< >>)
  /\ index_valid = TRUE
Next ==
  /\ UNCHANGED part
  /\ \/ part = "graph" /\ \E t \in Edges : insert_triple(t)
     \/ /\ part = "schema"
        /\ (\E t \in Schema : insert_triple(t) \/ remove_triple(t)) \/ materialize_rdfs \/ reclaim_unused
     \/ /\ part = "rules"
        /\ (\E t \in Facts : insert_triple(t)) \/ run_rules \/ \E n \in DOMAIN Definitions : Define(n) \/ Manage(n)
     \/ /\ part = "index"
        /\ (\E t \in Signed : insert_triple(t) \/ remove_triple(t)) \/ rebuild_index \/ use_streaming_vstree
Spec == Init /\ [][Next]_<<dbVars, part>>

-----------------------------------------------------------------------------
\* Reference definitions, by walks and sets.

E == C!from_source(store)
V == C!nodes(E)
Sym(R) == R \cup {<<e[2], e[1]>> : e \in R}
RECURSIVE Within(_, _, _)
Within(R, S, k) == IF k = 0 THEN S ELSE Within(R, S \cup {e[2] : e \in {x \in R : x[1] \in S}}, k - 1)
Reaches(R, u, v) == v \in Within(R, {u}, Cardinality(V))
Dist(R, u, v) == Min({k \in 0..Cardinality(V) : v \in Within(R, {u}, k)})
Reached(R, u) == Within(R, {u}, Cardinality(V))
\* Walks of n steps, as sequences of nodes.
Walks(R, n) == {w \in [1..(n + 1) -> V] : \A i \in 1..n : <<w[i], w[i + 1]>> \in R}
SimplePaths(R, n) == {w \in Walks(R, n) : IsInjective(w)}
Shortest(u, v) == IF ~Reaches(E, u, v) THEN {}
                  ELSE {w \in Walks(E, Dist(E, u, v)) : w[1] = u /\ w[Len(w)] = v}

Weight == [t \in MCInsertable |-> (t[1] + 2 * t[2] + t[3]) % 3]
WG == C!from_store_with_weights(store, Weight)
\* The lightest edge between two nodes by some predicates, and the lightest path.
Lightest(P, u, v) == Min({e.weight : e \in {x \in WG : x.src = u /\ x.dst = v /\ x.pred \in P}})
Over(P) == {<<e.src, e.dst>> : e \in {x \in WG : x.pred \in P}}
PathWeight(P, w) == FoldLeft(LAMBDA acc, i : acc + Lightest(P, w[i], w[i + 1]), 0, [i \in 1..(Len(w) - 1) |-> i])
LeastWeight(P, u, v) ==
  Min({PathWeight(P, w) : w \in {x \in UNION {SimplePaths(Over(P), n) : n \in 0..3} : x[1] = u /\ x[Len(x)] = v}})

\* Searches by queue, heap and stack find what walks and simple paths define:
\* hop distances within any budget, shortest paths and their number, simple paths
\* up to a length, and the lightest paths over the allowed predicates.
WalksAgree ==
  part = "graph" =>
    \A u \in V :
      /\ C!bfs_distances(E, u) = [v \in Within(E, {u}, Cardinality(V)) |-> Dist(E, u, v)]
      /\ \A k \in {1, 2, C!MAX} :
           C!bounded_out_bfs(E, u, k) =
             [v \in Within(E, {u}, Min({k, Cardinality(V)})) |-> Dist(E, u, v)]
      /\ C!khop_neighbors(E, u, 2) = {v \in Reached(E, u) : Dist(E, u, v) = 2}
      /\ C!khop_all_neighbors(E, u, 2) = Within(E, {u}, 2) \ {u}
      /\ C!bfs_count(E, u, 2) = Cardinality(C!khop_all_neighbors(E, u, 2))
      /\ LET found == C!khop_enumerate_paths(E, u, 2, 100)
         IN  /\ IsInjective(found)
             /\ ToSet(found) = {w \in SimplePaths(E, 1) \cup SimplePaths(E, 2) : w[1] = u}
             /\ C!khop_enumerate_paths(E, u, 2, 2) = SubSeq(found, 1, Min({2, Len(found)}))
      /\ \A P \in {{1}, {1, 2}} :
           LET d == C!weighted_distances(WG, u, P)
           IN  /\ d = [v \in Within(Over(P), {u}, Cardinality(V)) |-> LeastWeight(P, u, v)]
               /\ \A v \in DOMAIN d \ {u} :
                    LET r == C!weighted_path_impl(WG, u, v, P)
                    IN  r.weight = d[v] /\ r.path[1] = u /\ r.path[Len(r.path)] = v /\ PathWeight(P, r.path) = d[v]
               /\ C!bfs_distances_filtered(WG, u, P) =
                    [v \in Within(Over(P), {u}, Cardinality(V)) |-> Dist(Over(P), u, v)]
      /\ \A v \in V :
           /\ C!shortest_path(E, u, v) \in (IF Reaches(E, u, v) THEN Shortest(u, v) ELSE {<< >>})
           /\ C!khop_reachable(E, u, v, 1) = (u = v \/ <<u, v>> \in E)
           /\ C!count_shortest_paths(E, u, v) = Cardinality(Shortest(u, v))

\* Union-find and Tarjan's stack put two nodes together exactly if they reach each
\* other, and a cycle is found exactly if some node reaches itself; the estimate of
\* the diameter is the distance of some two nodes, and zero only without a path.
ComponentsAgree ==
  part = "graph" =>
    LET wcc == C!weakly_connected_components(E)
        scc == C!strongly_connected_components(E)
        far == C!diameter_estimate(E)
    IN  /\ DOMAIN wcc = V /\ DOMAIN scc = V
        /\ \A u, v \in V :
             /\ (wcc[u] = wcc[v]) = Reaches(Sym(E), u, v)
             /\ (scc[u] = scc[v]) = (Reaches(E, u, v) /\ Reaches(E, v, u))
        /\ C!has_cycle(E) = \E e \in E : Reaches(E, e[2], e[1])
        /\ (far > 0) = (\E e \in E : e[1] # e[2])
        /\ V # {} => \E u, v \in V : Reaches(Sym(E), u, v) /\ Dist(Sym(E), u, v) = far

Degree(S, v) == Cardinality({u \in S \ {v} : <<u, v>> \in Sym(E)})
Triangles == {T \in SUBSET V : Cardinality(T) = 3 /\ \A a, b \in T : a # b => <<a, b>> \in Sym(E)}

\* Peeling in bucket order gives the largest k of which a node has a k-core; the
\* triangles of edges, of nodes and of the whole graph are the same; and the
\* dependencies accumulated from every source are the shares of shortest paths
\* that run through a node; closeness, clustering and similarity are the ratios
\* of what they count.
MeasuresAgree ==
  part = "graph" =>
    LET core == C!k_core(E)
        between == C!betweenness_centrality(E)
        through(v, s, t) == Cardinality({w \in Shortest(s, t) : \E i \in 2..(Len(w) - 1) : w[i] = v})
    IN  /\ \A v \in V : /\ core[v] = Max({k \in 0..3 : \E S \in SUBSET V : v \in S /\ \A u \in S : Degree(S, u) >= k})
                        /\ C!node_triangle_count(E, v) = Cardinality({T \in Triangles : v \in T})
                        /\ between[v] = FoldSet(LAMBDA p, acc :
                             acc + (C!SCALE * through(v, p[1], p[2])) \div Cardinality(Shortest(p[1], p[2])), 0,
                             {p \in V \X V : p[1] # p[2] /\ v \notin {p[1], p[2]} /\ Reaches(E, p[1], p[2])})
        /\ C!triangle_count(E) = Cardinality(Triangles)
        /\ LET f == C!closeness_centrality(E)
               far(v) == {u \in V \ {v} : Reaches(E, v, u)}
               total(v) == FoldSet(LAMBDA u, acc : acc + Dist(E, v, u), 0, far(v))
           IN  \A v \in V : f[v][1] * total(v) * (Cardinality(V) - 1) = f[v][2] * Cardinality(far(v)) ^ 2
        /\ LET near(v) == {u \in V \ {v} : <<u, v>> \in Sym(E)}
               wedges(v) == {P \in SUBSET near(v) : Cardinality(P) = 2}
               closed(v) == {P \in wedges(v) : P \cup {v} \in Triangles}
               sum(f(_)) == FoldSet(LAMBDA v, acc : acc + Cardinality(f(v)), 0, V)
               global == C!global_clustering_coefficient(E)
           IN  /\ global[1] * sum(wedges) = global[2] * sum(closed)
               /\ \A v \in V : LET l == C!local_clustering_coefficient(E, v)
                                IN  l[1] * Cardinality(wedges(v)) = l[2] * Cardinality(closed(v))
               /\ \A u, v \in V : LET j == C!jaccard_similarity(E, u, v)
                                   IN  j[1] * Cardinality(near(u) \cup near(v)) = j[2] * Cardinality(near(u) \cap near(v))

\* Modularity times its denominator, undirected and directed.
Together(lab) == {p \in V \X V : lab[p[1]] = lab[p[2]]}
Arcs(u, v) == IF <<u, v>> \in E THEN 1 ELSE 0
OutDeg(v) == Cardinality({e \in E : e[1] = v})
InDeg(v) == Cardinality({e \in E : e[2] = v})
Modularity(lab) ==
  FoldSet(LAMBDA p, acc : acc + 2 * Cardinality(E) * (Arcs(p[1], p[2]) + Arcs(p[2], p[1]))
                            - (OutDeg(p[1]) + InDeg(p[1])) * (OutDeg(p[2]) + InDeg(p[2])), 0, Together(lab))
DirectedModularity(lab) ==
  FoldSet(LAMBDA p, acc : acc + Cardinality(E) * Arcs(p[1], p[2]) - OutDeg(p[1]) * InDeg(p[2]), 0, Together(lab))
Apart == [v \in V |-> v]
\* No community reaches over two components (it need not be connected itself).
WithinComponents(lab) == \A u, v \in V : lab[u] = lab[v] => Reaches(Sym(E), u, v)

Merged(lab, c, d) == [v \in V |-> IF lab[v] = d THEN c ELSE lab[v]]

\* Whatever order a hash map is read in, Louvain ends with communities that stay
\* within components, have no lower modularity than single nodes, and of which
\* no two would gain by being one: what its last level, which moves nothing,
\* ensures. Label propagation stays within components; it may stop at its cap of
\* rounds, so nothing is said of how stable its labels are.
CommunitiesAreMaximal ==
  part = "graph" =>
    /\ \A lab \in C!louvain(E) :
         /\ WithinComponents(lab) /\ Modularity(lab) >= Modularity(Apart)
         /\ \A c, d \in Range(lab) : Modularity(Merged(lab, c, d)) <= Modularity(lab)
    /\ \A lab \in C!louvain_directed(E) :
         /\ WithinComponents(lab) /\ DirectedModularity(lab) >= DirectedModularity(Apart)
         /\ \A c, d \in Range(lab) : DirectedModularity(Merged(lab, c, d)) <= DirectedModularity(lab)
    /\ WithinComponents(C!label_propagation(E))

Patterns ==
  {[num_vars |-> 3, edges |-> <<[src |-> 1, dst |-> 2, pred |-> 1], [src |-> 2, dst |-> 3, pred |-> 0]>>],
   [num_vars |-> 3, edges |-> <<[src |-> 3, dst |-> 1, pred |-> 0], [src |-> 1, dst |-> 2, pred |-> 0],
                                [src |-> 2, dst |-> 3, pred |-> 1]>>],
   [num_vars |-> 2, edges |-> <<[src |-> 1, dst |-> 1, pred |-> 2], [src |-> 2, dst |-> 1, pred |-> 0]>>]}
\* All matches, by trying every injective assignment, with the heaviest edges.
AllMatches(p) ==
  LET fit(a, i) == {e \in WG : /\ e.src = a[p.edges[i].src] /\ e.dst = a[p.edges[i].dst]
                               /\ p.edges[i].pred \in {0, e.pred}}
      heaviest(S) == CHOOSE e \in S : \A f \in S : f.weight < e.weight \/ (f.weight = e.weight /\ e.pred <= f.pred)
      matched(a) == [i \in DOMAIN p.edges |-> heaviest(fit(a, i))]
  IN  {[vars |-> a, edges |-> matched(a), score |-> FoldLeft(LAMBDA acc, e : acc + e.weight, 0, matched(a))]
         : a \in {f \in [1..p.num_vars -> V] : IsInjective(f) /\ \A i \in DOMAIN p.edges : fit(f, i) # {}}}

\* The k best matches are those of exhaustive enumeration, ties included, whether
\* branches are cut by the bound or not and whichever edge seeds the candidates.
BestMatchesAgree ==
  part = "graph" =>
    \A p \in Patterns, k \in {1, 3} :
      LET best == C!Rank(C!Listed(AllMatches(p)), k)
      IN  C!topk_subgraph(WG, p, k) = best /\ C!topk_subgraph_by(WG, p, k) = best /\ C!topk_subgraph_memoized(WG, p, k) = best

\* Searches return what exhaustive enumeration would: walks, paths and matches
\* (bfs, shortest_path, dijkstra, all_paths, topk_subgraph).
SearchesAgree == WalksAgree /\ BestMatchesAgree

\* What is computed of the whole graph is what its definition says: components,
\* cores, triangles and the other measures, communities (analytics/mod.rs).
StructuresAgree == ComponentsAgree /\ MeasuresAgree /\ CommunitiesAreMaximal

=============================================================================
