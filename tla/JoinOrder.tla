----------------------------- MODULE JoinOrder -----------------------------
(***************************************************************************)
(* src/query/candidates.rs, optimizer.rs and planner.rs: which ids a       *)
(* variable of a basic graph pattern can have, and in which order its      *)
(* triple patterns are joined. A compiled pattern is <<s, p, o>>, a slot   *)
(* is the number of a variable (negative) or an id; g is a set of          *)
(* id-triples and its reads are those of module TripleSet. Estimates       *)
(* (f64) are integers here, divisions round down.                          *)
(***************************************************************************)
EXTENDS Integers, Sequences, FiniteSets, FiniteSetsExt, SequencesExt, Functions, TLC

CONSTANTS
  LEFTDEEP_DP_LIMIT,    \* most patterns for the left-deep enumeration
  BUSHY_DP_LIMIT,       \* most patterns for the bushy enumeration
  MASK_BITS,            \* most variables for either: 64 in the code
  BUSHY_DP_FROM,        \* fewest patterns for it: 4 in the code
  SMALL_QUERY_VAR_NUM,  \* most nodes ordered by score
  MAX_2OPT_PASSES

IsSlotVar(x) == x < 0
\* The elements of S in some order.
Enumerated(S) == FoldSet(LAMBDA x, s : Append(s, x), << >>, S)
Largest(a, b) == IF a >= b THEN a ELSE b
Least(a, b) == IF a <= b THEN a ELSE b

\* The access patterns: the triples that agree with the constant slots.
scan(g, pat) == {t \in g : \A i \in 1..3 : IsSlotVar(pat[i]) \/ t[i] = pat[i]}
Column(T, i) == {t[i] : t \in T}

plan_vars(pat) == {pat[i] : i \in {j \in 1..3 : IsSlotVar(pat[j])}}
so_vars_of(pat) == plan_vars(<<pat[1], 0, pat[3]>>)
AllVars(pats) == UNION {plan_vars(pats[i]) : i \in DOMAIN pats}
Index(pats) == DOMAIN pats

-----------------------------------------------------------------------------
\* Candidates: variable -> set of ids; a variable without a set is free.

intersect_into(cand, v, S) ==
  IF v \in DOMAIN cand THEN [cand EXCEPT ![v] = @ \cap S] ELSE (v :> S) @@ cand

\* Pass 1: a variable next to a constant.
constant_edges(cand, g, pat) ==
  LET subject == IF IsSlotVar(pat[1]) /\ ~IsSlotVar(pat[3])
                 THEN intersect_into(cand, pat[1], Column(scan(g, pat), 1)) ELSE cand
  IN  IF ~IsSlotVar(pat[1]) /\ IsSlotVar(pat[3])
      THEN intersect_into(subject, pat[3], Column(scan(g, pat), 3)) ELSE subject

\* size / (log2 size + 1) with the logarithm rounded up to at least 1.
Log2(n) == CHOOSE k \in 0..n : 2^k >= n /\ (k = 0 \/ 2^(k - 1) < n)
should_propagate(cand, v, card) ==
  /\ v \in DOMAIN cand
  /\ LET size == Largest(Cardinality(cand[v]), 2)
     IN  card <= Largest(size \div (Log2(size) + 1), 1)
\* Pass 2: the population of a rare predicate.
propagate(cand, g, pat) ==
  LET of_p == scan(g, <<-1, pat[2], -2>>)
      pred_card == Cardinality(of_p)
      subject == IF should_propagate(cand, pat[1], pred_card)
                 THEN intersect_into(cand, pat[1], Column(of_p, 1)) ELSE cand
  IN  IF IsSlotVar(pat[2]) \/ ~IsSlotVar(pat[1]) \/ ~IsSlotVar(pat[3]) THEN cand
      ELSE IF should_propagate(subject, pat[3], pred_card)
           THEN intersect_into(subject, pat[3], Column(of_p, 3)) ELSE subject

generate(pats, g) ==
  LET first == FoldLeft(LAMBDA c, pat : constant_edges(c, g, pat), << >>, pats)
  IN  FoldLeft(LAMBDA c, pat : propagate(c, g, pat), first, pats)

\* constraints: variable -> the set of ids the string index returns for all
\* the substrings its value must contain. A predicate's id is of another space.
refine_with_substrings(cand, constraints, pats) ==
  LET so == UNION {so_vars_of(pats[i]) : i \in Index(pats)}
      safe == {v \in DOMAIN constraints \cap so : \A i \in Index(pats) : pats[i][2] # v}
  IN  FoldSet(LAMBDA v, c : intersect_into(c, v, constraints[v]), cand, safe)

-----------------------------------------------------------------------------
\* Estimates.

pattern_card(g, pat) == Largest(IF plan_vars(pat) = {} THEN 1 ELSE Cardinality(scan(g, pat)), 1)
pattern_cost(g, pat) == pattern_card(g, pat)

\* build_ndv: distinct values of v in the pattern, no more than its candidates.
\* With a variable predicate, a subject of a constant object is counted by its
\* predicates and an object of a constant subject by its triples.
ndv(g, cand, pat, v) ==
  LET count(i) == CASE i = 1 /\ IsSlotVar(pat[2]) /\ ~IsSlotVar(pat[3]) -> Cardinality(Column(scan(g, pat), 2))
                    [] i = 3 /\ IsSlotVar(pat[2]) /\ ~IsSlotVar(pat[1]) -> Cardinality(scan(g, pat))
                    [] OTHER -> Cardinality(Column(scan(g, pat), i))
      d == Min({Largest(count(i), 1) : i \in {j \in 1..3 : pat[j] = v}})
  IN  IF v \in DOMAIN cand THEN Least(d, Largest(Cardinality(cand[v]), 1)) ELSE d
subset_ndv(g, cand, pats, S, v) ==
  LET ds == {ndv(g, cand, pats[i], v) : i \in {j \in S : v \in plan_vars(pats[j])}}
  IN  IF ds = {} THEN 1 ELSE Min(ds)
VarsOf(pats, S) == UNION {plan_vars(pats[i]) : i \in S}
join_card(g, cand, pats, A, B, card_a, card_b) ==
  LET shared == VarsOf(pats, A) \cap VarsOf(pats, B)
      denom == FoldSet(LAMBDA v, d : d * Largest(subset_ndv(g, cand, pats, A, v),
                                                 subset_ndv(g, cand, pats, B, v)), 1, shared)
  IN  IF shared = {} THEN card_a * card_b ELSE Largest((card_a * card_b) \div denom, 1)

-----------------------------------------------------------------------------
\* optimizer.rs: the best order, or tree, of every subset of the patterns.

\* The cheapest of a non-empty set of trees; the code keeps the first it meets.
Cheapest(P) == CHOOSE x \in P : \A y \in P : x.cost <= y.cost

\* The left-deep table: for every subset of the patterns the cheapest cost, its
\* size, the pattern joined last (the first that gives that cost) and the subset
\* before it.
left_deep_table(g, cand, pats) ==
  LET single(i) == [cost |-> pattern_card(g, pats[i]), card |-> pattern_card(g, pats[i]), last |-> i, prev |-> {}]
      joined(dp, S, i) ==
        LET jc == join_card(g, cand, pats, S \ {i}, {i}, dp[S \ {i}].card, pattern_card(g, pats[i]))
        IN  [cost |-> dp[S \ {i}].cost + jc, card |-> jc, last |-> i, prev |-> S \ {i}]
      first(P) == CHOOSE x \in P : \A y \in P : x.cost < y.cost \/ (x.cost = y.cost /\ x.last <= y.last)
  IN  FoldLeft(LAMBDA dp, k : dp @@ [S \in kSubset(k, Index(pats)) |-> first({joined(dp, S, i) : i \in S})],
               [S \in kSubset(1, Index(pats)) |-> single(Min(S))], [k \in 1..(Len(pats) - 1) |-> k + 1])
\* Faulty: the unwinding takes the pattern joined last of the subset before.
dp_left_deep_shifted(g, cand, pats) ==
  LET dp == left_deep_table(g, cand, pats)
      order[S \in SUBSET Index(pats)] == IF S = {} THEN << >> ELSE Append(order[dp[S].prev], (IF dp[S].prev = {} THEN dp[S] ELSE dp[dp[S].prev]).last)
  IN  [order |-> order[Index(pats)], cost |-> dp[Index(pats)].cost]
\* The order is what unwinding the table from the full set gives.
dp_left_deep(g, cand, pats) ==
  LET dp == left_deep_table(g, cand, pats)
      order[S \in SUBSET Index(pats)] == IF S = {} THEN << >> ELSE Append(order[dp[S].prev], dp[S].last)
  IN  [order |-> order[Index(pats)], cost |-> dp[Index(pats)].cost]

\* A tree is a leaf, the number of a pattern, or has subtrees l and r.
Leaf(i) == [leaf |-> i]
IsLeaf(tree) == "leaf" \in DOMAIN tree
RECURSIVE is_left_deep(_)
is_left_deep(tree) == IsLeaf(tree) \/ (IsLeaf(tree.r) /\ is_left_deep(tree.l))
dp_bushy(g, cand, pats) ==
  LET dp[S \in SUBSET Index(pats)] ==
        IF Cardinality(S) = 1
        THEN LET i == CHOOSE j \in S : TRUE
             IN  [tree |-> Leaf(i), cost |-> pattern_card(g, pats[i]), card |-> pattern_card(g, pats[i])]
        ELSE Cheapest({LET a == dp[L] b == dp[S \ L]
                           jc == join_card(g, cand, pats, L, S \ L, a.card, b.card)
                       IN  [tree |-> [l |-> a.tree, r |-> b.tree], cost |-> a.cost + b.cost + jc, card |-> jc] :
                         L \in {M \in SUBSET S : Min(S) \in M /\ M # S}})
  IN  dp[Index(pats)]

-----------------------------------------------------------------------------
\* planner.rs: orders the variables, then the patterns.

Edges(pats, v) == {i \in Index(pats) : v \in so_vars_of(pats[i])}
\* A self-loop is two edges.
degree(pats, v) ==
  Cardinality({i \in Index(pats) : pats[i][1] = v}) + Cardinality({i \in Index(pats) : pats[i][3] = v})
neighbors_in(pats, v, nodes, placed) ==
  {w \in nodes \ placed : \E i \in Edges(pats, v) :
     \/ pats[i][1] = v /\ pats[i][3] = w
     \/ pats[i][3] = v /\ pats[i][1] = w}
whole_db_size(g, pats, v) ==
  Largest(Cardinality(Column(g, 1)) + (IF \A i \in Edges(pats, v) : pats[i][3] # v THEN 0
                                       ELSE Cardinality(Column(g, 3))), 1)
var_num(g, cand, pats, v) ==
  IF v \in DOMAIN cand THEN Cardinality(cand[v]) ELSE whole_db_size(g, pats, v)

PARAM_SIZE == 1000000
PARAM_PRE == 10000
node_score(g, cand, pats, v, placed) ==
  LET pre_size(i) == IF IsSlotVar(pats[i][2])
                     THEN Largest(Cardinality(g) \div Largest(Cardinality(Column(g, 2)), 1), 2)
                     ELSE Largest(Cardinality(scan(g, <<-1, pats[i][2], -2>>)), 1)
      linked == {i \in Edges(pats, v) : (so_vars_of(pats[i]) \ {v}) \cap placed # {}}
  IN  1 + FoldSet(LAMBDA i, x : x + PARAM_PRE \div (pre_size(i) + 1), 0, linked)
        + PARAM_SIZE \div (var_num(g, cand, pats, v) + 1)

\* The average number of values of w that an edge from a placed neighbour
\* leads to, times 10000. Fewer than 50 candidates: the sample is all of them.
best_edge_selectivity(g, cand, pats, w, placed) ==
  LET linked == {i \in Edges(pats, w) : (so_vars_of(pats[i]) \ {w}) \cap placed # {}}
      sel(i) ==
        LET nei == IF pats[i][1] = w THEN 3 ELSE 1
            at == pats[i][nei]
            driver == IF at \in DOMAIN cand THEN cand[at] ELSE {}
            reached == {t \in scan(g, pats[i]) :
                          t[nei] \in driver /\ (w \in DOMAIN cand => t[4 - nei] \in cand[w])}
        IN  IF driver = {}
            THEN IF IsSlotVar(pats[i][2]) THEN 10000
                 ELSE Largest((10000 * Cardinality(scan(g, <<-1, pats[i][2], -2>>)))
                                \div Largest(Cardinality(Column(g, 1)), 1), 100)
            ELSE Largest((10000 * Cardinality(reached)) \div Cardinality(driver), 1)
  IN  IF linked = {} THEN 10000 ELSE Min({sel(i) : i \in linked})

Best(S, Score(_)) == CHOOSE v \in S : \A w \in S : Score(v) >= Score(w)
\* heuristic_order and sampling_order: from the best first node, always the
\* best neighbour of what is placed, or any node if there is none.
RECURSIVE grow(_, _, _, _, _)
grow(g, cand, pats, nodes, order) ==
  LET placed == ToSet(order)
      frontier == UNION {neighbors_in(pats, v, nodes, placed) : v \in placed}
      Score(v) == IF Cardinality(nodes) <= SMALL_QUERY_VAR_NUM
                  THEN node_score(g, cand, pats, v, placed)
                  ELSE IF placed = {} THEN -var_num(g, cand, pats, v)
                  ELSE -best_edge_selectivity(g, cand, pats, v, placed)
  IN  IF placed = nodes THEN order
      ELSE grow(g, cand, pats, nodes,
                Append(order, IF placed # {} /\ frontier = {}
                              THEN CHOOSE v \in nodes \ placed : TRUE
                              ELSE Best(IF placed = {} THEN nodes ELSE frontier, Score)))

\* bridge_to_pattern_order: a pattern follows the last of its variables.
bridge_to_pattern_order(g, pats, var_order) ==
  LET Ready(k) == {i \in Index(pats) : /\ var_order[k] \in so_vars_of(pats[i])
                                       /\ so_vars_of(pats[i]) \subseteq {var_order[j] : j \in 1..k}}
      Listed(S) == SortSeq(Enumerated(S), LAMBDA i, j : pattern_cost(g, pats[i]) < pattern_cost(g, pats[j]))
      ready == FlattenSeq([k \in DOMAIN var_order |-> Listed(Ready(k))])
  IN  ready \o Enumerated(Index(pats) \ ToSet(ready))

\* Nodes of degree one come last; without others they are the nodes.
plan(g, cand, pats) ==
  LET so == UNION {so_vars_of(pats[i]) : i \in Index(pats)}
      join_vars == {v \in so : degree(pats, v) > 1}
      nodes == IF join_vars = {} THEN so ELSE join_vars
  IN  IF Len(pats) <= 1 THEN [i \in Index(pats) |-> i]
      ELSE bridge_to_pattern_order(g, pats, grow(g, cand, pats, nodes, << >>) \o Enumerated(so \ nodes))

order_cost(g, cand, pats, order) ==
  LET step(acc, i) ==
        LET jc == join_card(g, cand, pats, acc.done, {i}, acc.card, pattern_card(g, pats[i]))
        IN  [done |-> acc.done \cup {i}, card |-> jc, cost |-> acc.cost + jc]
      first == [done |-> {order[1]}, card |-> pattern_card(g, pats[order[1]]), cost |-> pattern_card(g, pats[order[1]])]
  IN  FoldLeft(step, first, Tail(order)).cost

Swapped(order, a, b) == [order EXCEPT ![a] = order[b], ![b] = order[a]]
\* greedy_2opt: the best swap of two, at most MAX_2OPT_PASSES times.
RECURSIVE improve(_, _, _, _, _)
improve(g, cand, pats, order, passes) ==
  LET cost(o) == order_cost(g, cand, pats, o)
      swaps == {Swapped(order, x[1], x[2]) : x \in {y \in Index(pats) \X Index(pats) : y[1] < y[2]}}
      better == {o \in swaps : cost(o) < cost(order)}
  IN  IF passes = 0 \/ better = {} THEN order
      ELSE improve(g, cand, pats, Best(better, LAMBDA o : -cost(o)), passes - 1)
greedy_2opt(g, cand, pats) == improve(g, cand, pats, plan(g, cand, pats), MAX_2OPT_PASSES)

\* optimize: an order, and a tree when one is bushy and strictly cheaper. The
\* enumerations need a bit for every one of the num_vars variables.
optimize(g, cand, pats, num_vars) ==
  LET n == Len(pats)
      left_deep == dp_left_deep(g, cand, pats)
      bushy == dp_bushy(g, cand, pats)
  IN  IF n <= 1 THEN [order |-> [i \in 1..n |-> i], trees |-> {}]
      ELSE IF n > LEFTDEEP_DP_LIMIT \/ num_vars > MASK_BITS THEN [order |-> greedy_2opt(g, cand, pats), trees |-> {}]
      ELSE [order |-> left_deep.order,
            trees |-> IF n \in BUSHY_DP_FROM..BUSHY_DP_LIMIT /\ ~is_left_deep(bushy.tree)
                         /\ bushy.cost < left_deep.cost
                      THEN {bushy.tree} ELSE {}]

\* judge: how two solution sets are joined.
judge(left, right) ==
  IF Least(left, right) * Largest(left, right) <= left + right THEN "NestedLoop" ELSE "Hash"
=============================================================================
