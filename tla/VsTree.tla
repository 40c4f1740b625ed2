------------------------------- MODULE VsTree -------------------------------
(***************************************************************************)
(* src/signature: entity signatures, the VS-tree in memory and the VS-tree *)
(* on disk. A signature is its set of bits.                                *)
(*                                                                         *)
(* A node is [leaf, sig, entries], where the entries of a leaf are [id,    *)
(* sig] and those of an inner node are its children. A tree is [root,      *)
(* disk, pages]: root is empty or holds the root node; on disk, pages is   *)
(* the node file, whose last page is the root.                             *)
(***************************************************************************)
EXTENDS Reason

CONSTANTS
  STR_SIG_LITERAL, EDGE_SIG_INTERVAL_NUM_HALF, EDGE_SIG_INTERVAL_BASE, STR_AND_EDGE_INTERVAL_BASE,
  LIMB,                     \* the bits of a word of a signature
  FANOUT, DISK_FANOUT

STR_SIG_ENTITY == 2 * STR_SIG_LITERAL
STR_SIG_LENGTH == 3 * STR_SIG_LITERAL
EDGE_SIG_LENGTH == 2 * EDGE_SIG_INTERVAL_NUM_HALF * EDGE_SIG_INTERVAL_BASE

-----------------------------------------------------------------------------
\* Signatures.

encode_predicate(p, dir) ==
  LET seed_num == (p % EDGE_SIG_INTERVAL_NUM_HALF) + (IF dir = "Out" THEN EDGE_SIG_INTERVAL_NUM_HALF ELSE 0)
      seed == (p * 5003) % 49957
  IN  (seed % EDGE_SIG_INTERVAL_BASE) + STR_SIG_LENGTH + EDGE_SIG_INTERVAL_BASE * seed_num
encode_str(n, dir) ==
  (n % STR_SIG_LITERAL)
    + (IF is_literal_id(n) THEN STR_SIG_ENTITY ELSE IF dir = "Out" THEN STR_SIG_LITERAL ELSE 0)
encode_combined(p, n, dir) ==
  LET x == p % STR_AND_EDGE_INTERVAL_BASE
      y == n % STR_AND_EDGE_INTERVAL_BASE
      seed == (x + ((x + y + 1) * (x + y)) \div 2) % STR_AND_EDGE_INTERVAL_BASE
  IN  seed + STR_SIG_LENGTH + EDGE_SIG_LENGTH
        + (IF is_literal_id(n) THEN STR_AND_EDGE_INTERVAL_BASE * 2
           ELSE IF dir = "Out" THEN STR_AND_EDGE_INTERVAL_BASE ELSE 0)
encode_edge(p, n, dir) == {encode_predicate(p, dir), encode_str(n, dir), encode_combined(p, n, dir)}
\* Unknown stands for a position of a query that is a variable.
Unknown == 0
encode_query_edge(p, n, dir) ==
  (IF p # Unknown THEN {encode_predicate(p, dir)} ELSE {})
    \cup (IF n # Unknown THEN {encode_str(n, dir)} ELSE {})
    \cup (IF p # Unknown /\ n # Unknown THEN {encode_combined(p, n, dir)} ELSE {})

\* vstree_entries: subjects, and objects that are no literals, with the
\* signature of their edges.
Sign(store, e) ==
  UNION {encode_edge(t[2], t[3], "Out") : t \in {x \in store : x[1] = e}}
    \cup UNION {encode_edge(t[2], t[1], "In") : t \in {x \in store : x[3] = e}}
Entities(store) == {t[1] : t \in store} \cup {t[3] : t \in {x \in store : ~is_literal_id(x[3])}}
\* sig_key: words are compared in order, as numbers.
SigLess(a, b) ==
  LET diff == (a \ b) \cup (b \ a)
      word == Min({x \div LIMB : x \in diff})
  IN  diff # {} /\ Max({x \in diff : x \div LIMB = word}) \in b
vstree_entries(store) ==
  SetToSortSeq({[id |-> e, sig |-> Sign(store, e)] : e \in Entities(store)},
               LAMBDA x, y : SigLess(x.sig, y.sig) \/ (x.sig = y.sig /\ x.id < y.id))

-----------------------------------------------------------------------------
\* Nodes in memory.

Unions(s) == UNION {s[i].sig : i \in DOMAIN s}
Node(leaf, entries) == [leaf |-> leaf, sig |-> Unions(entries), entries |-> entries]
\* choose_child: the child that grows least, the smaller on a tie, then the first.
choose_child(children, sig) ==
  LET added(i) == Cardinality(sig \ children[i].sig)
      pop(i) == Cardinality(children[i].sig)
      better(i, j) == added(i) < added(j) \/ (added(i) = added(j) /\ pop(i) < pop(j))
  IN  Min({i \in DOMAIN children : \A j \in DOMAIN children : ~better(j, i)})
\* seed_split: the last of the most distant pairs seeds two groups, and every
\* other member joins the group it enlarges less.
seed_split(items) ==
  LET dist(p) == Cardinality((items[p[1]].sig \ items[p[2]].sig) \cup (items[p[2]].sig \ items[p[1]].sig))
      pairs == {p \in (DOMAIN items) \X (DOMAIN items) : p[1] < p[2]}
      far == {p \in pairs : \A q \in pairs : dist(q) <= dist(p)}
      seed == CHOOSE p \in far : \A q \in far : q[1] < p[1] \/ (q[1] = p[1] /\ q[2] <= p[2])
      join(g, i) ==
        LET la == Cardinality(items[i].sig \ Unions(g[1]))
            ra == Cardinality(items[i].sig \ Unions(g[2]))
        IN  IF i \in {seed[1], seed[2]} THEN g
            ELSE IF la < ra \/ (la = ra /\ Len(g[1]) <= Len(g[2])) THEN <<Append(g[1], items[i]), g[2]>>
            ELSE <<g[1], Append(g[2], items[i])>>
  IN  FoldLeft(join, <<<<items[seed[1]]>>, <<items[seed[2]]>>>>, [i \in DOMAIN items |-> i])
split(n) == LET g == seed_split(n.entries) IN <<Node(n.leaf, g[1]), Node(n.leaf, g[2])>>

\* insert: the node, and its right sibling if it was split.
RECURSIVE node_insert(_, _)
node_insert(n, e) ==
  LET ci == choose_child(n.entries, e.sig)
      below == node_insert(n.entries[ci], e)
      entries == IF n.leaf THEN Append(n.entries, e)
                 ELSE SubSeq(n.entries, 1, ci - 1) \o below \o SubSeq(n.entries, ci + 1, Len(n.entries))
      grown == [n EXCEPT !.sig = @ \cup e.sig, !.entries = entries]
  IN  IF Len(entries) <= FANOUT THEN <<grown>> ELSE split(grown)
RECURSIVE Holds(_, _)
Holds(n, id) == \E i \in DOMAIN n.entries : IF n.leaf THEN n.entries[i].id = id ELSE Holds(n.entries[i], id)
\* update: the first entry of id, and the nodes above it gain its bits.
RECURSIVE node_update(_, _)
\* Faulty: the nodes above do not gain the bits.
node_update_leaf_only(n, e) ==
  LET at == Min({i \in DOMAIN n.entries : IF n.leaf THEN n.entries[i].id = e.id ELSE Holds(n.entries[i], e.id)})
  IN  IF n.leaf THEN [n EXCEPT !.sig = @ \cup e.sig, !.entries[at] = e]
      ELSE [n EXCEPT !.entries[at] = node_update(@, e)]
node_update(n, e) ==
  LET at == Min({i \in DOMAIN n.entries : IF n.leaf THEN n.entries[i].id = e.id ELSE Holds(n.entries[i], e.id)})
  IN  [n EXCEPT !.sig = @ \cup e.sig, !.entries[at] = IF n.leaf THEN e ELSE node_update(@, e)]
RECURSIVE search(_, _)
search(n, query) ==
  IF ~(query \subseteq n.sig) THEN {}
  ELSE IF n.leaf THEN {e.id : e \in {x \in Range(n.entries) : query \subseteq x.sig}}
  ELSE UNION {search(c, query) : c \in Range(n.entries)}

-----------------------------------------------------------------------------
\* Trees.

NoTree == [root |-> << >>, disk |-> FALSE, pages |-> << >>]
Chunks(s, k) == [i \in 1..((Len(s) + k - 1) \div k) |-> SubSeq(s, (i - 1) * k + 1, Min({i * k, Len(s)}))]
RECURSIVE build_levels(_)
build_levels(level) ==
  IF Len(level) = 1 THEN level[1]
  ELSE LET groups == Chunks(level, FANOUT) IN build_levels([i \in DOMAIN groups |-> Node(FALSE, groups[i])])
build(entries) ==
  IF entries = << >> THEN NoTree
  ELSE LET leaves == Chunks(entries, FANOUT)
       IN  [NoTree EXCEPT !.root = <<build_levels([i \in DOMAIN leaves |-> Node(TRUE, leaves[i])])>>]

\* DiskTree::build, build_node: the pages of a level follow those of the level
\* below; an inner entry has the number of a page for its id.
RECURSIVE disk_levels(_, _)
disk_levels(pages, level) ==
  IF Len(level) = 1 THEN pages
  ELSE LET groups == Chunks(level, DISK_FANOUT)
           new == [i \in DOMAIN groups |-> Node(FALSE, groups[i])]
       IN  disk_levels(pages \o new, [i \in DOMAIN groups |-> [sig |-> new[i].sig, id |-> Len(pages) + i]])
build_disk(entries) ==
  LET leaves == Chunks(entries, DISK_FANOUT)
      pages == [i \in DOMAIN leaves |-> Node(TRUE, leaves[i])]
  IN  [root |-> << >>, disk |-> TRUE,
       pages |-> IF entries = << >> THEN << >>
                 ELSE disk_levels(pages, [i \in DOMAIN pages |-> [sig |-> pages[i].sig, id |-> i]])]
\* Only the children whose signature in the parent covers the query are read.
RECURSIVE disk_search(_, _, _)
disk_search(pages, page, query) ==
  LET n == pages[page]
      hits == {e.id : e \in {x \in Range(n.entries) : query \subseteq x.sig}}
  IN  IF ~(query \subseteq n.sig) THEN {} ELSE IF n.leaf THEN hits ELSE UNION {disk_search(pages, c, query) : c \in hits}

insert(tree, e) ==
  IF tree.root = << >> THEN [tree EXCEPT !.root = <<Node(TRUE, <<e>>)>>]
  ELSE LET parts == node_insert(tree.root[1], e)
       IN  [tree EXCEPT !.root = IF Len(parts) = 1 THEN parts ELSE <<Node(FALSE, parts)>>]
update(tree, e) == [tree EXCEPT !.root = <<node_update(@[1], e)>>]
\* candidates: an empty tree filters nothing, which is all of the entities.
is_empty(tree) == IF tree.disk THEN tree.pages = << >> ELSE tree.root = << >>
candidates(tree, query) ==
  IF tree.disk THEN disk_search(tree.pages, Len(tree.pages), query) ELSE search(tree.root[1], query)

-----------------------------------------------------------------------------
\* src/db/mod.rs: the parts of a Database that keep the signature index next to
\* the store, and that infer triples. The index may be used while it is valid.


CONSTANTS
  Insertable,    \* the triples that are inserted
  Definitions,   \* name -> the text of a rule
  MaxRules       \* bound: rules defined at once

VARIABLES
  store,         \* the default graph
  preds,         \* the terms that have a predicate id
  rules,         \* the rule set
  vstree,
  index_valid

dbVars == <<store, preds, rules, vstree, index_valid>>

\* upsert_entity_signature: sign the entity again from all of its edges.
upsert_entity_signature(tree, S, e) ==
  LET entry == [id |-> e, sig |-> Sign(S, e)]
  IN  IF tree.root # << >> /\ Holds(tree.root[1], e) THEN update(tree, entry) ELSE insert(tree, entry)
\* vstree_index_insert: a literal object is no entity of the tree.
vstree_index_insert(tree, S, t) ==
  LET subject == upsert_entity_signature(tree, S, t[1])
  IN  IF is_literal_id(t[3]) THEN subject ELSE upsert_entity_signature(subject, S, t[3])

\* A tree in a node file cannot be updated; it is no longer valid.
insert_triple(t) ==
  /\ t \notin store
  /\ store' = store \cup {t}
  /\ preds' = preds \cup {t[2]}
  /\ vstree' = IF index_valid /\ ~vstree.disk THEN vstree_index_insert(vstree, store', t) ELSE vstree
  /\ index_valid' = (index_valid /\ ~vstree.disk)
  /\ UNCHANGED rules
remove_triple(t) ==
  /\ t \in store
  /\ store' = store \ {t} /\ index_valid' = FALSE
  /\ UNCHANGED <<preds, rules, vstree>>
rebuild_index ==
  /\ vstree' = build(vstree_entries(store)) /\ index_valid' = TRUE
  /\ UNCHANGED <<store, preds, rules>>
use_streaming_vstree ==
  /\ vstree' = build_disk(vstree_entries(store)) /\ index_valid' = TRUE
  /\ UNCHANGED <<store, preds, rules>>
\* reclaim_unused: predicates of no triple lose their ids.
reclaim_unused ==
  /\ preds' = preds \cap {t[2] : t \in store}
  /\ UNCHANGED <<store, rules, vstree, index_valid>>

materialize_rdfs ==
  LET m == materialize(store, preds)
  IN  /\ store' = m.store /\ preds' = m.preds
      /\ index_valid' = (index_valid /\ m.store = store)
      /\ UNCHANGED <<rules, vstree>>
run_rules ==
  LET m == apply(rules, store, preds)
  IN  /\ store' = m.store /\ preds' = m.preds /\ rules' = m.rules
      /\ index_valid' = (index_valid /\ m.store = store)
      /\ UNCHANGED vstree
Define(name) ==
  /\ Len(rules) < MaxRules
  /\ rules' = add_rule(rules, name, Definitions[name])
  /\ UNCHANGED <<store, preds, vstree, index_valid>>
Manage(name) ==
  /\ rules' \in {remove_rule(rules, name), set_enabled(rules, name, TRUE), set_enabled(rules, name, FALSE)}
  /\ UNCHANGED <<store, preds, vstree, index_valid>>

-----------------------------------------------------------------------------
(* Properties.                                                             *)

\* What the edges Q of a query, <<predicate, neighbour, direction>>, ask of an entity.
Fits(S, e, x) ==
  \E t \in S : /\ x[1] \in {Unknown, t[2]}
               /\ IF x[3] = "Out" THEN t[1] = e /\ x[2] \in {Unknown, t[3]} ELSE t[3] = e /\ x[2] \in {Unknown, t[1]}
QueryEdges == ({t[2] : t \in store} \cup {Unknown}) \X (Terms(store) \cup {Unknown}) \X {"Out", "In"}

\* While the index is valid, no entity that has the edges of a query is filtered
\* out, and the tree, in memory or in its file, keeps exactly the entities whose
\* signature covers the query's: splits, updates in place and rebuilt trees agree.
FilterIsExact ==
  LET sig == [x \in QueryEdges |-> encode_query_edge(x[1], x[2], x[3])]
      fit == [x \in QueryEdges |-> {e \in Entities(store) : Fits(store, e, x)}]
      own == [e \in Entities(store) |-> Sign(store, e)]
      kept == [q \in {sig[x] \cup sig[y] : x, y \in QueryEdges} |-> candidates(vstree, q)]
  IN  index_valid /\ ~is_empty(vstree) =>
        /\ \A x, y \in QueryEdges : fit[x] \cap fit[y] \subseteq kept[sig[x] \cup sig[y]]
        /\ \A q \in DOMAIN kept : kept[q] = {e \in Entities(store) : q \subseteq own[e]}

\* materialize_rdfs() adds exactly what the RDFS rules entail, whatever was removed
\* and reclaimed before: predicates that only occur in the schema are bridged too.
ClosureIsExact ==
  LET m == materialize(store, preds)
  IN  m.store = RdfsClosure(store) /\ materialize(m.store, m.preds) = m

\* run_rules() reaches the fixpoint of the enabled rules in any order of
\* definition, and the effects it counts are the triples it added.
RulesReachFixpoint ==
  LET m == apply(rules, store, preds)
      effects == FoldLeft(LAMBDA acc, r : acc + r.effect_count, 0, m.rules)
  IN  m.store = RuleClosure(rules, store) /\ effects = Cardinality(m.store \ store)

\* Inference adds what the rules entail, all of it and nothing else, for the
\* RDFS rules and the user's (materialize, apply).
InferenceIsExact == ClosureIsExact /\ RulesReachFixpoint

=============================================================================
