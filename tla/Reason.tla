------------------------------- MODULE Reason -------------------------------
(***************************************************************************)
(* src/reason/mod.rs: RDFS materialization and user-defined rules.         *)
(*                                                                         *)
(* A term is a number. A property is an entity where a statement is about  *)
(* it and a predicate where a triple uses it: preds are the terms that     *)
(* have a predicate id. The variables of a rule are negative.              *)
(***************************************************************************)
EXTENDS Integers, Sequences, FiniteSets, FiniteSetsExt, SequencesExt, Functions, TLC

CONSTANTS
  RDF_TYPE, RDFS_SUBCLASS, RDFS_SUBPROP, RDFS_DOMAIN, RDFS_RANGE,   \* terms
  LITERAL_FIRST_ID                                                  \* the literals are the terms from here

is_literal_id(x) == x >= LITERAL_FIRST_ID
so_by_p(store, p) == {<<t[1], t[3]>> : t \in {x \in store : x[2] = p}}

-----------------------------------------------------------------------------
\* One round of forward chaining. known are the words of the vocabulary that had
\* a predicate id when materialize() began.

ent_to_pred(preds, e) == {e} \cap preds
Compose(pairs, more) ==
  {<<x[1], y[2]>> : <<x, y>> \in {z \in pairs \X more : z[1][2] = z[2][1]}}
gather_subclass(store, tp) ==
  LET sub == so_by_p(store, RDFS_SUBCLASS)
  IN  {<<c[1], RDFS_SUBCLASS, c[2]>> : c \in {x \in Compose(sub, sub) : x[1] # x[2]}}
        \cup (IF tp THEN {<<x[1], RDF_TYPE, x[2]>> : x \in Compose(so_by_p(store, RDF_TYPE), sub)} ELSE {})
gather_subproperty(store, preds) ==
  LET sub == so_by_p(store, RDFS_SUBPROP)
      inherit(x) == {<<d[1], x[2], d[2]>> : d \in so_by_p(store, x[1])}
  IN  {<<p[1], RDFS_SUBPROP, p[2]>> : p \in {x \in Compose(sub, sub) : x[1] # x[2]}}
        \cup UNION {inherit(x) : x \in {y \in sub : {y[1], y[2]} \subseteq preds /\ y[1] # y[2]}}
gather_domain(store, preds) ==
  UNION {{<<d[1], RDF_TYPE, x[2]>> : d \in UNION {so_by_p(store, p) : p \in ent_to_pred(preds, x[1])}}
           : x \in so_by_p(store, RDFS_DOMAIN)}
gather_range(store, preds) ==
  UNION {{<<d[2], RDF_TYPE, x[2]>> : d \in UNION {so_by_p(store, p) : p \in ent_to_pred(preds, x[1])}}
           : x \in so_by_p(store, RDFS_RANGE)}
gather(store, preds, known, tp) ==
  (IF RDFS_SUBCLASS \in known THEN gather_subclass(store, tp) ELSE {})
    \cup (IF RDFS_SUBPROP \in known THEN gather_subproperty(store, preds) ELSE {})
    \cup (IF RDFS_DOMAIN \in known /\ tp THEN gather_domain(store, preds) ELSE {})
    \cup (IF RDFS_RANGE \in known /\ tp THEN gather_range(store, preds) ELSE {})
RECURSIVE saturate(_, _, _, _)
saturate(store, preds, known, tp) ==
  LET new == gather(store, preds, known, tp)
  IN  IF new \subseteq store THEN store ELSE saturate(store \cup new, preds, known, tp)

\* Faulty: the targets of subproperty statements are not interned.
materialize_uninterned(store, preds) ==
  LET known == preds \cap {RDFS_SUBCLASS, RDFS_SUBPROP, RDFS_DOMAIN, RDFS_RANGE}
      needs_type == known \cap {RDFS_SUBCLASS, RDFS_DOMAIN, RDFS_RANGE} # {}
      typed == preds \cup (IF needs_type THEN {RDF_TYPE} ELSE {})
  IN  IF known = {} THEN [store |-> store, preds |-> preds]
      ELSE [store |-> saturate(store, typed, known, RDF_TYPE \in typed), preds |-> typed]
\* materialize: every property a subPropertyOf statement names gets a predicate id.
materialize(store, preds) ==
  LET known == preds \cap {RDFS_SUBCLASS, RDFS_SUBPROP, RDFS_DOMAIN, RDFS_RANGE}
      needs_type == known \cap {RDFS_SUBCLASS, RDFS_DOMAIN, RDFS_RANGE} # {}
      typed == preds \cup (IF needs_type THEN {RDF_TYPE} ELSE {})
      named == IF RDFS_SUBPROP \in known THEN UNION {{x[1], x[2]} : x \in so_by_p(store, RDFS_SUBPROP)} ELSE {}
  IN  IF known = {} THEN [store |-> store, preds |-> preds]
      ELSE [store |-> saturate(store, typed \cup named, known, RDF_TYPE \in typed), preds |-> typed \cup named]

-----------------------------------------------------------------------------
\* Rules, [name, body, head, enabled, effect_count].

\* bind_var, required: the bindings that extend b by one triple of a pattern.
Matches(b, x, t) == IF x >= 0 THEN x = t ELSE x \in DOMAIN b => b[x] = t
Extensions(b, pat, store) ==
  {[x \in DOMAIN b \cup {y \in {pat[1], pat[3]} : y < 0} |->
      IF x \in DOMAIN b THEN b[x] ELSE IF x = pat[1] THEN so[1] ELSE so[2]]
     : so \in {z \in so_by_p(store, pat[2]) :
                 /\ Matches(b, pat[1], z[1]) /\ Matches(b, pat[3], z[2])
                 /\ pat[1] = pat[3] /\ pat[1] < 0 => z[1] = z[2]}}
resolve_term(b, x) == IF x >= 0 THEN x ELSE b[x]
\* instantiate: a head with an unbound variable or a literal subject gives nothing.
instantiate(head, b) ==
  IF {x \in {head[1], head[3]} : x < 0} \subseteq DOMAIN b /\ ~is_literal_id(resolve_term(b, head[1]))
  THEN {<<resolve_term(b, head[1]), head[2], resolve_term(b, head[3])>>} ELSE {}
derive(rule, store, preds) ==
  LET step(bs, pat) == IF pat[2] \in preds THEN UNION {Extensions(b, pat, store) : b \in bs} ELSE {}
  IN  UNION {instantiate(rule.head, b) : b \in FoldLeft(step, {<< >>}, rule.body)}

\* apply: the rules in turn, each seeing what the earlier ones added, round by round.
apply_rule(st, i) ==
  LET derived == derive(st.rules[i], st.store, st.preds)
      new == derived \ st.store
  IN  IF ~st.rules[i].enabled THEN st
      ELSE [store |-> st.store \cup new,
            preds |-> st.preds \cup {t[2] : t \in derived},
            rules |-> [st.rules EXCEPT ![i].effect_count = @ + Cardinality(new)]]
apply_round(st) == FoldLeft(apply_rule, st, [i \in DOMAIN st.rules |-> i])
RECURSIVE apply_rounds(_)
apply_rounds(st) ==
  LET after == apply_round(st) IN IF after.store = st.store THEN after ELSE apply_rounds(after)
apply(rules, store, preds) ==
  apply_rounds([store |-> store, preds |-> preds, rules |-> [i \in DOMAIN rules |-> [rules[i] EXCEPT !.effect_count = 0]]])

\* A definition, [body, head], is the terms on the two sides of its arrow: whole
\* patterns, at least one and exactly one, with constant IRIs as predicates.
parse_patterns(toks) == [k \in 1..(Len(toks) \div 3) |-> SubSeq(toks, 3 * k - 2, 3 * k)]
parses(def) ==
  /\ Len(def.body) % 3 = 0 /\ Len(def.head) % 3 = 0
  /\ Len(def.body) > 0 /\ Len(def.head) = 3
  /\ \A pat \in Range(parse_patterns(def.body \o def.head)) : pat[2] >= 0 /\ ~is_literal_id(pat[2])
parse(name, def) ==
  [name |-> name, body |-> parse_patterns(def.body), head |-> parse_patterns(def.head)[1], enabled |-> TRUE, effect_count |-> 0]

\* RuleSet: names are unique, rules keep the order of their definition.
rule_names(rules) == {rules[i].name : i \in DOMAIN rules}
add_rule(rules, name, def) ==
  IF name \in rule_names(rules) \/ ~parses(def) THEN rules ELSE Append(rules, parse(name, def))
remove_rule(rules, name) == SelectSeq(rules, LAMBDA r : r.name # name)
set_enabled(rules, name, on) ==
  [i \in DOMAIN rules |-> IF rules[i].name = name THEN [rules[i] EXCEPT !.enabled = on] ELSE rules[i]]

-----------------------------------------------------------------------------
\* What the two promise.

\* The rules of the table in the source, on terms; a class or property is not
\* stated to be below itself.
Entailed(S) ==
  LET Has(p) == {t \in S : t[2] = p}
  IN  {t \in {<<a[1], p, b[3]>> : a, b \in S, p \in {RDFS_SUBCLASS, RDFS_SUBPROP}} :
         t[1] # t[3] /\ \E a, b \in Has(t[2]) : a[1] = t[1] /\ a[3] = b[1] /\ b[3] = t[3]}
      \cup {<<a[1], RDF_TYPE, b[3]>> : <<a, b>> \in {z \in Has(RDF_TYPE) \X Has(RDFS_SUBCLASS) : z[1][3] = z[2][1]}}
      \cup {<<a[1], b[3], a[3]>> : <<a, b>> \in {z \in S \X Has(RDFS_SUBPROP) : z[1][2] = z[2][1]}}
      \cup {<<a[1], RDF_TYPE, b[3]>> : <<a, b>> \in {z \in S \X Has(RDFS_DOMAIN) : z[1][2] = z[2][1]}}
      \cup {<<a[3], RDF_TYPE, b[3]>> : <<a, b>> \in {z \in S \X Has(RDFS_RANGE) : z[1][2] = z[2][1]}}
RECURSIVE RdfsClosure(_)
RdfsClosure(S) == IF Entailed(S) \subseteq S THEN S ELSE RdfsClosure(S \cup Entailed(S))

\* The triples that some assignment of terms to its variables lets a rule infer.
RuleVars(rule) == {x \in UNION {Range(rule.body[i]) : i \in DOMAIN rule.body} : x < 0}
Terms(S) == UNION {{t[1], t[3]} : t \in S}
Inferable(rule, S) ==
  LET at(a, pat) == <<resolve_term(a, pat[1]), pat[2], resolve_term(a, pat[3])>>
  IN  IF \E x \in Range(rule.head) : x < 0 /\ x \notin RuleVars(rule) THEN {}
      ELSE {t \in {at(a, rule.head) : a \in {f \in [RuleVars(rule) -> Terms(S)] : \A i \in DOMAIN rule.body : at(f, rule.body[i]) \in S}} :
         ~is_literal_id(t[1])}
RECURSIVE RuleClosure(_, _)
RuleClosure(rules, S) ==
  LET new == UNION {Inferable(rules[i], S) : i \in {j \in DOMAIN rules : rules[j].enabled}}
  IN  IF new \subseteq S THEN S ELSE RuleClosure(rules, S \cup new)
=============================================================================
