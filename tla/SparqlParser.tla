---------------------------- MODULE SparqlParser ----------------------------
(* The recursive-descent SPARQL parser, src/src/parser/sparql/mod.rs: from   *)
(* the tokens of lexer.rs to the algebra of ast.rs.                          *)
(*                                                                           *)
(* A token is [t |-> kind, v |-> text].  Text is a sequence of pieces (an    *)
(* IRI is the concatenation of a namespace and a local name), words are in   *)
(* upper case except the verb "a".  A tree is a tuple that starts with the   *)
(* name of its constructor.  A parser is [tokens, pos, prefixes, base]; its  *)
(* position is 0 once an error has been returned.  Every fn that parses is   *)
(* an operator from a parser to <<value, parser afterwards>>.  Messages of   *)
(* errors are left out.                                                      *)
EXTENDS Integers, Sequences

Tok(t) == [t |-> t, v |-> <<>>]
Word(w) == [t |-> "Word", v |-> <<w>>]
NoToken == Tok("None")

(* One element of a sequence or nothing: Option.                             *)
None == <<>>
Some(x) == <<x>>

RDF_TYPE == <<"http:", "/", "type">>
INTEGER == <<"http:", "/", "integer">>
DECIMAL == <<"http:", "/", "decimal">>
DOUBLE == <<"http:", "/", "double">>
XSD_BOOLEAN == <<"http:", "/", "boolean">>

new(tokens) ==
  [tokens |-> tokens, pos |-> 1, prefixes |-> [x \in {} |-> <<>>], base |-> None]

(***************************************************************************)
(* The token cursor.                                                       *)
(***************************************************************************)
Min2(a, b) == IF a <= b THEN a ELSE b
failed(p) == p.pos = 0
peek_at(p, n) ==
  IF failed(p) THEN NoToken ELSE p.tokens[Min2(p.pos + n, Len(p.tokens))]
peek(p) == peek_at(p, 0)
at(p, kind) == peek(p).t = kind
bump(p) ==
  IF ~failed(p) /\ p.pos < Len(p.tokens) THEN [p EXCEPT !.pos = @ + 1] ELSE p
err(p) == [p EXCEPT !.pos = 0]
Fail(p) == << <<"Fail">>, err(p) >>

keyword(p) == IF at(p, "Word") THEN peek(p).v[1] ELSE ""
eat_keyword(p, kw) == IF keyword(p) = kw THEN bump(p) ELSE p
expect(p, kind) == IF at(p, kind) THEN bump(p) ELSE err(p)
expect_keyword(p, kw) == IF keyword(p) = kw THEN bump(p) ELSE err(p)
expect_var(p) == IF at(p, "Var") THEN <<peek(p).v, bump(p)>> ELSE Fail(p)

(* `result?` and then an expected token.                                     *)
then_expect(r, kind) == <<r[1], expect(r[2], kind)>>
(* The result with its value wrapped in a constructor.                       *)
wrapped(name, r) == << <<name, r[1]>>, r[2] >>

(***************************************************************************)
(* Terms.                                                                  *)
(***************************************************************************)
(* An IRI is a sequence of pieces: a scheme, slashes, names. A relative one   *)
(* is put after the base as it is, whatever the base ends with.              *)
is_absolute_iri(s) == s # <<>> /\ s[1] = "http:"
resolve_iri(p, s) ==
  IF p.base # None /\ ~is_absolute_iri(s) THEN p.base[1] \o s ELSE s
expand_pname(p, prefix, local) ==
  IF prefix \in DOMAIN p.prefixes THEN Some(p.prefixes[prefix] \o local) ELSE None

(* The IRI a token names, if it names one.                                   *)
datatype_iri(p, tok) ==
  CASE tok.t = "Iri" -> Some(resolve_iri(p, tok.v))
    [] tok.t = "PName" -> expand_pname(p, tok.v[1], Tail(tok.v))
    [] OTHER -> None

typed_literal(value, datatype) == <<"Literal", value, Some(datatype), None>>

token_to_term(p, tok) ==
  LET iri == datatype_iri(p, tok)
      datatype == [i \in DOMAIN tok.datatype |-> datatype_iri(p, tok.datatype[i])]
  IN CASE tok.t \in {"Iri", "PName"} -> IF iri = None THEN None ELSE Some(<<"Iri", iri[1]>>)
       [] tok.t = "Blank" -> Some(<<"Blank", tok.v>>)
       [] tok.t = "Integer" -> Some(typed_literal(tok.v, INTEGER))
       [] tok.t = "Decimal" -> Some(typed_literal(tok.v, DECIMAL))
       [] tok.t = "Double" -> Some(typed_literal(tok.v, DOUBLE))
       [] tok.t = "Str" ->
            IF \E i \in DOMAIN datatype : datatype[i] = None THEN None
            ELSE Some(<<"Literal", tok.v, [i \in DOMAIN datatype |-> datatype[i][1]], tok.lang>>)
       [] tok = Word("a") -> Some(<<"Iri", RDF_TYPE>>)
       [] OTHER -> None

parse_term(p) ==
  LET term == token_to_term(p, peek(p)) IN
  IF term = None THEN Fail(p) ELSE <<term[1], bump(p)>>

(* The IRI of the current token, for the positions that take nothing else.   *)
expect_graph_iri(p) ==
  LET iri == datatype_iri(p, peek(p)) IN
  IF iri = None THEN Fail(p) ELSE <<iri[1], bump(p)>>

parse_pattern_term(p) ==
  IF at(p, "Var") THEN wrapped("Var", expect_var(p)) ELSE wrapped("Term", parse_term(p))

parse_graph_term(p) ==
  IF at(p, "Var") THEN wrapped("Var", expect_var(p)) ELSE wrapped("Iri", expect_graph_iri(p))
parse_service_ref(p) ==
  IF at(p, "Var") THEN wrapped("Var", expect_var(p)) ELSE wrapped("Iri", expect_graph_iri(p))

RECURSIVE parse_prologue(_)
parse_prologue(p) ==
  LET pfx == bump(p)
      iri == IF keyword(p) = "PREFIX" THEN bump(pfx) ELSE pfx
      name == peek(pfx)
  IN CASE keyword(p) \notin {"PREFIX", "BASE"} -> p
       [] keyword(p) = "PREFIX" /\ name.t # "PName" -> err(p)
       [] ~at(iri, "Iri") -> err(p)
       [] keyword(p) = "PREFIX" /\ name.t = "PName" /\ at(iri, "Iri") ->
            parse_prologue([bump(iri) EXCEPT !.prefixes =
              [x \in DOMAIN @ \cup {name.v[1]} |-> IF x = name.v[1] THEN peek(iri).v ELSE @[x]]])
       [] OTHER -> parse_prologue([bump(iri) EXCEPT !.base = Some(peek(iri).v)])

(* Both skip [NAMED] <iri> after every keyword kw.                           *)
RECURSIVE skip_clauses(_, _)
skip_clauses(p, kw) ==
  LET q == eat_keyword(bump(p), "NAMED") IN
  CASE keyword(p) # kw -> p
    [] keyword(p) = kw /\ at(q, "Iri") -> skip_clauses(bump(q), kw)
    [] keyword(p) = kw /\ at(q, "PName") ->
         skip_clauses(IF kw = "USING" THEN expect_graph_iri(q)[2] ELSE bump(q), kw)
    [] OTHER -> err(q)
skip_dataset_clauses(p) == skip_clauses(p, "FROM")
skip_using_clauses(p) == skip_clauses(p, "USING")

(***************************************************************************)
(* Property paths.                                                         *)
(***************************************************************************)
starts_verb(p) ==
  at(p, "Var") \/ at(p, "Iri") \/ at(p, "PName") \/ at(p, "Caret") \/ at(p, "Not")
    \/ at(p, "LParen") \/ peek(p) = Word("a")

(* <<iri, inverse>>: read_one.                                               *)
read_one(p) ==
  LET inverse == at(p, "Caret")
      q == IF inverse THEN bump(p) ELSE p
      term == parse_term(q)
  IN IF term[1][1] = "Iri" THEN << <<term[1][2], inverse>>, term[2] >> ELSE Fail(p)

RECURSIVE negated_rest(_)
negated_rest(r) ==
  IF at(r[2], "Pipe")
  THEN LET one == read_one(bump(r[2])) IN negated_rest(<<Append(r[1], one[1]), one[2]>>)
  ELSE r

parse_negated_path_set(p) ==
  LET q == bump(p)
      first == IF at(p, "LParen") THEN read_one(q) ELSE read_one(p)
      set == << <<first[1]>>, first[2] >>
  IN CASE at(p, "LParen") /\ at(q, "RParen") -> << <<"NegatedSet", <<>>>>, bump(q) >>
       [] at(p, "LParen") /\ ~at(q, "RParen") ->
            wrapped("NegatedSet", then_expect(negated_rest(set), "RParen"))
       [] OTHER -> wrapped("NegatedSet", set)

RECURSIVE parse_path(_), path_alternatives(_), parse_path_seq(_), path_steps(_),
          parse_path_primary(_), path_modifiers(_)

parse_path_primary(p) ==
  CASE at(p, "LParen") -> then_expect(parse_path(bump(p)), "RParen")
    [] at(p, "Not") -> parse_negated_path_set(bump(p))
    [] peek(p) = Word("a") -> << <<"Pred", RDF_TYPE>>, bump(p) >>
    [] at(p, "Iri") \/ at(p, "PName") -> wrapped("Pred", expect_graph_iri(p))
    [] OTHER -> Fail(p)

path_modifiers(r) ==
  LET after == bump(r[2]) IN
  CASE at(r[2], "Star") -> path_modifiers(<< <<"ZeroOrMore", r[1]>>, after >>)
    [] at(r[2], "Plus") -> path_modifiers(<< <<"OneOrMore", r[1]>>, after >>)
    [] at(r[2], "Question") -> path_modifiers(<< <<"ZeroOrOne", r[1]>>, after >>)
    [] OTHER -> r

parse_path_elt(p) == path_modifiers(parse_path_primary(p))

parse_path_elt_or_inverse(p) ==
  IF at(p, "Caret") THEN wrapped("Inverse", parse_path_elt(bump(p))) ELSE parse_path_elt(p)

path_steps(r) ==
  IF at(r[2], "Slash")
  THEN LET right == parse_path_elt_or_inverse(bump(r[2]))
       IN path_steps(<< <<"Seq", r[1], right[1]>>, right[2] >>)
  ELSE r
parse_path_seq(p) == path_steps(parse_path_elt_or_inverse(p))

path_alternatives(r) ==
  IF at(r[2], "Pipe")
  THEN LET right == parse_path_seq(bump(r[2]))
       IN path_alternatives(<< <<"Alt", r[1], right[1]>>, right[2] >>)
  ELSE r
parse_path(p) == path_alternatives(parse_path_seq(p))

(* A plain predicate is a term, anything else a path.                        *)
parse_path_or_verb(p) ==
  LET path == parse_path(p) IN
  CASE at(p, "Var") -> wrapped("Simple", parse_pattern_term(p))
    [] path[1][1] = "Pred" -> << <<"Simple", <<"Term", <<"Iri", path[1][2]>>>>>>, path[2] >>
    [] OTHER -> wrapped("Path", path)

(***************************************************************************)
(* Triples: out is [bgp, paths].                                           *)
(***************************************************************************)
RECURSIVE object_list(_, _, _, _), verb_list(_, _, _)

push(out, s, verb, o) ==
  IF verb[1] = "Simple"
  THEN [out EXCEPT !.bgp = Append(@, <<s, verb[2], o>>)]
  ELSE [out EXCEPT !.paths = Append(@, <<"Path", s, verb[2], o>>)]

object_list(p, out, s, verb) ==
  LET object == parse_pattern_term(p)
      more == push(out, s, verb, object[1])
  IN IF at(object[2], "Comma") THEN object_list(bump(object[2]), more, s, verb)
     ELSE <<more, object[2]>>

verb_list(p, out, s) ==
  LET verb == parse_path_or_verb(p)
      objects == object_list(verb[2], out, s, verb[1])
      after == bump(objects[2])
  IN IF ~at(objects[2], "Semicolon") THEN objects
     ELSE IF starts_verb(after) THEN verb_list(after, objects[1], s)
     ELSE <<objects[1], after>>

parse_triples_same_subject(p, out) ==
  LET subject == parse_pattern_term(p) IN verb_list(subject[2], out, subject[1])

NoTriples == [bgp |-> <<>>, paths |-> <<>>]

(* The triples up to the closing brace, for the blocks that take only those. *)
RECURSIVE block_triples(_, _)
block_triples(p, out) ==
  CASE failed(p) \/ at(p, "Eof") -> <<out, err(p)>>
    [] at(p, "RBrace") -> <<out, bump(p)>>
    [] at(p, "Dot") -> block_triples(bump(p), out)
    [] OTHER -> LET r == parse_triples_same_subject(p, out) IN block_triples(r[2], r[1])

(* Property paths are not allowed in a template.                             *)
parse_triple_template_block(p) ==
  LET r == block_triples(expect(p, "LBrace"), NoTriples) IN
  IF r[1].paths = <<>> THEN <<r[1].bgp, r[2]>> ELSE Fail(p)

(***************************************************************************)
(* Expressions.                                                            *)
(***************************************************************************)
RECURSIVE parse_or(_), more_or(_), parse_and(_), more_and(_), parse_additive(_),
          more_additive(_), parse_multiplicative(_), more_multiplicative(_),
          parse_unary(_), parse_primary(_), more_args(_), parse_group_graph_pattern(_)

parse_expr(p) == parse_or(p)

parse_constraint(p) ==
  IF at(p, "LParen") THEN then_expect(parse_expr(bump(p)), "RParen") ELSE parse_primary(p)

more_or(r) ==
  IF at(r[2], "Or")
  THEN LET rhs == parse_and(bump(r[2])) IN more_or(<< <<"Or", r[1], rhs[1]>>, rhs[2] >>)
  ELSE r
parse_or(p) == more_or(parse_and(p))

CompareOps == {"Eq", "Ne", "Lt", "Gt", "Le", "Ge"}
parse_relational(p) ==
  LET lhs == parse_additive(p)
      rhs == parse_additive(bump(lhs[2]))
  IN IF peek(lhs[2]).t \in CompareOps
     THEN << <<"Compare", peek(lhs[2]).t, lhs[1], rhs[1]>>, rhs[2] >>
     ELSE lhs

more_and(r) ==
  IF at(r[2], "And")
  THEN LET rhs == parse_relational(bump(r[2]))
       IN more_and(<< <<"And", r[1], rhs[1]>>, rhs[2] >>)
  ELSE r
parse_and(p) == more_and(parse_relational(p))

more_additive(r) ==
  IF peek(r[2]).t \in {"Plus", "Minus"}
  THEN LET rhs == parse_multiplicative(bump(r[2]))
       IN more_additive(<< <<"Arith", peek(r[2]).t, r[1], rhs[1]>>, rhs[2] >>)
  ELSE r
parse_additive(p) == more_additive(parse_multiplicative(p))

more_multiplicative(r) ==
  IF peek(r[2]).t \in {"Star", "Slash"}
  THEN LET rhs == parse_unary(bump(r[2]))
       IN more_multiplicative(<< <<"Arith", peek(r[2]).t, r[1], rhs[1]>>, rhs[2] >>)
  ELSE r
parse_multiplicative(p) == more_multiplicative(parse_unary(p))

parse_unary(p) ==
  CASE at(p, "Not") -> wrapped("Not", parse_unary(bump(p)))
    [] at(p, "Minus") -> wrapped("Neg", parse_unary(bump(p)))
    [] at(p, "Plus") -> wrapped("UnaryPlus", parse_unary(bump(p)))
    [] OTHER -> parse_primary(p)

agg_func == {"COUNT", "SUM", "AVG", "MIN", "MAX", "SAMPLE", "GROUP_CONCAT"}

parse_aggregate(p, func) ==
  LET open == expect(p, "LParen")
      distinct == keyword(open) = "DISTINCT"
      inside == eat_keyword(open, "DISTINCT")
      star == func = "COUNT" /\ at(inside, "Star")
      arg == IF star THEN <<None, bump(inside)>>
             ELSE LET e == parse_expr(inside) IN <<Some(e[1]), e[2]>>
      separated == func = "GROUP_CONCAT" /\ at(arg[2], "Semicolon")
      text == expect(expect_keyword(bump(arg[2]), "SEPARATOR"), "Eq")
      end == IF separated THEN expect(text, "Str") ELSE arg[2]
      sep == IF separated THEN Some(peek(text).v) ELSE None
  IN << <<"Aggregate", func, distinct, arg[1], sep>>, expect(end, "RParen") >>

more_args(r) ==
  IF at(r[2], "Comma")
  THEN LET e == parse_expr(bump(r[2])) IN more_args(<<Append(r[1], e[1]), e[2]>>)
  ELSE r

parse_arg_list(p) ==
  LET open == bump(p)
      first == parse_expr(eat_keyword(open, "DISTINCT"))
  IN CASE at(open, "Star") -> << <<>>, expect(bump(open), "RParen") >>
       [] at(open, "RParen") -> << <<>>, bump(open) >>
       [] OTHER -> then_expect(more_args(<< <<first[1]>>, first[2] >>), "RParen")

exists(negated, r) == << <<"Exists", negated, r[1]>>, r[2] >>

parse_word(p) ==
  LET w == keyword(p)
      after == bump(p)
      args == parse_arg_list(after)
  IN CASE w = "TRUE" -> << <<"Const", typed_literal(<<"true">>, XSD_BOOLEAN)>>, after >>
       [] w = "FALSE" -> << <<"Const", typed_literal(<<"false">>, XSD_BOOLEAN)>>, after >>
       [] w = "EXISTS" -> exists(FALSE, parse_group_graph_pattern(after))
       [] w = "NOT" -> exists(TRUE, parse_group_graph_pattern(expect_keyword(after, "EXISTS")))
       [] w \in agg_func -> parse_aggregate(after, w)
       [] OTHER -> IF at(after, "LParen") THEN << <<"Builtin", w, args[1]>>, args[2] >>
                   ELSE Fail(after)

parse_primary(p) ==
  CASE at(p, "LParen") -> then_expect(parse_expr(bump(p)), "RParen")
    [] at(p, "Var") -> wrapped("Var", expect_var(p))
    [] at(p, "Word") -> parse_word(p)
    [] OTHER -> wrapped("Const", parse_term(p))

(* ( expr AS ?v ), after the parenthesis: <<expr, v>>.                       *)
parse_as(p) ==
  LET e == parse_expr(p)
      v == expect_var(expect_keyword(e[2], "AS"))
  IN << <<e[1], v[1]>>, expect(v[2], "RParen") >>

(***************************************************************************)
(* Group graph patterns.  g collects one: its algebra so far, its FILTERs, *)
(* and the triples and paths that wait for the next flush.                 *)
(***************************************************************************)
join_opt(left, right) == IF left = <<"Empty">> THEN right ELSE <<"Join", left, right>>

RECURSIVE join_all(_, _)
join_all(left, ps) == IF ps = <<>> THEN left ELSE join_all(join_opt(left, Head(ps)), Tail(ps))

(* The triples stay pending until the group ends or something flushes them.  *)
flush_paths_only(g) ==
  [g EXCEPT !.current = join_all(@, g.paths), !.paths = <<>>]

flush(g) ==
  [g EXCEPT
     !.current = join_all(IF g.bgp = <<>> THEN @ ELSE join_opt(@, <<"Bgp", g.bgp>>), g.paths),
     !.bgp = <<>>, !.paths = <<>>]

joined(g, pattern, p) == <<[g EXCEPT !.current = join_opt(@, pattern)], p>>

parse_values_cell(p) ==
  IF keyword(p) = "UNDEF" THEN <<None, bump(p)>>
  ELSE LET term == parse_term(p) IN <<Some(term[1]), term[2]>>

RECURSIVE value_vars(_, _), value_row(_, _), value_rows(_, _, _), parse_group_or_union(_)

value_vars(p, vs) ==
  IF at(p, "Var") THEN value_vars(bump(p), Append(vs, peek(p).v)) ELSE <<vs, p>>

value_row(p, row) ==
  IF failed(p) \/ at(p, "RParen") THEN <<row, bump(p)>>
  ELSE LET cell == parse_values_cell(p) IN value_row(cell[2], Append(row, cell[1]))

(* Rows in parentheses, or one cell per row for the single variable.         *)
value_rows(p, rows, several) ==
  LET row == IF several THEN value_row(bump(p), <<>>)
             ELSE LET cell == parse_values_cell(p) IN << <<cell[1]>>, cell[2] >>
  IN IF failed(p) \/ (IF several THEN ~at(p, "LParen") ELSE at(p, "RBrace"))
     THEN <<rows, expect(p, "RBrace")>>
     ELSE value_rows(row[2], Append(rows, row[1]), several)

parse_inline_values(p) ==
  LET several == at(p, "LParen")
      vs == IF several THEN then_expect(value_vars(bump(p), <<>>), "RParen")
            ELSE LET v == expect_var(p) IN << <<v[1]>>, v[2] >>
      rows == value_rows(expect(vs[2], "LBrace"), <<>>, several)
  IN << <<"Values", vs[1], rows[1]>>, rows[2] >>

RECURSIVE more_unions(_), group_elements(_, _), parse_select(_)
more_unions(r) ==
  IF keyword(r[2]) = "UNION"
  THEN LET right == parse_group_graph_pattern(bump(r[2]))
       IN more_unions(<< <<"Union", r[1], right[1]>>, right[2] >>)
  ELSE r
parse_group_or_union(p) == more_unions(parse_group_graph_pattern(p))

brace_starts_subselect(p) == at(p, "LBrace") /\ peek_at(p, 1) = Word("SELECT")
parse_subselect_group(p) ==
  wrapped("SubSelect", then_expect(parse_select(expect(p, "LBrace")), "RBrace"))

parse_optional(p, g) ==
  LET group == parse_group_graph_pattern(p)
      filtered == group[1][1] = "Filter"
      right == IF filtered THEN group[1][3] ELSE group[1]
  IN <<[g EXCEPT !.current = <<"LeftJoin", @, right, IF filtered THEN group[1][2] ELSE <<>>>>],
       group[2]>>

parse_service(p, g) ==
  LET silent == keyword(p) = "SILENT"
      endpoint == parse_service_ref(eat_keyword(p, "SILENT"))
      inner == parse_group_graph_pattern(endpoint[2])
  IN joined(g, <<"Service", endpoint[1], silent, inner[1]>>, inner[2])

parse_element(p, g) ==
  LET kw == keyword(p)
      q == bump(p)
      flushed == flush(g)
      constraint == parse_constraint(q)
      group == parse_group_graph_pattern(q)
      bound == parse_as(expect(q, "LParen"))
      values == parse_inline_values(q)
      gterm == parse_graph_term(q)
      inner == parse_group_graph_pattern(gterm[2])
      node == IF brace_starts_subselect(p) THEN parse_subselect_group(p)
              ELSE parse_group_or_union(p)
  IN CASE at(p, "Dot") -> <<g, q>>
       [] kw = "FILTER" -> <<[g EXCEPT !.filters = Append(@, constraint[1])], constraint[2]>>
       [] kw = "OPTIONAL" -> parse_optional(q, flushed)
       [] kw = "MINUS" ->
            <<[flushed EXCEPT !.current = <<"Minus", @, group[1]>>], group[2]>>
       [] kw = "BIND" ->
            <<[flushed EXCEPT !.current = <<"Extend", @, bound[1][2], bound[1][1]>>], bound[2]>>
       [] kw = "VALUES" -> joined(flushed, values[1], values[2])
       [] kw = "GRAPH" -> joined(flushed, <<"Graph", gterm[1], inner[1]>>, inner[2])
       [] kw = "SERVICE" -> parse_service(q, flushed)
       [] at(p, "LBrace") -> joined(flushed, node[1], node[2])
       [] OTHER ->
            LET r == parse_triples_same_subject(p, [bgp |-> g.bgp, paths |-> g.paths])
            IN <<[g EXCEPT !.bgp = r[1].bgp, !.paths = r[1].paths], r[2]>>

group_elements(p, g) ==
  CASE failed(p) \/ at(p, "Eof") -> <<g, err(p)>>
    [] at(p, "RBrace") -> <<flush(g), bump(p)>>
    [] OTHER -> LET r == parse_element(p, g) IN group_elements(r[2], r[1])

parse_group_graph_pattern(p) ==
  LET r == group_elements(expect(p, "LBrace"),
             [current |-> <<"Empty">>, filters |-> <<>>, bgp |-> <<>>, paths |-> <<>>])
      g == r[1]
  IN <<IF g.filters = <<>> THEN g.current ELSE <<"Filter", g.filters, g.current>>, r[2]>>

(***************************************************************************)
(* Query forms.                                                            *)
(***************************************************************************)
RECURSIVE projection_items(_, _), group_keys(_, _), more_having(_, _),
          describe_targets(_, _), parse_order_conditions(_, _), parse_solution_modifiers(_, _)

projection_items(p, items) ==
  LET item == parse_as(bump(p)) IN
  CASE at(p, "Var") -> projection_items(bump(p), Append(items, <<"Var", peek(p).v>>))
    [] at(p, "LParen") ->
         projection_items(item[2], Append(items, <<"Expr", item[1][1], item[1][2]>>))
    [] OTHER -> <<items, IF items = <<>> THEN err(p) ELSE p>>

parse_projection(p) ==
  IF at(p, "Star") THEN << <<"All">>, bump(p) >>
  ELSE wrapped("Items", projection_items(p, <<>>))

(* The variable after AS is not kept.                                        *)
group_keys(p, keys) ==
  LET e == parse_expr(bump(p))
      named == eat_keyword(e[2], "AS")
      end == expect(IF at(named, "Var") THEN bump(named) ELSE named, "RParen")
  IN CASE at(p, "Var") -> group_keys(bump(p), Append(keys, <<"Var", peek(p).v>>))
       [] at(p, "LParen") -> group_keys(end, Append(keys, e[1]))
       [] OTHER -> <<keys, p>>

more_having(p, having) ==
  IF keyword(p) = "HAVING"
  THEN LET e == parse_constraint(bump(p)) IN more_having(e[2], Append(having, e[1]))
  ELSE <<having, p>>

(* << <<group keys, constraints>>, p >>                                      *)
parse_group_having(p) ==
  LET group_by == IF keyword(p) = "GROUP" THEN group_keys(expect_keyword(bump(p), "BY"), <<>>)
                  ELSE << <<>>, p >>
      having == more_having(group_by[2], <<>>)
  IN << <<group_by[1], having[1]>>, having[2] >>

(* A key continues the list while another one can start.                     *)
parse_order_conditions(p, conds) ==
  LET descending == keyword(p) = "DESC"
      q == IF keyword(p) \in {"ASC", "DESC"} THEN bump(p) ELSE p
      key == IF at(q, "LParen") THEN then_expect(parse_expr(bump(q)), "RParen")
             ELSE wrapped("Var", expect_var(q))
      more == Append(conds, <<key[1], descending>>)
  IN IF ~at(q, "LParen") /\ ~at(q, "Var") THEN <<conds, q>>
     ELSE IF at(key[2], "Var") \/ at(key[2], "LParen") \/ keyword(key[2]) \in {"ASC", "DESC"}
     THEN parse_order_conditions(key[2], more)
     ELSE <<more, key[2]>>

(* An integer that is no usize is an error.                                  *)
TOO_LARGE == <<"18446744073709551616">>
parse_usize(p) == IF at(p, "Integer") /\ peek(p).v # TOO_LARGE THEN <<Some(peek(p).v), bump(p)>> ELSE Fail(p)

NoModifiers == [order_by |-> <<>>, limit |-> None, offset |-> None]
parse_solution_modifiers(p, m) ==
  LET order == parse_order_conditions(expect_keyword(bump(p), "BY"), <<>>)
      n == parse_usize(bump(p))
  IN CASE keyword(p) = "ORDER" -> parse_solution_modifiers(order[2], [m EXCEPT !.order_by = order[1]])
       [] keyword(p) = "LIMIT" -> parse_solution_modifiers(n[2], [m EXCEPT !.limit = n[1]])
       [] keyword(p) = "OFFSET" -> parse_solution_modifiers(n[2], [m EXCEPT !.offset = n[1]])
       [] OTHER -> <<m, p>>

(* [dataset clauses] [WHERE] { ... }                                         *)
parse_where(p) == parse_group_graph_pattern(eat_keyword(skip_dataset_clauses(p), "WHERE"))

parse_select(p) ==
  LET q == expect_keyword(p, "SELECT")
      distinct == keyword(q) = "DISTINCT"
      projection == parse_projection(IF distinct THEN bump(q) ELSE eat_keyword(q, "REDUCED"))
      pattern == parse_where(projection[2])
      groups == parse_group_having(pattern[2])
      m == parse_solution_modifiers(groups[2], NoModifiers)
  IN << <<"Select", distinct, projection[1], pattern[1], groups[1], m[1]>>, m[2] >>

parse_ask(p) ==
  LET pattern == parse_where(expect_keyword(p, "ASK"))
  IN << <<"Ask", pattern[1]>>, parse_solution_modifiers(pattern[2], NoModifiers)[2] >>

parse_construct(p) ==
  LET template == parse_triple_template_block(expect_keyword(p, "CONSTRUCT"))
      pattern == parse_where(template[2])
      m == parse_solution_modifiers(pattern[2], NoModifiers)
  IN << <<"Construct", template[1], pattern[1], m[1]>>, m[2] >>

describe_targets(p, targets) ==
  LET target == parse_pattern_term(p) IN
  IF at(p, "Var") \/ at(p, "Iri") \/ at(p, "PName")
  THEN describe_targets(target[2], Append(targets, target[1]))
  ELSE <<targets, IF targets = <<>> THEN err(p) ELSE p>>

parse_describe(p) ==
  LET q == expect_keyword(p, "DESCRIBE")
      all == at(q, "Star")
      targets == IF all THEN << <<>>, bump(q) >> ELSE describe_targets(q, <<>>)
      from == skip_dataset_clauses(targets[2])
      r == parse_group_graph_pattern(eat_keyword(from, "WHERE"))
      given == keyword(from) = "WHERE" \/ at(from, "LBrace")
      pattern == IF given THEN <<Some(r[1]), r[2]>> ELSE <<None, from>>
  IN << <<"Describe", targets[1], all, pattern[1]>>,
        parse_solution_modifiers(pattern[2], NoModifiers)[2] >>

(***************************************************************************)
(* Updates.                                                                *)
(***************************************************************************)
RECURSIVE ground_triples(_, _, _), parse_update_op(_), parse_update_sequence(_, _)

is_ground(t) == \A i \in 1 .. 3 : t[i][1] = "Term"
(* require_ground on the three positions.                                    *)
tagged(ts, graph) ==
  [i \in DOMAIN ts |-> <<ts[i][1][2], ts[i][2][2], ts[i][3][2], graph>>]
parse_ground_subject(p, out, graph) ==
  LET r == parse_triples_same_subject(p, NoTriples)
      ground == r[1].paths = <<>> /\ \A i \in DOMAIN r[1].bgp : is_ground(r[1].bgp[i])
  IN IF ~failed(r[2]) /\ ground THEN <<out \o tagged(r[1].bgp, graph), r[2]>> ELSE Fail(p)

(* The triples of a DATA block, or of a GRAPH block inside one.              *)
ground_triples(p, out, graph) ==
  LET g == parse_graph_term(bump(p))
      inner == ground_triples(expect(g[2], "LBrace"), out, Some(g[1][2]))
      r == parse_ground_subject(p, out, graph)
  IN CASE failed(p) \/ at(p, "Eof") -> <<out, err(p)>>
       [] at(p, "RBrace") -> <<out, bump(p)>>
       [] at(p, "Dot") -> ground_triples(bump(p), out, graph)
       [] keyword(p) = "GRAPH" /\ graph = None ->
            IF g[1][1] = "Var" THEN Fail(p) ELSE ground_triples(inner[2], inner[1], graph)
       [] OTHER -> ground_triples(r[2], r[1], graph)

parse_ground_block(p) == ground_triples(expect(p, "LBrace"), <<>>, None)

parse_graph_target(p) ==
  LET kw == keyword(p) IN
  CASE kw = "DEFAULT" -> << <<"Default">>, bump(p) >>
    [] kw = "ALL" -> << <<"AllGraphs">>, bump(p) >>
    [] kw = "NAMED" -> << <<"Named", <<>>>>, bump(p) >>
    [] kw = "GRAPH" -> wrapped("Named", expect_graph_iri(bump(p)))
    [] OTHER -> Fail(p)

(* [USING ...] WHERE { ... } of a Modify.                                    *)
parse_modify(p, delete, insert) ==
  LET pattern == parse_group_graph_pattern(expect_keyword(skip_using_clauses(p), "WHERE"))
  IN << <<"Modify", delete, insert, pattern[1]>>, pattern[2] >>

parse_insert(p) ==
  LET insert == parse_triple_template_block(p) IN
  IF keyword(p) = "DATA" THEN wrapped("InsertData", parse_ground_block(bump(p)))
  ELSE parse_modify(insert[2], <<>>, insert[1])

parse_delete(p) ==
  LET triples == parse_triple_template_block(bump(p))
      delete == parse_triple_template_block(p)
      insert == IF keyword(delete[2]) = "INSERT" THEN parse_triple_template_block(bump(delete[2]))
                ELSE << <<>>, delete[2] >>
  IN CASE keyword(p) = "DATA" -> wrapped("DeleteData", parse_ground_block(bump(p)))
       [] keyword(p) = "WHERE" ->
            << <<"Modify", triples[1], <<>>, <<"Bgp", triples[1]>>>>, triples[2] >>
       [] OTHER -> parse_modify(insert[2], delete[1], insert[1])

parse_update_op(p) ==
  LET kw == keyword(p)
      silent == keyword(bump(p)) = "SILENT"
      q == eat_keyword(bump(p), "SILENT")
      target == parse_graph_target(q)
      source == expect_graph_iri(q)
      into == IF keyword(source[2]) = "INTO"
              THEN expect_graph_iri(expect_keyword(bump(source[2]), "GRAPH"))[2]
              ELSE source[2]
      name == expect_graph_iri(expect_keyword(q, "GRAPH"))
  IN CASE kw = "INSERT" -> parse_insert(bump(p))
       [] kw = "DELETE" -> parse_delete(bump(p))
       [] kw = "WITH" -> parse_update_op(expect_graph_iri(bump(p))[2])
       [] kw = "LOAD" -> << <<"Load", source[1], silent>>, into >>
       [] kw = "CLEAR" -> << <<"Clear", target[1], silent>>, target[2] >>
       [] kw = "DROP" -> << <<"Drop", target[1], silent>>, target[2] >>
       [] kw = "CREATE" -> << <<"Create", name[1], silent>>, name[2] >>
       [] OTHER -> Fail(p)

parse_update_sequence(p, ops) ==
  LET q == parse_prologue(p)
      op == parse_update_op(q)
      more == Append(ops, op[1])
  IN CASE at(q, "Eof") -> <<ops, IF ops = <<>> THEN err(q) ELSE q>>
       [] at(op[2], "Semicolon") -> parse_update_sequence(bump(op[2]), more)
       [] OTHER -> <<more, op[2]>>

(***************************************************************************)
(* The request: <<"Fail">> stands for the error.                           *)
(***************************************************************************)
parse_form(p) ==
  LET kw == keyword(p) IN
  CASE kw = "SELECT" -> parse_select(p)
    [] kw = "ASK" -> parse_ask(p)
    [] kw = "CONSTRUCT" -> parse_construct(p)
    [] kw = "DESCRIBE" -> parse_describe(p)
    [] kw \in {"INSERT", "DELETE", "LOAD", "CLEAR", "DROP", "CREATE", "WITH"} ->
         wrapped("Update", parse_update_sequence(p, <<>>))
    [] OTHER -> Fail(p)

parse_request(tokens) ==
  LET r == then_expect(parse_form(parse_prologue(new(tokens))), "Eof") IN
  IF failed(r[2]) THEN <<"Fail">> ELSE r[1]

(***************************************************************************)
(* ast.rs: the columns of SELECT, in order of appearance.                  *)
(***************************************************************************)
pushed(v, out) == IF \E i \in DOMAIN out : out[i] = v THEN out ELSE Append(out, v)
pushed_term(pt, out) == IF pt[1] = "Var" THEN pushed(pt[2], out) ELSE out

RECURSIVE pushed_all(_, _), pushed_terms(_, _), collect_vars(_, _)
pushed_all(vs, out) == IF vs = <<>> THEN out ELSE pushed_all(Tail(vs), pushed(vs[1], out))
pushed_terms(pts, out) == IF pts = <<>> THEN out ELSE pushed_terms(Tail(pts), pushed_term(pts[1], out))
positions(tps) == [i \in 1 .. 3 * Len(tps) |-> tps[((i - 1) \div 3) + 1][((i - 1) % 3) + 1]]

(* The columns of the projection, given those of the pattern for SELECT *.   *)
result_vars(sq, all) ==
  IF sq[3][1] = "All" THEN all
  ELSE [i \in DOMAIN sq[3][2] |-> LET item == sq[3][2][i] IN item[Len(item)]]

collect_vars(g, out) ==
  CASE g[1] = "Empty" -> out
    [] g[1] = "Bgp" -> pushed_terms(positions(g[2]), out)
    [] g[1] = "Path" -> pushed_term(g[4], pushed_term(g[2], out))
    [] g[1] \in {"Join", "Union", "Minus", "LeftJoin"} -> collect_vars(g[3], collect_vars(g[2], out))
    [] g[1] = "Filter" -> collect_vars(g[3], out)
    [] g[1] = "Extend" -> pushed(g[3], collect_vars(g[2], out))
    [] g[1] = "Values" -> pushed_all(g[2], out)
    [] g[1] = "SubSelect" -> pushed_all(result_vars(g[2], collect_vars(g[2][4], <<>>)), out)
    [] g[1] = "Graph" -> collect_vars(g[3], pushed_term(g[2], out))
    [] OTHER -> collect_vars(g[4], pushed_term(g[2], out))
=============================================================================
