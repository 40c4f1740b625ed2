------------------------------ MODULE RdfText ------------------------------
(***************************************************************************)
(* RDF as text: the surface form of a term, which is its dictionary key    *)
(* (src/model/term.rs), the line formats (src/parser/ntriples.rs,          *)
(* nquads.rs), the bulk loaders' cutting of a document into chunks         *)
(* (src/db/mod.rs), and Turtle and TriG (src/parser/turtle.rs, trig.rs).   *)
(*                                                                         *)
(* Texts are sequences of characters, as in SparqlLexer, whose scanning of *)
(* strings and escapes the five readers repeat. A keyword, a numeral of a  *)
(* minted label, a namespace and the name of an rdf: or xsd: term are one  *)
(* character each. A reader returns <<value, position afterwards>>;        *)
(* position 0 is the error.                                                *)
(***************************************************************************)
EXTENDS SparqlLexer, FiniteSets, SequencesExt

CONSTANT MAX_NESTING_DEPTH

None == << >>
Some(v) == <<v>>
Blanks == {" ", "tab", "cr"}                    \* what a line holds of whitespace
Whitespace == Blanks \cup {"newline"}
IsTag == Letters \cup Digits \cup {"-"}

-----------------------------------------------------------------------------
\* Terms.

Iri(s) == <<"Iri", s>>
Blank(s) == <<"Blank", s>>
Literal(value, datatype, lang) == <<"Literal", value, datatype, lang>>
typed_literal(value, datatype) == Literal(value, Some(datatype), None)

escape_literal(s) ==
  LET written(c) == CASE c \in {"backslash", "dquote"} -> <<"backslash", c>>
                      [] c = "newline" -> <<"backslash", "n">>
                      [] c = "cr" -> <<"backslash", "r">>
                      [] c = "tab" -> <<"backslash", "t">>
                      [] OTHER -> <<c>>
  IN  FlattenSeq([i \in DOMAIN s |-> written(s[i])])
\* dict_key, which is Display.
dict_key(t) ==
  CASE t[1] = "Iri" -> <<"<">> \o t[2] \o <<">">>
    [] t[1] = "Blank" -> <<"_", ":">> \o t[2]
    [] OTHER -> <<"dquote">> \o escape_literal(t[2]) \o <<"dquote">>
                  \o (IF t[3] # None THEN <<"^", "^", "<">> \o t[3][1] \o <<">">>
                      ELSE IF t[4] # None THEN <<"@">> \o t[4][1] ELSE << >>)

-----------------------------------------------------------------------------
\* N-Triples and N-Quads: one statement a line.

Nothing == <<"Nothing">>
Fail == <<"Fail">>                            \* of a line or a term
Error == <<Fail>>                             \* of a document
RdfFail == <<Fail, 0>>

\* str::trim
trim(s) ==
  LET text == {i \in DOMAIN s : s[i] \notin Whitespace}
      first == CHOOSE i \in text : \A j \in text : i <= j
      last == CHOOSE i \in text : \A j \in text : j <= i
  IN  IF text = {} THEN << >> ELSE SubSeq(s, first, last)
skip_ws(cs, i) == scan(cs, i, Blanks)

\* After the <: up to the first >, with \u and \U decoded.
RECURSIVE iri_to(_, _, _)
iri_to(cs, i, iri) ==
  LET c == char(cs, i)
      u == char(cs, i + 1)
      escaped == read_hex_into(cs, i + 2, IF u = "u" THEN 4 ELSE 8)
  IN  CASE c = "" -> RdfFail
        [] c = ">" -> <<Iri(iri), i + 1>>
        [] c = "backslash" -> IF u \notin {"u", "U"} \/ escaped[2] = 0 THEN RdfFail
                              ELSE iri_to(cs, escaped[2], Append(iri, escaped[1]))
        [] OTHER -> iri_to(cs, i + 1, Append(iri, c))
parse_iri(cs, i) == IF char(cs, i) = "<" THEN iri_to(cs, i + 1, << >>) ELSE RdfFail

parse_blank(cs, i) ==
  LET end == scan(cs, i + 2, is_name_char \cup {"-", "."})
  IN  IF char(cs, i + 1) # ":" \/ end = i + 2 THEN RdfFail ELSE <<Blank(SubSeq(cs, i + 2, end - 1)), end>>

parse_literal(cs, i) ==
  LET s == string_from(cs, i + 1, "dquote", FALSE, << >>)
      end == s[2]
      dt == parse_iri(cs, skip_ws(cs, end + 2))
      tag == scan(cs, end + 1, IsTag)
  IN  CASE end = 0 -> RdfFail
        [] end # 0 /\ char(cs, end) = "^" ->
             IF char(cs, end + 1) # "^" \/ dt[2] = 0 THEN RdfFail ELSE <<typed_literal(s[1], dt[1][2]), dt[2]>>
        [] end # 0 /\ char(cs, end) = "@" ->
             IF tag = end + 1 THEN RdfFail ELSE <<Literal(s[1], None, Some(SubSeq(cs, end + 1, tag - 1))), tag>>
        [] OTHER -> <<Literal(s[1], None, None), end>>

\* Scanner::parse_term; from a position of 0 the error goes on.
scan_term(cs, at) ==
  LET i == skip_ws(cs, at)
  IN  CASE at # 0 /\ char(cs, i) = "<" -> parse_iri(cs, i)
        [] at # 0 /\ char(cs, i) = "dquote" -> parse_literal(cs, i)
        [] at # 0 /\ char(cs, i) = "_" -> parse_blank(cs, i)
        [] OTHER -> RdfFail
\* parse_term: the inverse of dict_key.
parse_term(s) ==
  LET cs == trim(s)
      t == scan_term(cs, 1)
  IN  IF t[2] # 0 /\ skip_ws(cs, t[2]) > Len(cs) THEN t[1] ELSE Fail

\* The statement may end with a dot, and with a comment after that.
ends(cs, at) ==
  LET i == skip_ws(cs, at)
  IN  char(cs, skip_ws(cs, IF char(cs, i) = "." THEN i + 1 ELSE i)) \in {"", "#"}
IsEmptyLine(cs) == cs = << >> \/ cs[1] = "#"
parse_line(line) ==
  LET cs == trim(line)
      s == scan_term(cs, 1)
      p == scan_term(cs, s[2])
      o == scan_term(cs, p[2])
  IN  IF IsEmptyLine(cs) THEN Nothing
      ELSE IF o[2] = 0 \/ ~ends(cs, o[2]) THEN Fail ELSE <<s[1], p[1], o[1]>>
\* nquads.rs has a Scanner of its own, which reads terms in the same way.
quad_term(cs, at) == scan_term(cs, at)
\* nquads::parse_line: a fourth term that is no literal names the graph.
parse_quad(line) ==
  LET cs == trim(line)
      s == quad_term(cs, 1)
      p == quad_term(cs, s[2])
      o == quad_term(cs, p[2])
      i == skip_ws(cs, o[2])
      g == quad_term(cs, i)
  IN  CASE IsEmptyLine(cs) -> Nothing
        [] ~IsEmptyLine(cs) /\ o[2] # 0 /\ char(cs, i) \in {".", "", "#"} ->
             IF ends(cs, i) THEN <<s[1], p[1], o[1], None>> ELSE Fail
        [] ~IsEmptyLine(cs) /\ o[2] # 0 /\ char(cs, i) \in {"<", "_"} ->
             IF g[2] # 0 /\ ends(cs, g[2]) THEN <<s[1], p[1], o[1], Some(g[1])>> ELSE Fail
        [] OTHER -> Fail

\* str::lines, BufRead::lines: without the newlines and a final empty line.
RECURSIVE lines(_)
lines(cs) ==
  LET end == scan(cs, 1, {cs[i] : i \in DOMAIN cs} \ {"newline"})
      line == SubSeq(cs, 1, end - 1)
      cut == IF line # << >> /\ line[Len(line)] = "cr" THEN Front(line) ELSE line
  IN  IF cs = << >> THEN << >> ELSE <<cut>> \o lines(SubSeq(cs, end + 1, Len(cs)))
\* One bad line is the error of the document.
collect(found) ==
  IF Fail \in ToSet(found) THEN Error ELSE SelectSeq(found, LAMBDA t : t # Nothing)
parse_triples(cs) == LET ls == lines(cs) IN collect([i \in DOMAIN ls |-> parse_line(ls[i])])
parse_quads(cs) == LET ls == lines(cs) IN collect([i \in DOMAIN ls |-> parse_quad(ls[i])])

\* split_lines: at most n chunks, each cut after a newline. st.start is the
\* position after the chunks that were cut.
line_end(cs, cut) == LET end == scan(cs, cut, {cs[i] : i \in DOMAIN cs} \ {"newline"}) IN IF end > Len(cs) THEN end ELSE end + 1
cut_chunk(cs, n, st, i) ==
  LET from == (Len(cs) * i) \div n + 1
      cut == line_end(cs, IF from < st.start THEN st.start ELSE from)
  IN  IF st.start > Len(cs) \/ cut = st.start THEN st
      ELSE [start |-> cut, chunks |-> Append(st.chunks, SubSeq(cs, st.start, cut - 1))]
split_lines(cs, n) ==
  LET st == FoldLeft(LAMBDA acc, i : cut_chunk(cs, n, acc, i), [start |-> 1, chunks |-> << >>], [i \in 1..(n - 1) |-> i])
  IN  IF n <= 1 \/ cs = << >> THEN <<cs>>
      ELSE st.chunks \o (IF st.start <= Len(cs) THEN <<SubSeq(cs, st.start, Len(cs))>> ELSE << >>)
\* build_from_ntriples_str_parallel: what is interned and loaded, in this order.
parsed_parallel(cs, threads) ==
  LET parsed == [i \in DOMAIN split_lines(cs, threads) |-> parse_triples(split_lines(cs, threads)[i])]
  IN  IF Error \in ToSet(parsed) THEN Error ELSE FlattenSeq(parsed)
\* build_from_ntriples_batched: bulk_load is called with these batches.
Batches(ts, n) ==
  [k \in 1..((Len(ts) + n - 1) \div n) |-> SubSeq(ts, (k - 1) * n + 1, IF k * n < Len(ts) THEN k * n ELSE Len(ts))]

-----------------------------------------------------------------------------
\* Turtle: relative references (RFC 3986). An IRI reference is split into
\* [scheme, authority, path, query, fragment].

Position(s, S) == scan(s, 1, {s[i] : i \in DOMAIN s} \ S)   \* of the first of S, or past the end
From(s, i) == SubSeq(s, i, Len(s))
is_valid_scheme(s) ==
  s # << >> /\ s[1] \in Letters /\ \A i \in DOMAIN s : s[i] \in Letters \cup Digits \cup {"+", "-", "."}
is_absolute_iri(s) == LET i == Position(s, {":"}) IN i <= Len(s) /\ is_valid_scheme(SubSeq(s, 1, i - 1))
split_iri(s) ==
  LET f == Position(s, {"#"})
      upto == SubSeq(s, 1, f - 1)
      q == Position(upto, {"?"})
      hier == SubSeq(upto, 1, q - 1)
      c == Position(hier, {":"})
      scheme == IF is_absolute_iri(hier) THEN SubSeq(hier, 1, c - 1) ELSE << >>
      rest == IF scheme = << >> THEN hier ELSE From(hier, c + 1)
      after == From(rest, 3)
      slash == Position(after, {"/"})
      authority == IsPrefix(<<"/", "/">>, rest)
  IN  [scheme |-> scheme,
       authority |-> IF authority THEN Some(SubSeq(after, 1, slash - 1)) ELSE None,
       path |-> IF authority THEN From(after, slash) ELSE rest,
       query |-> IF q > Len(upto) THEN None ELSE Some(From(upto, q + 1)),
       fragment |-> IF f > Len(s) THEN None ELSE Some(From(s, f + 1))]

LastSlash(s) == LET at == {i \in DOMAIN s : s[i] = "/"} IN IF at = {} THEN 0 ELSE CHOOSE i \in at : \A j \in at : j <= i
merge_paths(authority, base_path, ref_path) ==
  IF authority # None /\ base_path = << >> THEN <<"/">> \o ref_path
  ELSE SubSeq(base_path, 1, LastSlash(base_path)) \o ref_path
remove_last_segment(output) == SubSeq(output, 1, LastSlash(output) - 1)
RECURSIVE remove_dots(_, _)
remove_dots(input, output) ==
  LET starts(s) == IsPrefix(s, input)
      start == IF starts(<<"/">>) THEN 1 ELSE 0
      end == start + Position(From(input, start + 1), {"/"}) - 1
  IN  CASE input = << >> -> output
        [] input # << >> /\ starts(<<".", ".", "/">>) -> remove_dots(From(input, 4), output)
        [] input # << >> /\ starts(<<".", "/">>) -> remove_dots(From(input, 3), output)
        [] input # << >> /\ starts(<<"/", ".", "/">>) -> remove_dots(From(input, 3), output)
        [] input = <<"/", ".">> -> remove_dots(<<"/">>, output)
        [] input # << >> /\ starts(<<"/", ".", ".", "/">>) -> remove_dots(From(input, 4), remove_last_segment(output))
        [] input = <<"/", ".", ".">> -> remove_dots(<<"/">>, remove_last_segment(output))
        [] input \in {<<".">>, <<".", ".">>} -> output
        [] OTHER -> remove_dots(From(input, end + 1), output \o SubSeq(input, 1, end))
remove_dot_segments(path) == remove_dots(path, << >>)
recompose(scheme, authority, path, query, fragment) ==
  LET after(mark, part) == IF part = None THEN << >> ELSE mark \o part[1]
  IN  (IF scheme = << >> THEN << >> ELSE Append(scheme, ":")) \o after(<<"/", "/">>, authority) \o path
        \o after(<<"?">>, query) \o after(<<"#">>, fragment)
resolve_reference(base, reference) ==
  LET b == split_iri(base)
      r == split_iri(reference)
      to(authority, path, query) == recompose(b.scheme, authority, path, query, r.fragment)
  IN  IF r.authority # None THEN to(r.authority, remove_dot_segments(r.path), r.query)
      ELSE IF r.path = << >> THEN to(b.authority, b.path, IF r.query # None THEN r.query ELSE b.query)
      ELSE IF r.path[1] = "/" THEN to(b.authority, remove_dot_segments(r.path), r.query)
      ELSE to(b.authority, remove_dot_segments(merge_paths(b.authority, b.path, r.path)), r.query)
resolve_iri(base, s) == IF base # None /\ ~is_absolute_iri(s) THEN resolve_reference(base[1], s) ELSE s

-----------------------------------------------------------------------------
\* Turtle. A parser p is [at, prefixes, base, triples, bnode, scope, depth, out],
\* where out is the last term that was read. at is 0 after an error.

RDF(name) == Iri(<<"rdf:", name>>)
XSD(name) == <<"xsd:", name>>

NewParser(scope) ==
  [at |-> 1, prefixes |-> [ns \in {} |-> 0], base |-> None, triples |-> << >>, bnode |-> 0, scope |-> scope,
   depth |-> 0, out |-> Nothing]
Failed(p) == [p EXCEPT !.at = 0]
Past(p, n) == IF p.at = 0 THEN p ELSE [p EXCEPT !.at = @ + n]
skip(cs, p) == IF p.at = 0 THEN p ELSE [p EXCEPT !.at = skip_ws_and_comments(cs, @)]
at(cs, p) == char(cs, p.at)
expect(cs, p, c) == IF at(cs, p) = c THEN Past(p, 1) ELSE Failed(p)
expect_dot(cs, p) == expect(cs, skip(cs, p), ".")
Read(p, r) == [p EXCEPT !.at = r[2], !.out = r[1]]
push(p, s, v, o) == [p EXCEPT !.triples = Append(@, <<s, v, o>>)]

\* Faulty: the label does not name the document's scope.
fresh_blank_unscoped(p) == [p EXCEPT !.out = Blank(<<"g", "~", ToString(p.bnode)>>), !.bnode = @ + 1]
fresh_blank(p) == [p EXCEPT !.out = Blank(p.scope \o <<"~", ToString(p.bnode)>>), !.bnode = @ + 1]

parse_iriref(cs, p) ==
  LET r == parse_iri(cs, p.at)
  IN  IF r[2] = 0 THEN Failed(p) ELSE Read(p, <<Iri(resolve_iri(p.base, r[1][2])), r[2]>>)

\* A dot ends the statement if whitespace or the end follows.
blank_label(cs, i) ==
  CHOOSE j \in i..(Len(cs) + 1) :
    LET within(k) == /\ char(cs, k) \in is_name_char \cup {"-", "."}
                     /\ char(cs, k) = "." => char(cs, k + 1) \notin Whitespace \cup {""}
    IN  ~within(j) /\ \A k \in i..(j - 1) : within(k)
turtle_blank(cs, p) ==
  LET end == blank_label(cs, p.at + 2)
  IN  IF char(cs, p.at + 1) # ":" \/ end = p.at + 2 THEN Failed(p)
      ELSE Read(p, <<Blank(SubSeq(cs, p.at + 2, end - 1)), end>>)

\* A dot is part of a local name only if a character of one follows.
pn_local_end(cs, i) ==
  CHOOSE j \in i..(Len(cs) + 1) :
    LET named == is_name_char \cup {"-", "%"}
        within(k) == char(cs, k) \in named \/ (char(cs, k) = "." /\ char(cs, k + 1) \in named)
    IN  ~within(j) /\ \A k \in i..(j - 1) : within(k)
parse_prefixed_or_keyword(cs, p, verb_pos) ==
  LET end == scan(cs, p.at, {cs[i] : i \in DOMAIN cs} \ (Whitespace \cup {":", ".", ";", ","}))
      prefix == SubSeq(cs, p.at, end - 1)
      local == pn_local_end(cs, end + 1)
  IN  IF char(cs, end) = ":"
      THEN IF prefix \notin DOMAIN p.prefixes THEN Failed(p)
           ELSE Read(p, <<Iri(p.prefixes[prefix] \o SubSeq(cs, end + 1, local - 1)), local>>)
      ELSE IF ~verb_pos /\ prefix \in {<<"true">>, <<"false">>} THEN Read(p, <<typed_literal(prefix, XSD("boolean")), end>>)
      ELSE Failed(p)

\* After the digits and points, an exponent and its sign, in any number.
RECURSIVE numeric_to(_, _, _)
numeric_to(cs, i, kind) ==
  CASE char(cs, i) \in Digits -> numeric_to(cs, i + 1, kind)
    [] char(cs, i) = "." /\ char(cs, i + 1) \in Digits -> numeric_to(cs, i + 1, IF kind = "double" THEN kind ELSE "decimal")
    [] char(cs, i) \in {"e", "E"} -> numeric_to(cs, i + (IF char(cs, i + 1) \in {"+", "-"} THEN 2 ELSE 1), "double")
    [] OTHER -> <<kind, i>>
parse_numeric(cs, p) ==
  LET signed == at(cs, p) \in {"+", "-"}
      n == numeric_to(cs, IF signed THEN p.at + 1 ELSE p.at, "integer")
      s == SubSeq(cs, p.at, n[2] - 1)
  IN  IF ToSet(s) \subseteq {"+", "-"} THEN Failed(p) ELSE Read(p, <<typed_literal(s, XSD(n[1])), n[2]>>)

RECURSIVE turtle_term(_, _, _), predicate_object_list(_, _, _), object_list(_, _, _, _), collection_items(_, _, _)

turtle_literal(cs, p) ==
  LET quote == at(cs, p)
      triple == char(cs, p.at + 1) = quote /\ char(cs, p.at + 2) = quote
      s == string_from(cs, p.at + (IF triple THEN 3 ELSE 1), quote, triple, << >>)
      end == s[2]
      tag == scan(cs, end + 1, IsTag)
      dt == turtle_term(cs, [p EXCEPT !.at = end + 2], TRUE)
  IN  CASE end = 0 -> Failed(p)
        [] end # 0 /\ char(cs, end) = "@" -> Read(p, <<Literal(s[1], None, Some(SubSeq(cs, end + 1, tag - 1))), tag>>)
        [] end # 0 /\ char(cs, end) = "^" /\ char(cs, end + 1) = "^" ->
             IF dt.at = 0 \/ dt.out[1] # "Iri" THEN Failed(p) ELSE [dt EXCEPT !.out = typed_literal(s[1], dt.out[2])]
        [] OTHER -> Read(p, <<Literal(s[1], None, None), end>>)

parse_blank_node_property_list(cs, p) ==
  LET node == skip(cs, fresh_blank(Past(p, 1)))
      listed == expect(cs, skip(cs, predicate_object_list(cs, node, node.out)), "]")
  IN  IF at(cs, node) = "]" THEN Past(node, 1) ELSE [listed EXCEPT !.out = node.out]

\* p.out holds the items that were read.
collection_items(cs, p, items) ==
  LET q == skip(cs, p)
      r == turtle_term(cs, q, FALSE)
  IN  CASE q.at = 0 \/ at(cs, q) = "" -> Failed(q)
        [] q.at # 0 /\ at(cs, q) = ")" -> [Past(q, 1) EXCEPT !.out = items]
        [] OTHER -> collection_items(cs, r, Append(items, r.out))
\* One cell of the chain, whose node is acc.out; afterwards the node of the next.
link(acc, item, last) ==
  LET made == IF last THEN [acc EXCEPT !.out = RDF("nil")] ELSE fresh_blank(acc)
  IN  push(push(made, acc.out, RDF("first"), item), acc.out, RDF("rest"), made.out)
parse_collection(cs, p) ==
  LET q == collection_items(cs, Past(p, 1), << >>)
      items == q.out
      head == fresh_blank(q)
      linked == FoldLeft(LAMBDA acc, i : link(acc, items[i], i = Len(items)), head, [i \in 1..Len(items) |-> i])
  IN  CASE q.at = 0 -> q
        [] q.at # 0 /\ items = << >> -> [q EXCEPT !.out = RDF("nil")]
        [] OTHER -> [linked EXCEPT !.out = head.out]

\* Parser::parse_term: a term in another one is one level deeper.
turtle_term(cs, before, verb_pos) ==
  LET p == [skip(cs, before) EXCEPT !.depth = @ + 1]
      c == at(cs, p)
      read == CASE c = "<" -> parse_iriref(cs, p)
                [] c \in {"dquote", "quote"} /\ ~verb_pos -> turtle_literal(cs, p)
                [] c = "[" /\ ~verb_pos -> parse_blank_node_property_list(cs, p)
                [] c = "(" /\ ~verb_pos -> parse_collection(cs, p)
                [] c = "_" -> turtle_blank(cs, p)
                [] c \in Digits \cup {"+", "-", "."} /\ ~verb_pos -> parse_numeric(cs, p)
                [] c = "" -> Failed(p)
                [] OTHER -> parse_prefixed_or_keyword(cs, p, verb_pos)
  IN  IF p.at = 0 \/ p.depth > MAX_NESTING_DEPTH THEN Failed(p) ELSE [read EXCEPT !.depth = @ - 1]
parse_verb(cs, p) ==
  IF at(cs, p) = "a" /\ char(cs, p.at + 1) \in Whitespace \cup {"<", ""} THEN [Past(p, 1) EXCEPT !.out = RDF("type")]
  ELSE turtle_term(cs, p, TRUE)
object_list(cs, p, s, v) ==
  LET o == turtle_term(cs, p, FALSE)
      q == skip(cs, push(o, s, v, o.out))
  IN  IF o.at # 0 /\ at(cs, q) = "," THEN object_list(cs, Past(q, 1), s, v) ELSE q
\* A trailing ; is allowed before the dot.
predicate_object_list(cs, p, s) ==
  LET v == parse_verb(cs, skip(cs, p))
      q == skip(cs, object_list(cs, v, s, v.out))
      next == skip(cs, Past(q, 1))
  IN  CASE v.at = 0 \/ q.at = 0 -> Failed(p)
        [] q.at # 0 /\ at(cs, q) = ";" -> IF at(cs, next) \in {".", ""} THEN next ELSE predicate_object_list(cs, next, s)
        [] OTHER -> q

parse_triples_statement(cs, p) ==
  LET subject == skip(cs, turtle_term(cs, p, FALSE))
  IN  IF at(cs, p) = "[" /\ at(cs, subject) = "." THEN expect_dot(cs, subject)
      ELSE IF subject.at = 0 THEN subject
      ELSE expect_dot(cs, predicate_object_list(cs, subject, subject.out))
\* @prefix, @base and their forms without @, which have no dot.
parse_directive(cs, start, dotted) ==
  LET word == char(cs, start.at)
      p == skip(cs, Past(start, 1))
      colon == scan(cs, p.at, {cs[i] : i \in DOMAIN cs} \ (Whitespace \cup {":"}))
      iri == IF word = "base" THEN parse_iriref(cs, p) ELSE parse_iriref(cs, skip(cs, [p EXCEPT !.at = colon + 1]))
      done == IF dotted THEN expect_dot(cs, iri) ELSE iri
  IN  CASE word \notin {"prefix", "base"} \/ char(cs, start.at + 1) \in Letters \/ done.at = 0 -> Failed(p)
        [] word = "base" /\ done.at # 0 -> [done EXCEPT !.base = Some(iri.out[2])]
        [] OTHER -> IF char(cs, colon) # ":" THEN Failed(p)
                    ELSE [done EXCEPT !.prefixes = [ns \in DOMAIN @ \cup {SubSeq(cs, p.at, colon - 1)} |->
                            IF ns = SubSeq(cs, p.at, colon - 1) THEN iri.out[2] ELSE @[ns]]]
RECURSIVE parse_document(_, _)
parse_document(cs, before) ==
  LET p == skip(cs, before)
  IN  CASE p.at = 0 \/ p.at > Len(cs) -> p
        [] p.at # 0 /\ at(cs, p) = "@" -> parse_document(cs, parse_directive(cs, Past(p, 1), TRUE))
        [] p.at # 0 /\ at(cs, p) \in {"prefix", "base"} -> parse_document(cs, parse_directive(cs, p, FALSE))
        [] OTHER -> parse_document(cs, parse_triples_statement(cs, p))
parse_str_scoped(cs, scope) == LET p == parse_document(cs, NewParser(scope)) IN IF p.at = 0 THEN Error ELSE p.triples
parse_turtle(cs) == parse_str_scoped(cs, <<"g">>)

-----------------------------------------------------------------------------
\* TriG: the document is cut into directives, default-graph text and graph
\* blocks, and Turtle reads each with all the directives before it.

RECURSIVE past_iri(_, _), past_string(_, _, _, _)
past_iri(cs, i) ==
  CASE i > Len(cs) -> i
    [] i <= Len(cs) /\ cs[i] = ">" -> i + 1
    [] OTHER -> past_iri(cs, IF cs[i] = "backslash" /\ i < Len(cs) THEN i + 2 ELSE i + 1)
past_string(cs, i, q, triple) ==
  CASE i > Len(cs) -> i
    [] i <= Len(cs) /\ cs[i] = "backslash" -> past_string(cs, i + 2, q, triple)
    [] i <= Len(cs) /\ cs[i] = q /\ ~triple -> i + 1
    [] i <= Len(cs) /\ cs[i] = q /\ triple /\ char(cs, i + 1) = q /\ char(cs, i + 2) = q -> i + 3
    [] OTHER -> past_string(cs, i + 1, q, triple)
\* The position past a comment, an IRI or a string at i, or i itself.
skip_construct(cs, i) ==
  LET q == char(cs, i)
      triple == char(cs, i + 1) = q /\ char(cs, i + 2) = q
  IN  CASE q = "#" -> scan(cs, i, {cs[k] : k \in DOMAIN cs} \ {"newline"})
        [] q = "<" -> past_iri(cs, i + 1)
        [] q \in {"dquote", "quote"} -> past_string(cs, i + (IF triple THEN 3 ELSE 1), q, triple)
        [] OTHER -> i
is_terminator_dot(cs, i) == cs[i] = "." /\ char(cs, i + 1) \in Whitespace \cup {""}
\* scan: the next brace or final dot outside these, or the end.
RECURSIVE scan_stop(_, _), block_end(_, _, _)
scan_stop(cs, i) ==
  LET j == skip_construct(cs, i)
  IN  CASE i > Len(cs) -> i
        [] i <= Len(cs) /\ j > i -> scan_stop(cs, j)
        [] i <= Len(cs) /\ j = i /\ (cs[i] = "{" \/ is_terminator_dot(cs, i)) -> i
        [] OTHER -> scan_stop(cs, i + 1)
\* read_block: where the block that opens at i closes, or 0.
block_end(cs, i, depth) ==
  LET j == skip_construct(cs, i)
  IN  CASE i > Len(cs) -> 0
        [] i <= Len(cs) /\ j > i -> block_end(cs, j, depth)
        [] i <= Len(cs) /\ j = i /\ cs[i] = "{" -> block_end(cs, i + 1, depth + 1)
        [] i <= Len(cs) /\ j = i /\ cs[i] = "}" -> IF depth = 1 THEN i ELSE block_end(cs, i + 1, depth - 1)
        [] OTHER -> block_end(cs, i + 1, depth)

\* The last triple of a block may lack its dot.
ensure_terminated(body) ==
  LET t == trim(body) IN IF t = << >> \/ t[Len(t)] = "." THEN t ELSE t \o <<" ", ".">>
strip_graph_keyword(before) ==
  IF before # << >> /\ before[1] = "graph" /\ char(before, 2) \in Whitespace \cup {""} THEN trim(Tail(before)) ELSE before
\* Directives end with their dot, or without @ with the first IRI that is not in
\* a comment or a string; 0 if they do not end.
RECURSIVE read_keyword_directive(_, _)
read_keyword_directive(cs, i) ==
  LET j == skip_construct(cs, i)
  IN  CASE i > Len(cs) -> 0
        [] i <= Len(cs) /\ cs[i] = "<" -> j
        [] OTHER -> read_keyword_directive(cs, IF j > i THEN j ELSE i + 1)
read_directive(cs, i) ==
  LET dot == scan_stop(cs, i)
  IN  IF cs[i] = "@" THEN (IF char(cs, dot) = "." THEN dot + 1 ELSE 0)
      ELSE read_keyword_directive(cs, i)

\* parts is [preamble, default, named, failed].
RECURSIVE split(_, _, _)
split(cs, start, parts) ==
  LET i == skip_ws_and_comments(cs, start)
      stop == scan_stop(cs, i)
      past == read_directive(cs, i)
      close == block_end(cs, stop, 0)
      label == strip_graph_keyword(trim(SubSeq(cs, i, stop - 1)))
      inner == ensure_terminated(SubSeq(cs, stop + 1, close - 1))
      after == skip_ws_and_comments(cs, close + 1)
      ended(text) == IF text = << >> THEN text ELSE Append(text, "newline")
  IN  CASE i > Len(cs) -> parts
        [] i <= Len(cs) /\ cs[i] \in {"@", "prefix", "base"} ->
             IF past = 0 THEN [parts EXCEPT !.failed = TRUE]
             ELSE split(cs, past, [parts EXCEPT !.preamble = @ \o SubSeq(cs, i, past - 1) \o <<"newline">>])
        [] i <= Len(cs) /\ cs[i] \notin {"@", "prefix", "base"} /\ char(cs, stop) = "{" ->
             IF close = 0 THEN [parts EXCEPT !.failed = TRUE]
             ELSE split(cs, IF char(cs, after) = "." THEN after + 1 ELSE after,
                        IF label = << >> THEN [parts EXCEPT !.default = @ \o ended(inner)]
                        ELSE [parts EXCEPT !.named = Append(@, <<label, inner>>)])
        [] OTHER ->
             LET end == IF stop > Len(cs) THEN Len(cs) ELSE stop
             IN  split(cs, end + 1, [parts EXCEPT !.default = @ \o ended(SubSeq(cs, i, end))])
\* A statement with the label as its subject is read, and the subject kept.
resolve_label(preamble, label) ==
  LET probe == <<" ", "<", "u", ":", "x", ">">>
      ts == parse_turtle(preamble \o label \o probe \o probe \o <<" ", ".">>)
  IN  IF ts \in {Error, << >>} THEN Fail ELSE ts[1][1]
\* Every block mints its blank nodes in a scope of its own.
parse_trig(cs) ==
  LET parts == split(cs, 1, [preamble |-> << >>, default |-> << >>, named |-> << >>, failed |-> FALSE])
      tagged(ts, g) == [k \in DOMAIN ts |-> <<ts[k][1], ts[k][2], ts[k][3], g>>]
      unnamed == parse_turtle(parts.preamble \o parts.default)
      label == [i \in DOMAIN parts.named |-> resolve_label(parts.preamble, parts.named[i][1])]
      block == [i \in DOMAIN parts.named |-> parse_str_scoped(parts.preamble \o parts.named[i][2], <<"g", ToString(i)>>)]
  IN  IF parts.failed \/ Fail \in ToSet(label) \/ Error \in {unnamed} \cup ToSet(block) THEN Error
      ELSE tagged(unnamed, None) \o FlattenSeq([i \in DOMAIN block |-> tagged(block[i], Some(label[i]))])
=============================================================================
