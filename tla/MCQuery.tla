------------------------------ MODULE MCQuery ------------------------------
(***************************************************************************)
(* Query on three nodes with a cycle, a loop and an edge out of it, their  *)
(* numbers and one named graph, for a list of queries that uses every construct.       *)
(*                                                                         *)
(* The queries leave out what the engine is known to treat differently     *)
(* (see the README): a variable in predicate and in node position, a       *)
(* predicate variable of a sub-SELECT that is joined outside, GRAPH ?g     *)
(* around a pattern that binds ?g, BOUND of an outer variable in EXISTS,   *)
(* inverse entries in a negated set.                                       *)
(***************************************************************************)
EXTENDS Query

CONSTANTS
  I64_MAX, I128_MAX, PRECISION, GRAIN,   \* see TypedValues
  Years                                  \* whose dates are checked

ASSUME WidthsAssumption ==
  /\ I64_MAX \in Nat /\ I128_MAX \in Nat /\ I64_MAX < I128_MAX
  /\ PRECISION \in Nat \ {0} /\ GRAIN \in Nat \ {0}
  /\ Years \subseteq Int

V == INSTANCE TypedValues

VARIABLES
  part,        \* "none" at first, then "graphs" or "values"
  operands     \* the two values, or the one year, of part "values"

x == -1
y == -2
z == -3
w == -4
p == -5
a == 1
b == 2
link == 4
age == 5
MCTriples == {<<a, link, b>>, <<b, link, a>>, <<b, link, b>>, <<b, link, 3>>,
              <<a, age, Number(0)>>, <<a, age, Number(1)>>, <<b, age, Number(1)>>}
MCGraphNames == {3}
MCYears == (-402..8) \cup (1896..2040)
MCQuads == {<<3, <<a, link, b>>>>, <<3, <<b, link, 3>>>>}

Var(v) == [k |-> "var", v |-> v]
Const(t) == [k |-> "const", t |-> t]
Op(k, l, r) == [k |-> k, a |-> l, b |-> r]
Not(e) == [k |-> "not", a |-> e]
Is(v, ts) == [k |-> "in", v |-> v, ts |-> ts]
Exists(q, neg) == [k |-> "exists", p |-> q, neg |-> neg]
Agg(f, d, e) == [k |-> "agg", f |-> f, distinct |-> d, a |-> e]
Star == [k |-> "star"]

Bgp(tps) == [k |-> "bgp", tps |-> tps]
Filter(q, fs) == [k |-> "filter", a |-> q, fs |-> fs]
Optional(q, r, fs) == [k |-> "left_join", a |-> q, b |-> r, fs |-> fs]
Bind(q, v, e) == [k |-> "extend", a |-> q, v |-> v, e |-> e]
Values(vs, rows) == [k |-> "values", vs |-> vs, rows |-> rows]
Sub(q) == [k |-> "subselect", q |-> q]
InGraph(g, q) == [k |-> "graph", g |-> g, a |-> q]
Path(s, e, o) == [k |-> "path", s |-> s, path |-> e, o |-> o]
Step(t) == [k |-> "pred", p |-> t]
Rep(k, e) == [k |-> k, a |-> e]

All == 1000
Select(items, q) ==
  [items |-> items, pattern |-> q, group |-> << >>, having |-> << >>, distinct |-> FALSE,
   order |-> << >>, offset |-> 0, limit |-> All]
Item(v, e) == [v |-> v, e |-> e]
Plain(v) == Item(v, Var(v))
Asc(e) == [e |-> e, desc |-> FALSE]
Desc(e) == [e |-> e, desc |-> TRUE]

Links == Bgp(<<<<x, link, y>>>>)
Ages == Bgp(<<<<x, age, z>>>>)
Anything == Bgp(<<<<x, p, y>>>>)
ToB == Bgp(<<<<x, link, b>>>>)

Bgps == {
  <<<<x, link, y>>, <<y, link, x>>>>,
  <<<<x, link, y>>, <<y, link, z>>, <<z, age, w>>>>,
  <<<<x, p, b>>, <<x, age, z>>>>,
  <<<<x, link, x>>, <<x, age, z>>>>,
  <<<<x, age, z>>, <<y, age, z>>>>,
  <<<<a, p, y>>, <<y, link, b>>>>,
  <<<<x, age, z>>, <<x, link, b>>, <<y, link, a>>, <<y, age, w>>>>,
  <<<<x, link, y>>, <<y, link, z>>, <<z, link, w>>, <<a, link, b>>, <<x, age, Number(1)>>>>,
  <<<<x, p, y>>, <<y, link, z>>, <<z, age, w>>>>,
  <<<<x, link, 3>>>>}

Patterns == {Bgp(t) : t \in Bgps} \cup {
  [k |-> "empty"],
  Filter(Links, <<Is(y, {b, 3})>>),
  Filter(Links, <<Op("or", Is(x, {a}), Is(y, {a}))>>),
  Filter(Links, <<Op("and", Is(x, {b}), Not(Is(y, {b})))>>),
  Filter(Ages, <<Op("lt", Var(z), Const(Number(1)))>>),
  Filter(Ages, <<Op("or", Op("lt", Var(y), Const(Number(1))), Op("eq", Var(z), Const(Number(1))))>>),
  Filter(Ages, <<Exists(ToB, FALSE)>>),
  Filter(Links, <<Exists(Filter(Bgp(<<<<y, age, z>>>>), <<Op("eq", Var(z), Const(Number(0)))>>), TRUE)>>),
  Filter(Anything, <<Op("ne", Var(p), Const(link))>>),
  Filter(Optional(Links, Bgp(<<<<y, age, z>>>>), << >>), <<Not([k |-> "bound", v |-> z])>>),
  Optional(Links, Ages, <<Op("eq", Var(z), Const(Number(1)))>>),
  Op("join", Optional(Links, Ages, << >>), Bgp(<<<<y, age, z>>>>)),
  Op("join", Optional(Ages, Links, << >>), Bgp(<<<<y, link, x>>>>)),
  Op("union", Links, Ages),
  Op("join", Op("union", Links, Ages), Bgp(<<<<y, age, z>>>>)),
  Op("minus", Links, Bgp(<<<<y, age, z>>>>)),
  Op("minus", Op("union", Links, Ages), Bgp(<<<<w, age, z>>>>)),
  Op("minus", Links, Bgp(<<<<w, age, z>>>>)),
  Bind(Ages, w, Op("add", Var(z), Const(Number(1)))),
  Op("join", Bind(Ages, w, Op("add", Var(z), Const(Number(1)))), Bgp(<<<<y, age, w>>>>)),
  Op("join", Bind(Bind(Links, z, Var(x)), w, [k |-> "coalesce", a |-> Var(p), b |-> Var(y)]),
             Bgp(<<<<z, link, w>>>>)),
  Op("join", Values({x, z}, <<(x :> a), (x :> a) @@ (z :> Number(1)), (z :> Number(7))>>), Ages),
  Op("join", Sub([Select(<<Plain(x), Item(w, Agg("count", FALSE, Var(y)))>>, Links) EXCEPT !.group = <<Var(x)>>]), Ages),
  Op("join", Sub([Select(<<Item(z, Agg("max", FALSE, Var(z)))>>, Ages) EXCEPT !.distinct = TRUE]), Ages),
  Sub(Select(<< >>, Anything)),
  InGraph(3, Links),
  InGraph(z, Op("join", Links, Bgp(<<<<y, link, w>>>>))),
  Op("join", InGraph(z, Links), Bgp(<<<<y, link, x>>>>)),
  Op("join", Path(x, Rep("one_or_more", Step(link)), x), Ages),
  Filter(Ages, <<[k |-> "if", c |-> [k |-> "bound", v |-> z], a |-> Op("eq", Var(x), Const(b)), b |-> Const(True)]>>)}

Queries == {Select(<< >>, q) : q \in Patterns} \cup {
  [Select(<<Plain(p)>>, Anything) EXCEPT !.distinct = TRUE],
  [Select(<<Plain(x)>>, Links) EXCEPT !.distinct = TRUE, !.order = <<Desc(Var(x))>>, !.limit = 1],
  [Select(<<Plain(x), Plain(z)>>, Ages) EXCEPT !.order = <<Asc(Var(z)), Desc(Var(x))>>, !.offset = 1, !.limit = 2],
  [Select(<<Plain(x), Item(w, Op("add", Var(z), Const(Number(1))))>>, Ages)
     EXCEPT !.order = <<Desc(Var(w))>>, !.limit = 2],
  [Select(<<Plain(x), Plain(z)>>, Optional(Links, Bgp(<<<<y, age, z>>>>), << >>)) EXCEPT !.order = <<Asc(Var(z))>>, !.limit = 2],
  Select(<<Item(w, Agg("count", FALSE, Star)), Item(z, Agg("count", TRUE, Var(x)))>>, Links),
  Select(<<Item(w, Agg("sum", FALSE, Var(z))), Item(y, Agg("sum", TRUE, Var(z)))>>, Ages),
  [Select(<<Plain(x), Item(w, Agg("min", FALSE, Var(z)))>>, Ages)
     EXCEPT !.group = <<Var(x)>>, !.having = <<Op("lt", Agg("count", FALSE, Star), Const(Number(2)))>>],
  [Select(<<Plain(p), Item(w, Agg("count", FALSE, Star))>>, Anything)
     EXCEPT !.group = <<Var(p)>>, !.order = <<Desc(Var(w))>>, !.limit = 1]}

Paths ==
  LET steps == {Step(link), Rep("inverse", Step(link)), [k |-> "negated", ps |-> {<<link, FALSE>>}]}
      once == steps \cup {Op("seq", e, Step(link)) : e \in steps} \cup {Op("alt", Step(link), Step(age))}
  IN  once \cup {Rep(k, e) : k \in {"zero_or_one", "zero_or_more", "one_or_more", "inverse"}, e \in once}

-----------------------------------------------------------------------------
\* Literals on both sides of the widths, and moments in several zones.
Text(n) == V!signed(n < 0, V!digits(V!Magnitude(n)))
Pointed(m, k) == V!lexical_decimal(V!Decimal(m, k))
Literal(s, dt) == V!from_term([k |-> "Literal", value |-> s, datatype |-> <<dt>>, lang |-> V!None])
Mantissas == {0, 1, 2, 5, 9, 10, 12, 13, 50, 99, 100, 126, 127, 130}
Epoch == 86400 * 365
Moment(secs, zone) == SubSeq(V!format_xsd_datetime_utc(secs), 1, 19) \o zone
Zones == {<< >>, <<V!LETTER_Z>>, V!format_tz(3600), V!format_tz(-5400)}
Numbers ==
  {Literal(Text(n), "integer") : n \in (-9..9) \cup Mantissas \cup {-n : n \in Mantissas} \cup {-128, -127}}
    \cup {Literal(Pointed(c * m, k), "decimal") : c \in {-1, 1}, m \in Mantissas, k \in {0, 1, 3}}
    \cup {Literal(Pointed(c * m, 1), "double") : c \in {-1, 1}, m \in {0, 1, 5, 9, 12, 50, 99, 127}}
    \cup {V!Double(V!None)}
Others ==
  {V!Bool(TRUE), V!Bool(FALSE), V!Named("Iri", <<97>>), V!Named("Iri", <<97, 98>>), V!Named("Blank", <<97>>),
   V!Str(<<97>>, V!None), V!Str(<<98>>, V!None), V!Str(<<97>>, <<"en">>), V!Str(<< >>, V!None)}
    \cup {Literal(Moment(Epoch + d, zone), "dateTime") : d \in {0, 3600, 5400, -3600}, zone \in Zones}
    \cup {Literal(Moment(Epoch, <<V!POINT, V!ZERO, V!ZERO + d>>), "dateTime") : d \in {0, 5}}
    \cup {Literal(SubSeq(Moment(Epoch, << >>), 1, 10), "date"), Literal(SubSeq(Moment(Epoch, << >>), 1, 13), "date")}

Pairs == (Numbers \X Numbers) \cup (Others \X Others) \cup (Others \X {V!BigInt(100)})

\* A graph grows in one order only: every dataset is reached by one step.
Before(t, u) == \E i \in 1..3 : t[i] < u[i] /\ \A j \in 1..(i - 1) : t[j] = u[j]
MCInit == Init /\ part = "none" /\ operands = << >>
BeginGraphs == part = "none" /\ part' = "graphs" /\ UNCHANGED <<vars, operands>>
BeginValues ==
  /\ part = "none" /\ part' = "values"
  /\ operands' \in Pairs \cup {<<y1>> : y1 \in Years}
  /\ UNCHANGED vars
Insert == \E t \in Triples : insert(t) /\ \A u \in default : Before(u, t)
InsertQuad ==
  \E d \in Quads : insert_quad(d[1], d[2]) /\ default = {} /\ \A u \in named[d[1]] : Before(u, d[2])
MCNext ==
  \/ BeginGraphs \/ BeginValues
  \/ part = "graphs" /\ (Insert \/ InsertQuad) /\ UNCHANGED <<part, operands>>
mcvars == <<default, named, part, operands>>
MCSpec == MCInit /\ [][MCNext]_mcvars

-----------------------------------------------------------------------------
Evaluators(D) == {Evaluator(D, vstree, cancelled) : vstree, cancelled \in BOOLEAN}
G(D) == [n \in {o \in GraphNames : D.named[o] # {}} |-> D.named[n]]
Count(rows) == [m \in ToSet(rows) |-> Cardinality({i \in DOMAIN rows : rows[i] = m})]
KeysOf(D, q, m) == [j \in DOMAIN q.order |-> order_key(ValueOf(G(D), D.default, q.order[j].e, m))]
\* What ORDER BY, OFFSET and LIMIT may answer out of the multiset full.
IsSliceOf(D, rows, q, full) ==
  LET total == FoldFunction(LAMBDA n, s : n + s, 0, full)
      got == Count(rows)
      precedes(m, n) == \E j \in DOMAIN q.order :
                          /\ \A h \in 1..(j - 1) : KeysOf(D, q, m)[h] = KeysOf(D, q, n)[h]
                          /\ IF q.order[j].desc THEN KeysOf(D, q, m)[j] > KeysOf(D, q, n)[j]
                             ELSE KeysOf(D, q, m)[j] < KeysOf(D, q, n)[j]
      before(m) == FoldFunction(LAMBDA n, s : n + s, 0, Restrict(full, {n \in DOMAIN full : precedes(n, m)}))
      after(m) == FoldFunction(LAMBDA n, s : n + s, 0, Restrict(full, {n \in DOMAIN full : precedes(m, n)}))
  IN  /\ Len(rows) = Min({q.limit, Max({total - q.offset, 0})})
      /\ \A m \in DOMAIN got : m \in DOMAIN full /\ got[m] <= full[m]
      /\ \A i \in DOMAIN rows : before(rows[i]) < q.offset + i /\ after(rows[i]) <= total - q.offset - i

\* A SELECT returns the solutions that SPARQL defines, each as often, or the
\* part of them that ORDER BY, OFFSET and LIMIT name; a cancelled one fails.
SelectsAgree(D) ==
  \A ev \in Evaluators(D) : \A q \in Queries :
    LET r == evaluate(ev, eval_select(ev, q))
    IN  IF ev.cancelled THEN IsCancelled(r)
        ELSE IsSliceOf(D, r.rows, q, Multiset(Selected(G(D), D.default, q, << >>)))

\* Followed from that end, path e uses no negated set backwards.
RECURSIVE BansItsSets(_, _)
BansItsSets(e, reverse) ==
  CASE e.k = "pred" -> TRUE
    [] e.k = "negated" -> ~reverse
    [] e.k = "inverse" -> BansItsSets(e.a, ~reverse)
    [] e.k \in {"seq", "alt"} -> BansItsSets(e.a, reverse) /\ BansItsSets(e.b, reverse)
    [] OTHER -> BansItsSets(e.a, reverse)

\* A property path connects the nodes that the composition of its steps does,
\* and more when it uses a negated set backwards.
PathsAgree(D) ==
  LET ev == Evaluator(D, FALSE, FALSE)
      ends == {x, y} \cup Terms(D.default)
      Bound(rows) == {[v \in {u \in DOMAIN r : r[u] # Unbound} |-> r[v]] : r \in ToSet(rows)}
  IN  \A e \in Paths : \A s, o \in ends :
        LET q == Path(s, e, o)
            found == Bound(eval_path_pattern(ev, q, VarLayout(q)))
        IN  /\ OfPath(D.default, q) \subseteq found
            /\ BansItsSets(e, IsVar(s) /\ ~IsVar(o)) => found = OfPath(D.default, q)

\* Every order and every tree joins every pattern once.
PlansComplete(D) ==
  LET ev == Evaluator(D, FALSE, FALSE)
      RECURSIVE Leaves(_)
      Leaves(tree) == IF IsLeaf(tree) THEN <<tree.leaf>> ELSE Leaves(tree.l) \o Leaves(tree.r)
      IsPermutation(s, n) == Len(s) = n /\ ToSet(s) = 1..n
  IN  \A tps \in Bgps :
        LET pats == [i \in DOMAIN tps |-> compile_pattern(ev, tps[i])]
            cand == generate(pats, ev.store)
        IN  /\ IsPermutation(optimize(ev.store, cand, pats, Cardinality(AllVars(pats))).order, Len(pats))
            /\ IsPermutation(plan(ev.store, cand, pats), Len(pats))
            /\ IsPermutation(Leaves(dp_bushy(ev.store, cand, pats).tree), Len(pats))

\* The other forms make of the solutions of their pattern what SPARQL defines.
FormsAreDefined(D) ==
  \A ev \in Evaluators(D) : \A q \in Patterns :
    LET sols == {m[1] : m \in Solutions(G(D), D.default, q, << >>)}
        At(t, m) == IF ~IsVar(t) THEN t ELSE IF t \in DOMAIN m THEN m[t] ELSE Error
        Filled(tps) == {t \in {<<At(tps[i][1], m), At(tps[i][2], m), At(tps[i][3], m)>> :
                                  i \in DOMAIN tps, m \in sols} : Error \notin {t[1], t[2], t[3]}}
        hasp == p \in collect_vars(q)
        template == <<<<y, link, x>>, <<x, IF hasp THEN p ELSE age, IF hasp THEN y ELSE w>>>>
        form == [pattern |-> q, template |-> template, order |-> << >>, offset |-> 0, limit |-> All,
                 all |-> FALSE, targets |-> {a, y}, delete |-> template, insert |-> Tail(template)]
        described == {a} \cup {m[y] : m \in {n \in sols : y \in DOMAIN n}}
        ask == evaluate(ev, eval_ask(ev, q))
        construct == evaluate(ev, eval_construct(ev, form))
        describe == evaluate(ev, eval_describe(ev, form))
    IN  IF ev.cancelled THEN IsCancelled(ask) /\ IsCancelled(construct) /\ IsCancelled(describe)
        ELSE /\ ask.answer = (sols # {})
             /\ construct.triples = Filled(template)
             /\ describe.triples = {t \in D.default : t[1] \in described}
             /\ eval_update_modify(ev, form) = [dels |-> Filled(template), ins |-> Filled(Tail(template))]

\* Whatever is stored, and with or without the VS-tree, a SELECT returns the
\* solutions that SPARQL defines, each as often, or the part of them that ORDER
\* BY, OFFSET and LIMIT name; a read that was cancelled fails and never returns
\* the solutions it had (eval_pattern, eval_select_solutions, check_cancel). A
\* property path from, to or between any nodes connects the nodes that the
\* composition of its steps connects, from whichever end it is followed and
\* through whatever cycles (path_pairs, path_reach, path_closure). One that
\* follows a negated set backwards only connects them and more: path_reach then
\* bans the set's inverse entries in place of its forward ones.
AnswersAgree == [][part' = "graphs" => \A D \in {Dataset'} : SelectsAgree(D) /\ PathsAgree(D)]_mcvars

\* Whatever the statistics, and whichever of the enumerations and heuristics is
\* used, every triple pattern is joined exactly once (optimize, plan).
PlansAreComplete == [][part' = "graphs" => \A D \in {Dataset'} : PlansComplete(D)]_mcvars

\* ASK, CONSTRUCT, DESCRIBE and DELETE/INSERT ... WHERE make of the solutions
\* of their pattern what SPARQL defines, in terms: an id of a predicate, of a
\* node or of a computed value never names another term (resolve_string,
\* instantiate_template), and a cancelled one fails (check_cancel).
FormsAgree == [][part' = "graphs" => \A D \in {Dataset'} : FormsAreDefined(D)]_mcvars

-----------------------------------------------------------------------------
\* The number an exact value stands for, as numerator and denominator.
IsExact(v) == v.k \in {"Int", "BigInt", "Decimal"}
Numerator(v) == IF v.k = "Decimal" THEN v.d.mant ELSE v.i
Denominator(v) == IF v.k = "Decimal" THEN 10^v.d.scale ELSE 1
Same(n, d, v) == n * Denominator(v) = Numerator(v) * d
Exactly(op, v, u) ==
  LET n == Numerator(v)  d == Denominator(v)  m == Numerator(u)  e == Denominator(u)
  IN  CASE op = "Add" -> <<n * e + m * d, d * e>>
        [] op = "Sub" -> <<n * e - m * d, d * e>>
        [] op = "Mul" -> <<n * m, d * e>>
Wide(n) == n \in (-I128_MAX - 1)..I128_MAX
\* Both mantissas fit at the larger of the two scales.
Alignable(v, u) ==
  LET d == IF Denominator(v) < Denominator(u) THEN Denominator(u) ELSE Denominator(v)
  IN  /\ d \div Denominator(v) <= I128_MAX /\ Wide(Numerator(v) * (d \div Denominator(v)))
      /\ d \div Denominator(u) <= I128_MAX /\ Wide(Numerator(u) * (d \div Denominator(u)))

\* 128 bits hold the result, for sums with both operands at one scale.
Held(op, v, u) ==
  LET d == IF Denominator(v) < Denominator(u) THEN Denominator(v) ELSE Denominator(u)
  IN  IF op = "Mul" THEN Wide(Numerator(v) * Numerator(u))
      ELSE Alignable(v, u) /\ Wide(V!Quotient(Exactly(op, v, u)[1], d))

ArithmeticIsExact(v, u) ==
  \A op \in {"Add", "Sub", "Mul"} :
    LET r == V!arith(op, v, u)[1]
        q == Exactly(op, v, u)
    IN  /\ IsExact(r) <=> Held(op, v, u)
        /\ IsExact(r) => Same(q[1], q[2], r)
        /\ "Decimal" \notin {v.k, u.k} /\ Wide(q[1]) => r = V!int_value(q[1])
        /\ op # "Sub" => r = V!arith(op, u, v)[1]

ComparisonIsExact(v, u) ==
  Alignable(v, u) =>
    V!sparql_cmp(v, u) = <<V!Sign(Numerator(v) * Denominator(u) - Numerator(u) * Denominator(v))>>

\* FILTER and ORDER BY never contradict themselves.
ComparisonsAgree(v, u) ==
  \A c \in {V!sparql_cmp(v, u)}, answer \in {[op \in {"Eq", "Ne", "Le", "Gt"} |-> V!compare_values(op, v, u)]},
     key \in {V!key_cmp(V!order_key(v), V!order_key(u))} :
      /\ V!sparql_cmp(u, v) = IF c = V!None THEN V!None ELSE <<-c[1]>>
      /\ V!sparql_eq(v, u) = V!sparql_eq(u, v)
      /\ c # V!None /\ v.k # "Str" => answer["Eq"] = <<c = <<0>>>> /\ answer["Le"] = <<~answer["Gt"][1]>>
      /\ answer["Eq"] # V!None => answer["Ne"] = <<~answer["Eq"][1]>>
      /\ V!key_cmp(V!order_key(u), V!order_key(v)) = -key
      /\ {v.k, u.k} \subseteq {"Int", "BigInt"} => <<key>> = c
      /\ c # V!None /\ ~V!is_numeric(v) => key = c[1]

ReadsBack(v) ==
  /\ v.k # "Double" => V!from_term(V!value_to_term(v)) = v
  /\ IsExact(v) => LET n == V!negate(v)[1] IN IsExact(n) => Same(-Numerator(v), Denominator(v), n) /\ V!sparql_eq(V!negate(n)[1], v) = <<TRUE>>
  /\ V!is_numeric(v) /\ (IsExact(v) => Alignable(v, V!Integer(0))) => V!ebv(v) = <<V!sparql_cmp(v, V!Integer(0)) \notin {<<0>>, V!None}>>
  /\ V!is_numeric(v) => \A f \in {"CEIL", "FLOOR", "ROUND"} : v.k = "Int" => V!num1(f, v) = <<v>>

\* Every day of year y1 follows the day before it, names itself, and is as
\* many seconds after the epoch as its zone says.
YearIsContiguous(y1) ==
  \A m \in 1..12 : \A d \in 1..V!days_in_month(y1, m) :
    LET n == V!days_from_civil(y1, m, d)
        last == d = V!days_in_month(y1, m)
        next == IF ~last THEN <<y1, m, d + 1>> ELSE IF m < 12 THEN <<y1, m + 1, 1>> ELSE <<y1 + 1, 1, 1>>
    IN  /\ V!civil_from_days(n) = [y |-> y1, m |-> m, d |-> d]
        /\ V!days_from_civil(next[1], next[2], next[3]) = n + 1
        /\ y1 \in 1903..2037 /\ d \in {1, 28, V!days_in_month(y1, m)} =>
             \A t \in {0, 1, 43199, 86399} :
               /\ V!parse_xsd_datetime(Moment(n * 86400 + t, <<V!LETTER_Z>>)) = <<[secs |-> n * 86400 + t, frac |-> <<0, 1>>]>>
               /\ \A off \in {3600, -5400, -1800} :
                    V!parse_xsd_datetime(Moment(n * 86400 + t, V!format_tz(off)))[1].secs = n * 86400 + t - off

OperandsAgree(v, u) ==
  /\ ReadsBack(v)
  /\ ComparisonsAgree(v, u)
  /\ IsExact(v) /\ IsExact(u) => ArithmeticIsExact(v, u) /\ ComparisonIsExact(v, u)
  /\ V!is_numeric(v) /\ V!is_numeric(u) => V!sum_values(<<u, V!Bool(TRUE)>>) = V!arith("Add", V!Integer(0), u)[1]
\* FILTER, BIND, SUM and ORDER BY compute with the numbers and instants that the
\* literals stand for: integers and decimals exactly until 128 bits do not hold
\* the result or the operands at one scale, = and the orderings never contradict
\* each other (also where they fall back to doubles), a computed value written
\* as a term reads back as itself, and dates are days of the Gregorian calendar
\* whatever the leap years, eras and zones (value.rs arith, sparql_cmp, sparql_eq,
\* order_key, days_from_civil, civil_from_days, parse_xsd_datetime).
ValuesAgree ==
  [][part' = "values" =>
       \A d \in {operands'} :
         IF Len(d) = 2 THEN OperandsAgree(d[1], d[2])
         ELSE YearIsContiguous(d[1]) /\ V!days_from_civil(1970, 1, 1) = 0]_mcvars
=============================================================================
