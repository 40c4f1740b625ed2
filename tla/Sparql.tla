------------------------------- MODULE Sparql -------------------------------
(***************************************************************************)
(* What a query means, over terms: the reference that src/query is checked *)
(* against. A graph is a set of triples of terms; a solution is a function *)
(* from the variables it binds to terms. Answers are multisets: a solution *)
(* comes with its derivation, a sequence of the solutions it is made of    *)
(* and of marks, and occurs as often as it has derivations.                *)
(*                                                                         *)
(* A term is a number (Number(n) is the integer literal n), a variable is  *)
(* a negative number, and the syntax tree (ast.rs) is made of records.     *)
(***************************************************************************)
EXTENDS Integers, Sequences, FiniteSets, FiniteSetsExt, SequencesExt, Functions, TLC

IsVar(x) == x < 0
NUMBERS == 100
Number(n) == NUMBERS + n
IsNumber(t) == t >= NUMBERS
Error == -1000     \* an expression without a value
True == 90
False == 91
Truth(b) == IF b THEN True ELSE False

Compatible(m, n) == \A v \in DOMAIN m \cap DOMAIN n : m[v] = n[v]
Derived(m, d) == <<m, d>>
Mark(i) == <<0 :> i>>
Paired(d, e) == Mark(Len(d)) \o d \o e

Joined(A, B) ==
  {Derived(x[1][1] @@ x[2][1], Paired(x[1][2], x[2][2])) :
     x \in {y \in A \X B : Compatible(y[1][1], y[2][1])}}

\* The solutions of one triple pattern: a set.
Matches(t, tp) ==
  /\ \A i \in 1..3 : ~IsVar(tp[i]) => tp[i] = t[i]
  /\ \A i, j \in 1..3 : IsVar(tp[i]) /\ tp[i] = tp[j] => t[i] = t[j]
Solution(t, tp) ==
  [v \in {tp[i] : i \in {j \in 1..3 : IsVar(tp[j])}} |->
     t[CHOOSE i \in 1..3 : tp[i] = v]]
OfPattern(g, tp) == {Solution(t, tp) : t \in {u \in g : Matches(u, tp)}}
OfBgp(g, tps) ==
  FoldLeft(LAMBDA acc, tp :
             {x[1] @@ x[2] : x \in {y \in acc \X OfPattern(g, tp) : Compatible(y[1], y[2])}},
           {<< >>}, tps)

\* The pairs of terms a property path connects; the entries of a negated set are
\* forward ones.
Terms(g) == {t[1] : t \in g} \cup {t[3] : t \in g}
Compose(R, S) == {<<x[1][1], x[2][2]>> : x \in {y \in R \X S : y[1][2] = y[2][1]}}
RECURSIVE Closure(_)
Closure(R) == LET S == R \cup Compose(R, R) IN IF S = R THEN R ELSE Closure(S)
RECURSIVE Connects(_, _)
Connects(g, e) ==
  CASE e.k = "pred" -> {<<t[1], t[3]>> : t \in {u \in g : u[2] = e.p}}
    [] e.k = "inverse" -> {<<r[2], r[1]>> : r \in Connects(g, e.a)}
    [] e.k = "seq" -> Compose(Connects(g, e.a), Connects(g, e.b))
    [] e.k = "alt" -> Connects(g, e.a) \cup Connects(g, e.b)
    [] e.k = "zero_or_one" -> Connects(g, e.a) \cup {<<t, t>> : t \in Terms(g)}
    [] e.k = "zero_or_more" -> Closure(Connects(g, e.a)) \cup {<<t, t>> : t \in Terms(g)}
    [] e.k = "one_or_more" -> Closure(Connects(g, e.a))
    [] e.k = "negated" -> {<<t[1], t[3]>> : t \in {u \in g : <<u[2], FALSE>> \notin e.ps}}
OfPath(g, p) ==
  {(IF IsVar(p.s) THEN p.s :> r[1] ELSE << >>) @@ (IF IsVar(p.o) THEN p.o :> r[2] ELSE << >>) :
     r \in {x \in Connects(g, p.path) :
              /\ ~IsVar(p.s) => x[1] = p.s
              /\ ~IsVar(p.o) => x[2] = p.o
              /\ p.s = p.o => x[1] = x[2]}}

\* Expressions: a term, True, False or Error.
Logic(k, x, y) ==
  LET stop == IF k = "and" THEN False ELSE True
  IN  CASE x = stop \/ y = stop -> stop
        [] x = Error \/ y = Error -> Error
        [] OTHER -> IF k = "and" THEN True ELSE False
Ebv(x) ==
  CASE x \in {True, False} -> x
    [] IsNumber(x) -> Truth(x # Number(0))
    [] OTHER -> Error
Related(op, x, y) ==
  CASE x = Error \/ y = Error -> Error
    [] op = "eq" /\ IsNumber(x) = IsNumber(y) -> Truth(x = y)
    [] op = "ne" /\ IsNumber(x) = IsNumber(y) -> Truth(x # y)
    [] op = "lt" /\ IsNumber(x) = IsNumber(y) -> Truth(x < y)
    [] OTHER -> Error
Plus(x, y) == IF x # Error /\ y # Error /\ IsNumber(x) /\ IsNumber(y) THEN x + y - NUMBERS ELSE Error

RECURSIVE Solutions(_, _, _, _), ValueOf(_, _, _, _), Selected(_, _, _, _)

\* The value of e for solution m. EXISTS looks for a solution of its pattern
\* that agrees with m, and m is in scope everywhere in that pattern.
ValueOf(G, g, e, m) ==
  CASE e.k = "var" -> IF e.v \in DOMAIN m THEN m[e.v] ELSE Error
    [] e.k = "const" -> e.t
    [] e.k = "bound" -> Truth(e.v \in DOMAIN m)
    [] e.k = "in" -> IF e.v \in DOMAIN m THEN Truth(m[e.v] \in e.ts) ELSE Error
    [] e.k = "not" -> LET x == Ebv(ValueOf(G, g, e.a, m)) IN IF x = Error THEN x ELSE Truth(x = False)
    [] e.k \in {"and", "or"} -> Logic(e.k, Ebv(ValueOf(G, g, e.a, m)), Ebv(ValueOf(G, g, e.b, m)))
    [] e.k \in {"eq", "ne", "lt"} -> Related(e.k, ValueOf(G, g, e.a, m), ValueOf(G, g, e.b, m))
    [] e.k = "add" -> Plus(ValueOf(G, g, e.a, m), ValueOf(G, g, e.b, m))
    [] e.k = "if" -> LET c == Ebv(ValueOf(G, g, e.c, m))
                     IN  IF c = Error THEN c ELSE ValueOf(G, g, IF c = True THEN e.a ELSE e.b, m)
    [] e.k = "coalesce" -> LET x == ValueOf(G, g, e.a, m) IN IF x = Error THEN ValueOf(G, g, e.b, m) ELSE x
    [] e.k = "exists" -> Truth((Solutions(G, g, e.p, m) # {}) # e.neg)
Holds(G, g, fs, m) == \A i \in DOMAIN fs : Ebv(ValueOf(G, g, fs[i], m)) = True

\* The solutions of pattern p in graph g with named graphs G, when the
\* solution env of an enclosing pattern is in scope.
Solutions(G, g, p, env) ==
  LET Of(q) == Solutions(G, g, q, env)
      Once(S) == {Derived(m, <<m>>) : m \in {n \in S : Compatible(n, env)}}
  IN
  CASE p.k = "empty" -> {Derived(<< >>, << >>)}
    [] p.k = "bgp" -> Once(OfBgp(g, p.tps))
    [] p.k = "path" -> Once(OfPath(g, p))
    [] p.k = "join" -> Joined(Of(p.a), Of(p.b))
    [] p.k = "union" -> {Derived(x[1], Mark(1) \o x[2]) : x \in Of(p.a)} \cup
                        {Derived(x[1], Mark(2) \o x[2]) : x \in Of(p.b)}
    [] p.k = "filter" -> {x \in Of(p.a) : Holds(G, g, p.fs, x[1] @@ env)}
    [] p.k = "left_join" ->
         LET A == Of(p.a)
             J == {x \in Joined(A, Of(p.b)) : Holds(G, g, p.fs, x[1] @@ env)}
             Extended(x) == \E y \in J : y[2][1] = (0 :> Len(x[2])) /\ SubSeq(y[2], 2, Len(x[2]) + 1) = x[2]
                                       /\ Restrict(y[1], DOMAIN x[1]) = x[1]
         IN  {Derived(x[1], Mark(1) \o x[2]) : x \in J} \cup
             {Derived(x[1], Mark(2) \o x[2]) : x \in {y \in A : ~Extended(y)}}
    [] p.k = "minus" ->
         {x \in Of(p.a) : ~\E y \in Of(p.b) : DOMAIN x[1] \cap DOMAIN y[1] # {} /\ Compatible(x[1], y[1])}
    [] p.k = "extend" ->
         {Derived(LET t == ValueOf(G, g, p.e, x[1] @@ env)
                  IN  IF t = Error THEN x[1] ELSE x[1] @@ (p.v :> t), x[2]) : x \in Of(p.a)}
    [] p.k = "values" -> {Derived(p.rows[i], Mark(i)) : i \in DOMAIN p.rows}
    [] p.k = "subselect" -> Selected(G, g, p.q, << >>)
    [] p.k = "graph" ->
         IF IsVar(p.g)
         THEN UNION {Joined({Derived(p.g :> n, Mark(n))}, Solutions(G, G[n], p.a, env)) :
                       n \in {o \in DOMAIN G : p.g \in DOMAIN env => env[p.g] = o}}
         ELSE IF p.g \in DOMAIN G THEN Solutions(G, G[p.g], p.a, env) ELSE {}

-----------------------------------------------------------------------------
\* SELECT: the projected solutions, before ORDER BY, OFFSET and LIMIT.

RECURSIVE Total(_)
Total(S) == IF S = {} THEN 0
            ELSE LET x == CHOOSE y \in S : TRUE IN x[1] + Total(S \ {x})
\* An aggregate over a group; D is its multiset of argument values.
Aggregate(e, group, D) ==
  LET distinct == {x[1] : x \in D}
      nums == {x \in D : IsNumber(x[1])}
      sum == IF e.distinct THEN Total({<<t - NUMBERS, 0>> : t \in {x \in distinct : IsNumber(x)}})
             ELSE Total({<<x[1] - NUMBERS, x[2]>> : x \in nums})
  IN  CASE e.f = "count" /\ e.a.k = "star" ->
             Number(Cardinality(IF e.distinct THEN {x[1] : x \in group} ELSE group))
        [] e.f = "count" -> Number(Cardinality(IF e.distinct THEN distinct ELSE D))
        [] e.f = "sum" -> Number(sum)
        [] e.f = "max" -> IF D = {} THEN Error ELSE CHOOSE t \in distinct : \A u \in distinct : u <= t
        [] e.f = "min" -> IF D = {} THEN Error ELSE CHOOSE t \in distinct : \A u \in distinct : u >= t
Arguments(G, g, e, group) ==
  IF e.a.k = "star" THEN {}
  ELSE {x \in {<<ValueOf(G, g, e.a, y[1]), y[2]>> : y \in group} : x[1] # Error}

Row(items, Val(_)) ==
  LET at(v) == Val(items[CHOOSE i \in DOMAIN items : items[i].v = v].e)
  IN  [v \in {w \in {items[i].v : i \in DOMAIN items} : at(w) # Error} |-> at(v)]

Selected(G, g, q, env) ==
  LET sols == Solutions(G, g, q.pattern, env)
      Key(x) == [i \in DOMAIN q.group |-> ValueOf(G, g, q.group[i], x[1])]
      keys == IF q.group = << >> THEN {<< >>} ELSE {Key(x) : x \in sols}
      GroupOf(k) == {x \in sols : Key(x) = k}
      InGroup(e, k) ==
        IF e.k = "agg" THEN Aggregate(e, GroupOf(k), Arguments(G, g, e, GroupOf(k)))
        ELSE LET i == CHOOSE j \in DOMAIN q.group : q.group[j] = e IN k[i]
      Having(k) == \A i \in DOMAIN q.having :
                     Related(q.having[i].k, InGroup(q.having[i].a, k), q.having[i].b.t) = True
      rows == IF q.group # << >> \/ \E i \in DOMAIN q.items : q.items[i].e.k = "agg"
              THEN {Derived(Row(q.items, LAMBDA e : InGroup(e, k)), <<k>>) : k \in {l \in keys : Having(l)}}
              ELSE IF q.items = << >> THEN sols
              ELSE {Derived(Row(q.items, LAMBDA e : ValueOf(G, g, e, x[1])), x[2]) : x \in sols}
  IN  IF q.distinct THEN {Derived(m, <<m>>) : m \in {x[1] : x \in rows}} ELSE rows

\* An answer: how often each row occurs.
Multiset(rows) == [m \in {x[1] : x \in rows} |-> Cardinality({x \in rows : x[1] = m})]
=============================================================================
