------------------------------ MODULE MCSyntax ------------------------------
(* The SPARQL front end for TLC.                                             *)
(*                                                                           *)
(* part = "request": a request is written down from its syntax tree as       *)
(* SPARQL has it, with only the parentheses that the precedences need, and  *)
(* read back by SparqlParser.  Expressions, paths and query forms are taken  *)
(* from bounded sets; groups grow by one element per step.                   *)
(* part = "text": a text grows by one piece per step and SparqlLexer splits  *)
(* it into tokens; the reference is the longest token at every place.        *)
(* part = "lines", "trig", "reference": a document of lines, a document of   *)
(* graph blocks and a relative IRI grow and are read by RdfText.             *)
EXTENDS SparqlParser, FiniteSets, FiniteSetsExt

Lexer == INSTANCE SparqlLexer
CONSTANT MAX_NESTING_DEPTH
Rdf == INSTANCE RdfText

CONSTANTS
  MaxElements,  \* elements of the group that grows
  MaxPieces,    \* pieces of the text that grows
  MaxLines,     \* lines of a document
  MaxStatements,\* statements of a document of graph blocks
  MaxReference  \* characters of a relative IRI

ASSUME BoundsAssumption == {MaxElements, MaxPieces, MaxLines, MaxStatements, MaxReference} \subseteq Nat

VARIABLES
  part,
  request,      \* the syntax tree of the request
  text          \* the pieces of the text, of the document or of the IRI

vars == <<part, request, text>>

(***************************************************************************)
(* Writing expressions and paths: the level of the production a tree needs.*)
(***************************************************************************)
V(x) == [t |-> "Var", v |-> <<x>>]
I(n) == [t |-> "Iri", v |-> <<"http:", "/", n>>]
P(kind) == Tok(kind)

ExprLevel(e) ==
  CASE e[1] = "Or" -> 1 [] e[1] = "And" -> 2 [] e[1] = "Compare" -> 3
    [] e[1] = "Arith" -> IF e[2] \in {"Plus", "Minus"} THEN 4 ELSE 5
    [] e[1] \in {"Not", "Neg"} -> 6
    [] OTHER -> 7

PathLevel(q) ==
  CASE q[1] = "Alt" -> 1 [] q[1] = "Seq" -> 2 [] q[1] = "Inverse" -> 3
    [] q[1] \in {"ZeroOrMore", "OneOrMore", "ZeroOrOne"} -> 4
    [] OTHER -> 5

Parens(ts) == <<P("LParen")>> \o ts \o <<P("RParen")>>
Braces(ts) == <<P("LBrace")>> \o ts \o <<P("RBrace")>>

TermTokens(x) ==
  CASE x[1] = "Var" -> <<[t |-> "Var", v |-> x[2]]>>
    [] x[1] = "Term" /\ x[2] = <<"Iri", RDF_TYPE>> -> <<Word("a")>>
    [] x[1] = "Term" /\ x[2][1] = "Iri" /\ x[2][2] # RDF_TYPE -> <<[t |-> "Iri", v |-> x[2][2]]>>
    [] OTHER -> <<[t |-> "Integer", v |-> x[2][2]]>>

RECURSIVE Concat(_), WriteExpr(_, _), WritePath(_, _), WriteGroup(_), WriteSelect(_),
          Separated(_, _)
Concat(ss) == IF ss = <<>> THEN <<>> ELSE Head(ss) \o Concat(Tail(ss))
Separated(ss, separator) ==
  IF Len(ss) <= 1 THEN Concat(ss)
  ELSE Head(ss) \o <<separator>> \o Separated(Tail(ss), separator)

WriteExpr(e, level) ==
  LET l == ExprLevel(e)
      binary(op, a, b) == WriteExpr(e[a], l) \o <<op>> \o WriteExpr(e[b], l + 1)
      ts == CASE e[1] = "Or" -> binary(P("Or"), 2, 3)
              [] e[1] = "And" -> binary(P("And"), 2, 3)
              [] e[1] = "Compare" -> WriteExpr(e[3], 4) \o <<P(e[2])>> \o WriteExpr(e[4], 4)
              [] e[1] = "Arith" -> binary(P(e[2]), 3, 4)
              [] e[1] = "Not" -> <<P("Not")>> \o WriteExpr(e[2], 6)
              [] e[1] = "Neg" -> <<P("Minus")>> \o WriteExpr(e[2], 6)
              [] e[1] = "Var" -> TermTokens(e)
              [] e[1] = "Const" -> TermTokens(<<"Term", e[2]>>)
              [] e[1] = "Builtin" ->
                   <<Word(e[2])>> \o
                     Parens(Separated([i \in DOMAIN e[3] |-> WriteExpr(e[3][i], 1)], P("Comma")))
              [] e[1] = "Aggregate" ->
                   <<Word(e[2])>> \o Parens(
                     (IF e[3] THEN <<Word("DISTINCT")>> ELSE <<>>) \o
                     (IF e[4] = None THEN <<P("Star")>> ELSE WriteExpr(e[4][1], 1)) \o
                     (IF e[5] = None THEN <<>>
                      ELSE <<P("Semicolon"), Word("SEPARATOR"), P("Eq"),
                             Lexer!Str(e[5][1], None, None)>>))
              [] OTHER ->
                   (IF e[2] THEN <<Word("NOT")>> ELSE <<>>) \o <<Word("EXISTS")>>
                     \o WriteGroup(e[3])
  IN IF l < level THEN Parens(ts) ELSE ts

WritePath(q, level) ==
  LET l == PathLevel(q)
      one(x) == (IF x[2] THEN <<P("Caret")>> ELSE <<>>) \o TermTokens(<<"Term", <<"Iri", x[1]>>>>)
      ts == CASE q[1] = "Alt" -> WritePath(q[2], 1) \o <<P("Pipe")>> \o WritePath(q[3], 2)
              [] q[1] = "Seq" -> WritePath(q[2], 2) \o <<P("Slash")>> \o WritePath(q[3], 3)
              [] q[1] = "Inverse" -> <<P("Caret")>> \o WritePath(q[2], 4)
              [] q[1] = "ZeroOrMore" -> WritePath(q[2], 4) \o <<P("Star")>>
              [] q[1] = "OneOrMore" -> WritePath(q[2], 4) \o <<P("Plus")>>
              [] q[1] = "ZeroOrOne" -> WritePath(q[2], 4) \o <<P("Question")>>
              [] q[1] = "Pred" -> TermTokens(<<"Term", <<"Iri", q[2]>>>>)
              [] OTHER ->
                   <<P("Not")>> \o
                     IF Len(q[2]) = 1 THEN one(q[2][1])
                     ELSE Parens(Separated([i \in DOMAIN q[2] |-> one(q[2][i])], P("Pipe")))
  IN IF l < level THEN Parens(ts) ELSE ts

(***************************************************************************)
(* Groups: a sequence of elements.                                         *)
(*   <<"triples", s, verbs>>     verbs a sequence of <<verb, objects>>     *)
(*   <<"filter", e>> <<"optional", g>> <<"minus", g>> <<"bind", e, v>>     *)
(*   <<"values", vs, rows>> <<"graph", term, g>> <<"service", s, term, g>> *)
(*   <<"groups", gs>>            gs joined by UNION                        *)
(*   <<"select", query>>                                                   *)
(***************************************************************************)
WriteVerb(verb) ==
  IF verb[1] = "Simple" THEN TermTokens(verb[2]) ELSE WritePath(verb[2], 1)
WriteTriples(s, verbs) ==
  TermTokens(s) \o
  Separated([i \in DOMAIN verbs |->
               WriteVerb(verbs[i][1]) \o
                 Separated([j \in DOMAIN verbs[i][2] |-> TermTokens(verbs[i][2][j])], P("Comma"))],
            P("Semicolon"))
RefTokens(r) == IF r[1] = "Var" THEN TermTokens(r) ELSE <<[t |-> "Iri", v |-> r[2]]>>
CellTokens(c) == IF c = None THEN <<Word("UNDEF")>> ELSE TermTokens(<<"Term", c[1]>>)

WriteElement(e) ==
  CASE e[1] = "triples" -> WriteTriples(e[2], e[3]) \o <<P("Dot")>>
    [] e[1] = "filter" -> <<Word("FILTER")>> \o Parens(WriteExpr(e[2], 1))
    [] e[1] = "optional" -> <<Word("OPTIONAL")>> \o WriteGroup(e[2])
    [] e[1] = "minus" -> <<Word("MINUS")>> \o WriteGroup(e[2])
    [] e[1] = "bind" ->
         <<Word("BIND")>> \o
           Parens(WriteExpr(e[2], 1) \o <<Word("AS"), [t |-> "Var", v |-> e[3]]>>)
    [] e[1] = "values" ->
         <<Word("VALUES")>> \o
           (IF Len(e[2]) = 1 THEN <<[t |-> "Var", v |-> e[2][1]]>>
            ELSE Parens([i \in DOMAIN e[2] |-> [t |-> "Var", v |-> e[2][i]]])) \o
           Braces(Concat([i \in DOMAIN e[3] |->
             LET cells == Concat([j \in DOMAIN e[3][i] |-> CellTokens(e[3][i][j])])
             IN IF Len(e[2]) = 1 THEN cells ELSE Parens(cells)]))
    [] e[1] = "graph" -> <<Word("GRAPH")>> \o RefTokens(e[2]) \o WriteGroup(e[3])
    [] e[1] = "service" ->
         <<Word("SERVICE")>> \o (IF e[2] THEN <<Word("SILENT")>> ELSE <<>>)
           \o RefTokens(e[3]) \o WriteGroup(e[4])
    [] e[1] = "groups" ->
         Separated([i \in DOMAIN e[2] |-> WriteGroup(e[2][i])], Word("UNION"))
    [] OTHER -> Braces(WriteSelect(e[2]))
WriteGroup(g) == Braces(Concat([i \in DOMAIN g |-> WriteElement(g[i])]))

(***************************************************************************)
(* What a group means (SPARQL 1.1, 18.2.2): its FILTERs constrain the      *)
(* whole group wherever they stand, triples that only FILTERs separate are *)
(* one basic graph pattern, and the rest is folded from left to right.     *)
(***************************************************************************)
RECURSIVE Meaning(_), MeaningOfExpr(_), MeaningOfSelect(_), Selected(_, _), Fold(_, _)

(* The subsequence of the elements whose kind is in S.                       *)
Selected(g, S) ==
  IF g = <<>> THEN <<>>
  ELSE (IF g[1][1] \in S THEN <<g[1]>> ELSE <<>>) \o Selected(Tail(g), S)

AllKinds == {"triples", "filter", "optional", "minus", "bind", "values", "graph", "service",
             "groups", "select"}
Filters(g) ==
  LET fs == Selected(g, {"filter"}) IN [i \in DOMAIN fs |-> MeaningOfExpr(fs[i][2])]
Unfiltered(g) == Selected(g, AllKinds \ {"filter"})

(* The length of the run of triples g starts with.                           *)
RunLength(g) ==
  CHOOSE n \in 0 .. Len(g) :
    (\A i \in 1 .. n : g[i][1] = "triples") /\ (n = Len(g) \/ g[n + 1][1] # "triples")

Pairs(e) ==
  Concat([i \in DOMAIN e[3] |-> [j \in DOMAIN e[3][i][2] |-> <<e[2], e[3][i][1], e[3][i][2][j]>>]])
OfVerb(ps, kind) == SelectSeq(ps, LAMBDA x : x[2][1] = kind)
Block(g) ==
  LET ps == Concat([i \in DOMAIN g |-> Pairs(g[i])])
      plain == OfVerb(ps, "Simple")
      paths == OfVerb(ps, "Path")
  IN (IF plain = <<>> THEN <<>>
      ELSE << <<"Bgp", [i \in DOMAIN plain |-> <<plain[i][1], plain[i][2][2], plain[i][3]>>]>> >>)
     \o [i \in DOMAIN paths |-> <<"Path", paths[i][1], paths[i][2][2], paths[i][3]>>]

Conjoin(a, b) == IF a = <<"Empty">> THEN b ELSE <<"Join", a, b>>
RECURSIVE ConjoinAll(_, _), UnionOf(_)
ConjoinAll(a, ps) == IF ps = <<>> THEN a ELSE ConjoinAll(Conjoin(a, ps[1]), Tail(ps))
UnionOf(gs) ==
  IF Len(gs) = 1 THEN Meaning(gs[1])
  ELSE <<"Union", UnionOf(SubSeq(gs, 1, Len(gs) - 1)), Meaning(gs[Len(gs)])>>

(* A FILTER directly inside OPTIONAL is the condition of the left join.      *)
Extended(a, e) ==
  CASE e[1] = "optional" -> <<"LeftJoin", a, Fold(<<"Empty">>, Unfiltered(e[2])), Filters(e[2])>>
    [] e[1] = "minus" -> <<"Minus", a, Meaning(e[2])>>
    [] e[1] = "bind" -> <<"Extend", a, e[3], MeaningOfExpr(e[2])>>
    [] e[1] = "values" -> Conjoin(a, <<"Values", e[2], e[3]>>)
    [] e[1] = "graph" -> Conjoin(a, <<"Graph", e[2], Meaning(e[3])>>)
    [] e[1] = "service" -> Conjoin(a, <<"Service", e[3], e[2], Meaning(e[4])>>)
    [] e[1] = "groups" -> Conjoin(a, UnionOf(e[2]))
    [] OTHER -> Conjoin(a, <<"SubSelect", MeaningOfSelect(e[2])>>)

Fold(a, g) ==
  LET n == RunLength(g) IN
  CASE g = <<>> -> a
    [] n > 0 -> Fold(ConjoinAll(a, Block(SubSeq(g, 1, n))), SubSeq(g, n + 1, Len(g)))
    [] OTHER -> Fold(Extended(a, g[1]), Tail(g))

Meaning(g) ==
  LET body == Fold(<<"Empty">>, Unfiltered(g)) IN
  IF Filters(g) = <<>> THEN body ELSE <<"Filter", Filters(g), body>>

MeaningOfExpr(e) ==
  CASE e[1] = "Exists" -> <<"Exists", e[2], Meaning(e[3])>>
    [] e[1] = "Not" -> <<"Not", MeaningOfExpr(e[2])>>
    [] OTHER -> e

(***************************************************************************)
(* Requests.  A query form is a record; an update is a sequence of         *)
(* operations.                                                             *)
(***************************************************************************)
Triples(ts) ==
  Concat([i \in DOMAIN ts |->
            TermTokens(ts[i][1]) \o TermTokens(ts[i][2]) \o TermTokens(ts[i][3]) \o <<P("Dot")>>])

WriteItem(x) ==
  IF x[1] = "Var" THEN TermTokens(x)
  ELSE Parens(WriteExpr(x[2], 1) \o <<Word("AS"), [t |-> "Var", v |-> x[3]]>>)
WriteProjection(x) ==
  IF x[1] = "All" THEN <<P("Star")>> ELSE Concat([i \in DOMAIN x[2] |-> WriteItem(x[2][i])])

WriteModifiers(m) ==
  (IF m.limit = None THEN <<>> ELSE <<Word("LIMIT"), [t |-> "Integer", v |-> m.limit[1]]>>) \o
  (IF m.order_by = <<>> THEN <<>>
   ELSE <<Word("ORDER"), Word("BY")>> \o
     Concat([i \in DOMAIN m.order_by |->
               (IF m.order_by[i][2] THEN <<Word("DESC")>> ELSE <<>>)
                 \o Parens(WriteExpr(m.order_by[i][1], 1))])) \o
  (IF m.offset = None THEN <<>> ELSE <<Word("OFFSET"), [t |-> "Integer", v |-> m.offset[1]]>>)

WriteSelect(q) ==
  <<Word("SELECT")>> \o (IF q[2] THEN <<Word("DISTINCT")>> ELSE <<>>) \o WriteProjection(q[3])
    \o WriteGroup(q[4])
    \o (IF q[5][1] = <<>> THEN <<>>
        ELSE <<Word("GROUP"), Word("BY")>> \o
               Concat([i \in DOMAIN q[5][1] |-> Parens(WriteExpr(q[5][1][i], 1))]))
    \o (IF q[5][2] = <<>> THEN <<>> ELSE <<Word("HAVING")>>)
    \o Concat([i \in DOMAIN q[5][2] |-> Parens(WriteExpr(q[5][2][i], 1))])
    \o WriteModifiers(q[6])
MeaningOfSelect(q) == [q EXCEPT ![4] = Meaning(q[4])]

GroundTokens(ts) ==
  Concat([i \in DOMAIN ts |->
    LET three == Concat([j \in 1 .. 3 |-> TermTokens(<<"Term", ts[i][j]>>)])
    IN IF ts[i][4] = None THEN three \o <<P("Dot")>>
       ELSE <<Word("GRAPH"), [t |-> "Iri", v |-> ts[i][4][1]]>> \o Braces(three)])

TargetTokens(x) ==
  CASE x[1] = "Default" -> <<Word("DEFAULT")>>
    [] x[1] = "AllGraphs" -> <<Word("ALL")>>
    [] OTHER -> <<Word("GRAPH"), [t |-> "Iri", v |-> x[2]]>>
SilentTokens(s) == IF s THEN <<Word("SILENT")>> ELSE <<>>

WriteOp(op) ==
  CASE op[1] = "InsertData" -> <<Word("INSERT"), Word("DATA")>> \o Braces(GroundTokens(op[2]))
    [] op[1] = "DeleteData" -> <<Word("DELETE"), Word("DATA")>> \o Braces(GroundTokens(op[2]))
    [] op[1] = "Modify" ->
         (IF op[2] = <<>> THEN <<>> ELSE <<Word("DELETE")>> \o Braces(Triples(op[2]))) \o
         (IF op[3] = <<>> THEN <<>> ELSE <<Word("INSERT")>> \o Braces(Triples(op[3]))) \o
         <<Word("USING"), I("g"), Word("WHERE")>> \o WriteGroup(op[4])
    [] op[1] = "DeleteWhere" -> <<Word("DELETE"), Word("WHERE")>> \o Braces(Triples(op[2]))
    [] op[1] = "Load" ->
         <<Word("LOAD")>> \o SilentTokens(op[3]) \o <<[t |-> "Iri", v |-> op[2]]>>
    [] op[1] \in {"Clear", "Drop"} ->
         <<Word(IF op[1] = "Clear" THEN "CLEAR" ELSE "DROP")>> \o SilentTokens(op[3])
           \o TargetTokens(op[2])
    [] OTHER ->
         <<Word("CREATE")>> \o SilentTokens(op[3]) \o <<Word("GRAPH"), [t |-> "Iri", v |-> op[2]]>>
(* A USING clause, which selects a dataset, is skipped by design: the         *)
(* operation means what it means without it.                                 *)
MeaningOfOp(op) ==
  CASE op[1] = "Modify" -> <<"Modify", op[2], op[3], Meaning(op[4])>>
    [] op[1] = "DeleteWhere" -> <<"Modify", op[2], <<>>, <<"Bgp", op[2]>>>>
    [] OTHER -> op

Write(r) ==
  CASE r[1] = "Select" -> WriteSelect(r)
    [] r[1] = "Ask" -> <<Word("ASK")>> \o WriteGroup(r[2])
    [] r[1] = "Construct" ->
         <<Word("CONSTRUCT")>> \o Braces(Triples(r[2])) \o <<Word("WHERE")>>
           \o WriteGroup(r[3]) \o WriteModifiers(r[4])
    [] r[1] = "Describe" ->
         <<Word("DESCRIBE")>> \o
           (IF r[3] THEN <<P("Star")>> ELSE Concat([i \in DOMAIN r[2] |-> TermTokens(r[2][i])])) \o
           (IF r[4] = None THEN <<>> ELSE WriteGroup(r[4][1]))
    [] OTHER -> Separated([i \in DOMAIN r[2] |-> WriteOp(r[2][i])], P("Semicolon"))
MeaningOfRequest(r) ==
  CASE r[1] = "Select" -> MeaningOfSelect(r)
    [] r[1] = "Ask" -> <<"Ask", Meaning(r[2])>>
    [] r[1] = "Construct" -> [r EXCEPT ![3] = Meaning(r[3])]
    [] r[1] = "Describe" -> IF r[4] = None THEN r ELSE [r EXCEPT ![4] = Some(Meaning(r[4][1]))]
    [] OTHER -> <<"Update", [i \in DOMAIN r[2] |-> MeaningOfOp(r[2][i])]>>

(***************************************************************************)
(* The instances.                                                          *)
(***************************************************************************)
x == <<"Var", <<"x">>>>
y == <<"Var", <<"y">>>>
Node(n) == <<"Term", <<"Iri", <<"http:", "/", n>>>>>>
Pred(n) == <<"Pred", <<"http:", "/", n>>>>
One == <<"Const", typed_literal(<<"1">>, INTEGER)>>

Combine(es) ==
  {<<op, a, b>> : op \in {"Or", "And"}, a \in es, b \in es}
    \cup {<<k[1], k[2], a, b>> : k \in {<<"Compare", "Lt">>, <<"Arith", "Minus">>, <<"Arith", "Slash">>},
                                 a \in es, b \in es}
    \cup {<<op, a>> : op \in {"Not", "Neg"}, a \in es}
Simple == {x, One}
Called == {<<"Builtin", "BOUND", <<x>>>>, <<"Builtin", "NOW", <<>>>>,
           <<"Builtin", "REGEX", <<x, <<"Or", x, y>>>>>>,
           <<"Aggregate", "COUNT", TRUE, None, None>>,
           <<"Aggregate", "SUM", FALSE, Some(<<"Arith", "Plus", x, y>>), None>>,
           <<"Aggregate", "GROUP_CONCAT", FALSE, Some(x), Some(<<"sep">>)>>,
           <<"Exists", TRUE, << <<"triples", x, << <<<<"Simple", Node("p")>>, <<y>>>> >>>> >>>>,
           <<"Exists", FALSE, << <<"triples", x, << <<<<"Simple", Node("p")>>, <<y>>>> >>>>,
                                 <<"filter", x>> >>>>}
Exprs == Called \cup {<<"Not", c>> : c \in Called} \cup Combine(Simple \cup Combine(Simple))

CombinePaths(qs) ==
  {<<op, a, b>> : op \in {"Seq", "Alt"}, a \in qs, b \in qs}
    \cup {<<op, a>> : op \in {"Inverse", "ZeroOrMore", "OneOrMore", "ZeroOrOne"}, a \in qs}
SimplePaths == {Pred("p"), <<"Pred", RDF_TYPE>>,
                <<"NegatedSet", << <<<<"http:", "/", "p">>, FALSE>>, <<RDF_TYPE, TRUE>> >>>>}
Paths == CombinePaths(SimplePaths \cup CombinePaths(SimplePaths))

Triple1 == <<"triples", x, << <<<<"Simple", Node("p")>>, <<y, Node("a")>>>> >>>>
Triple2 == <<"triples", y, << <<<<"Simple", Node("p")>>, <<x>>>>,
                              <<<<"Path", <<"ZeroOrMore", Pred("p")>>>>, <<x, y>>>>,
                              <<<<"Simple", <<"Term", <<"Iri", RDF_TYPE>>>>>>, <<x>>>> >>>>
Inner == {<<>>, <<Triple1>>, <<Triple1, <<"filter", x>>>>, << <<"filter", y>>, Triple2>>}
SubQuery ==
  <<"Select", TRUE, <<"Items", <<x>>>>, <<Triple1>>, << <<>>, <<>> >>,
    [NoModifiers EXCEPT !.limit = Some(<<"1">>)]>>
Elements ==
  {Triple1, Triple2, <<"filter", <<"Compare", "Lt", x, y>>>>,
   <<"bind", <<"Arith", "Plus", x, One>>, <<"z">>>>,
   <<"values", <<<<"x">>>>, << <<None>>, <<Some(<<"Iri", <<"http:", "/", "a">>>>)>> >>>>,
   <<"values", << <<"x">>, <<"y">> >>, << <<None, Some(<<"Iri", <<"http:", "/", "a">>>>)>> >>>>,
   <<"select", SubQuery>>}
    \cup {<<"optional", g>> : g \in Inner} \cup {<<"minus", g>> : g \in Inner}
    \cup {<<"graph", <<"Var", <<"g">>>>, <<Triple1, <<"filter", x>>>>>>,
          <<"service", TRUE, <<"Iri", <<"http:", "/", "s">>>>, <<Triple1>>>>}
    \cup {<<"groups", <<g>>>> : g \in Inner}
    \cup {<<"groups", <<g, <<Triple1>>, <<Triple2>>>>>> : g \in Inner}

Modifiers ==
  {NoModifiers,
   [order_by |-> << <<x, TRUE>>, <<<<"Arith", "Plus", x, y>>, FALSE>> >>,
    limit |-> Some(<<"1">>), offset |-> Some(<<"2">>)],
   [NoModifiers EXCEPT !.order_by = << <<y, FALSE>> >>, !.limit = Some(<<"0">>)],
   [NoModifiers EXCEPT !.limit = Some(TOO_LARGE)]}
Selects ==
  {<<"Select", d, proj, g, groups, m>> :
     d \in BOOLEAN, g \in Inner, m \in Modifiers,
     proj \in {<<"All">>, <<"Items", <<x, <<"Expr", <<"Aggregate", "COUNT", FALSE, None, None>>, <<"n">>>>>>>>},
     groups \in {<< <<>>, <<>> >>, << <<x, <<"Arith", "Plus", x, y>>>>, <<>> >>,
                 << <<x>>, << <<"Compare", "Lt", One, x>> >> >>,
                 << <<x>>, << <<"Compare", "Lt", One, x>>, <<"Not", x>> >> >>}}
TheTriples == << <<x, Node("p"), y>>, <<y, Node("p"), Node("a")>> >>
Ground == << <<Node("a")[2], Node("p")[2], Node("b")[2], None>>,
             <<Node("b")[2], Node("p")[2], Node("a")[2], Some(<<"http:", "/", "g">>)>> >>
Ops ==
  {<<"InsertData", Ground>>, <<"DeleteData", Ground>>, <<"DeleteWhere", TheTriples>>,
   <<"Modify", TheTriples, <<>>, <<Triple1>>>>, <<"Modify", <<>>, TheTriples, <<Triple2>>>>,
   <<"Modify", TheTriples, TheTriples, <<Triple1, <<"filter", x>>>>>>,
   <<"Load", <<"http:", "/", "d">>, TRUE>>, <<"Create", <<"http:", "/", "g">>, FALSE>>}
    \cup {<<k, tgt, s>> : k \in {"Clear", "Drop"}, s \in BOOLEAN,
                          tgt \in {<<"Default">>, <<"AllGraphs">>, <<"Named", <<"http:", "/", "g">>>>}}
Forms ==
  Selects
    \cup {<<"Ask", g>> : g \in Inner}
    \cup {<<"Construct", TheTriples, g, m>> : g \in Inner, m \in Modifiers}
    \cup {<<"Describe", <<>>, TRUE, Some(<<Triple1>>)>>,
          <<"Describe", <<x, Node("a")>>, FALSE, Some(<<Triple1>>)>>,
          <<"Describe", <<Node("a")>>, FALSE, None>>}
    \cup {<<"Update", <<op>>>> : op \in Ops} \cup {<<"Update", <<a, b>>>> : a \in Ops, b \in Ops}

AskFilter(e) == <<"Ask", << <<"filter", e>> >>>>
AskPath(q) == <<"Ask", << <<"triples", x, << <<<<"Path", q>>, <<y>>>> >>>> >>>>

(***************************************************************************)
(* RDF documents.                                                          *)
(***************************************************************************)
IriA == Rdf!Iri(<<"a", ":", "a">>)
IriB == Rdf!Iri(<<"a", ":", "b">>)
Odd == <<"{", ".", "dquote", "backslash">>
OddIri == Rdf!Iri(<<"a", ":", "#", "{">>)
(* A line is <<terms, what ends it>>; a line without terms is empty.         *)
LineTerms ==
  { <<IriA, IriB, Rdf!Literal(<<"dquote", "backslash", "newline">>, None, None)>>,
    <<Rdf!Blank(<<"1", ".">>), IriA, OddIri>>,
    <<IriB, IriA, Rdf!Literal(<<" ", ".">>, None, Some(<<"a", "-">>)), Rdf!Blank(<<"a">>)>>,
    <<IriA, IriA, Rdf!Literal(<<"#">>, Some(IriB[2]), None), IriB>>,
    <<IriA, IriB>>, <<>> }
Lines == {<<terms, end>> : terms \in LineTerms, end \in {<<>>, <<".", "#", " ", "dquote">>}}
            \cup {<<<<>>, <<".">>>>, <<<<IriA, IriA, IriA>>, <<" ", ".", "cr">>>>}
WriteLine(l) == Concat([i \in DOMAIN l[1] |-> Rdf!dict_key(l[1][i]) \o <<" ">>]) \o l[2]
QuadOf(l) == CASE Len(l[1]) = 4 -> <<l[1][1], l[1][2], l[1][3], Some(l[1][4])>>
               [] Len(l[1]) = 3 -> Append(l[1], None)
               [] OTHER -> IF WriteLine(l) = <<>> THEN <<"Nothing">> ELSE <<"Fail">>

(* Terms that a document may hold, to be written as dictionary keys.         *)
Keys ==
  LET values == UNION {[1..n -> {"a", "dquote", "backslash", "newline", "cr", "u"}] : n \in 0..3}
  IN {Rdf!Literal(v, None, None) : v \in values}
       \cup {Rdf!Literal(v, Some(IriA[2]), None) : v \in values} \cup {Rdf!Literal(v, None, Some(<<"a">>)) : v \in values}
       \cup {IriA, OddIri, Rdf!Blank(<<"a", ".", "1">>)}

(* Nodes: <<"term", term>>, <<"list", items>>, <<"props", verbs>>, verbs a    *)
(* sequence of <<IRI, objects>>.  A statement is <<graph, node, verbs>>.     *)
T(t) == <<"term", t>>
Leaves == {T(IriA), T(OddIri), T(Rdf!Blank(<<"b">>)), T(Rdf!Literal(Odd, None, None)), T(Rdf!typed_literal(<<"1">>, IriB[2])),
           T(Rdf!typed_literal(<<"-", "1", ".", "5">>, Rdf!XSD("decimal"))), T(Rdf!typed_literal(<<"true">>, Rdf!XSD("boolean"))),
           T(Rdf!Literal(<<"a">>, None, Some(<<"a">>))), <<"list", <<>>>>, <<"props", <<>>>>}
Nested(ns) == {<<"list", <<n, T(IriB)>>>> : n \in ns} \cup {<<"list", <<T(IriA), n, n>>>> : n \in ns}
                \cup {<<"props", << <<IriB, <<n>>>>, <<Rdf!RDF("type"), <<T(IriA), n>>>> >>>> : n \in ns}
Few == {<<"props", <<>>>>, <<"list", <<T(IriA)>>>>, T(Rdf!typed_literal(<<"1">>, IriB[2]))}
Objects == Leaves \cup Nested(Leaves) \cup Nested(Nested(Few)) \cup Nested(Nested(Nested(Few)))
GraphNames == {None, Some(IriB)}
Blocks ==
  {<<g, n, verbs>> : g \in GraphNames, n \in {T(IriA), <<"props", << <<IriB, <<T(IriA)>>>> >>>>, <<"list", <<T(IriA)>>>>},
     verbs \in {<< <<IriB, <<<<"props", <<>>>>>>>>, <<Rdf!RDF("type"), <<T(IriA), <<"list", <<T(IriB)>>>>>>>> >>}}
    \cup {<<g, <<"props", << <<IriB, <<n>>>> >>>>, <<>>>> : g \in GraphNames, n \in Few \cup {T(OddIri), T(Rdf!Literal(Odd, None, None))}}
Statements == Blocks \cup {<<None, T(IriA), << <<IriB, <<n, T(IriB)>>>> >>>> : n \in Objects}

Pieces == { <<"a">>, <<"e">>, <<"1">>, <<".">>, <<"<">>, <<">">>, <<"=">>, <<"?">>, <<":">>,
            <<"_">>, <<"dquote">>, <<"dquote", "dquote">>, <<"backslash">>, <<"backslash", "u", "0", "0", "2", "2">>,
            <<" ">>, <<"^", "^">>, <<"|">>, <<"#">>, <<"newline">>, <<"@">>}

Init == part = "none" /\ request = <<"Ask", <<>>>> /\ text = <<>>

BeginRequest ==
  /\ part = "none" /\ part' = "request"
  /\ request' \in Forms \cup {AskFilter(e) : e \in Exprs} \cup {AskPath(q) : q \in Paths} \cup {request}
  /\ UNCHANGED text
BeginKey == part = "none" /\ part' = "key" /\ text' \in {<<t>> : t \in Keys} /\ UNCHANGED request
BeginText ==
  part = "none" /\ part' \in {"text", "lines", "trig", "reference"} /\ UNCHANGED <<request, text>>

AddElement(e) ==
  /\ part = "request"
  /\ request[1] = "Ask"
  /\ Len(request[2]) < MaxElements
  /\ \A i \in DOMAIN request[2] : request[2][i] \in Elements
  /\ request' = <<"Ask", Append(request[2], e)>>
  /\ UNCHANGED <<part, text>>

AddPiece(piece) ==
  /\ part = "text"
  /\ Len(text) < MaxPieces
  /\ text' = Append(text, piece)
  /\ UNCHANGED <<part, request>>

Add(kind, S, bound) ==
  /\ part = kind
  /\ Len(text) < bound
  /\ \E piece \in S : text' = Append(text, piece)
  /\ UNCHANGED <<part, request>>

Next ==
  \/ BeginRequest \/ BeginKey \/ BeginText
  \/ \E e \in Elements : AddElement(e)
  \/ \E piece \in Pieces : AddPiece(piece)
  \/ Add("lines", Lines, MaxLines)
  \/ Add("trig", IF text = <<>> THEN Statements ELSE Blocks, MaxStatements)
  \/ Add("reference", {"a", "/", ".", "?", "#"}, MaxReference)
Spec == Init /\ [][Next]_vars

(***************************************************************************)
(* The reference for the lexer: what a slice spells, and the longest slice *)
(* at every place.                                                         *)
(***************************************************************************)
In(s, S) == \A i \in DOMAIN s : s[i] \in S
NameChars == Lexer!Letters \cup Lexer!Digits \cup {"_"}
LastOf(s) == s[Len(s)]
Middle(s, n) == SubSeq(s, n + 1, Len(s) - n)
EscapedQuote == <<"backslash", "u", "0", "0", "2", "2">>

(* The units of s, <<is it written with an escape, character>>; \c stands for *)
(* c in pairs, \u0022 for a double quote, and a bad escape is the unit Bad.   *)
Bad == <<TRUE, "bad">>
RECURSIVE Units(_, _)
Units(s, pairs) ==
  CASE s = <<>> -> <<>>
    [] s # <<>> /\ s[1] # "backslash" -> <<<<FALSE, s[1]>>>> \o Units(Tail(s), pairs)
    [] Len(s) >= 2 /\ s[1] = "backslash" /\ s[2] \in pairs ->
         <<<<TRUE, s[2]>>>> \o Units(SubSeq(s, 3, Len(s)), pairs)
    [] Len(s) >= 6 /\ SubSeq(s, 1, 6) = EscapedQuote ->
         <<<<TRUE, "dquote">>>> \o Units(SubSeq(s, 7, Len(s)), pairs)
    [] OTHER -> <<Bad>>
Chars(units) == [i \in DOMAIN units |-> units[i][2]]
StringUnits(s) == Units(s, {"dquote", "backslash"})
RawQuote == <<FALSE, "dquote">>
WithoutBad(units) == \A i \in DOMAIN units : units[i] # Bad

Fixed == [k \in {<<"<">>, <<"<", "=">>, <<">">>, <<">", "=">>, <<"=">>, <<"?">>, <<"^">>, <<"|">>,
                 <<"|", "|">>, <<".">>} |->
  CASE k = <<"<">> -> "Lt" [] k = <<"<", "=">> -> "Le" [] k = <<">">> -> "Gt"
    [] k = <<">", "=">> -> "Ge" [] k = <<"=">> -> "Eq" [] k = <<"?">> -> "Question"
    [] k = <<"^">> -> "Caret" [] k = <<"|">> -> "Pipe" [] k = <<"|", "|">> -> "Or"
    [] OTHER -> "Dot"]

IsSpace(s, next) ==
  \/ Len(s) = 1 /\ s[1] \in {" ", "newline"}
  \/ s[1] = "#" /\ (\A i \in 1 .. Len(s) - 1 : s[i] # "newline")
     /\ (LastOf(s) = "newline" \/ next = "")

IsIri(s) ==
  /\ Len(s) >= 2 /\ s[1] = "<" /\ LastOf(s) = ">"
  /\ \A i \in 2 .. Len(s) - 1 : s[i] \notin {">", "<", "dquote", "{", "}", "|", "^", "backtick", " ", "newline"}
  /\ WithoutBad(Units(Middle(s, 1), {}))
IsPName(s) ==
  \E k \in DOMAIN s :
    /\ s[k] = ":"
    /\ In(SubSeq(s, 1, k - 1), NameChars)
    /\ k > 1 => s[1] \notin Lexer!Digits
    /\ SubSeq(s, 1, k - 1) # <<"_">>
    /\ In(SubSeq(s, k + 1, Len(s)), NameChars \cup {"-", ".", "%"})
    /\ LastOf(s) # "."
Colon(s) == CHOOSE k \in DOMAIN s : s[k] = ":" /\ \A j \in 1 .. k - 1 : s[j] # ":"
IriToken(s) == [t |-> "Iri", v |-> Chars(Units(Middle(s, 1), {}))]
PNameToken(s) ==
  [t |-> "PName", v |-> <<SubSeq(s, 1, Colon(s) - 1)>> \o SubSeq(s, Colon(s) + 1, Len(s))]

(* A string literal without its suffix: the body holds no closing quote.     *)
Quotes(s, n) == Len(s) >= 2 * n /\ \A i \in 1 .. n : s[i] = "dquote" /\ s[Len(s) + 1 - i] = "dquote"
IsShort(s, next) ==
  LET body == StringUnits(Middle(s, 1)) IN
  /\ Quotes(s, 1)
  /\ Len(s) = 2 => next # "dquote"
  /\ \A i \in DOMAIN body : body[i] \notin {RawQuote, Bad}
IsLong(s) ==
  LET body == StringUnits(Middle(s, 3))
      all == body \o <<RawQuote, RawQuote>>
  IN /\ Quotes(s, 3)
     /\ WithoutBad(body)
     /\ \A i \in DOMAIN body : \E j \in i .. i + 2 : all[j] # RawQuote
IsQuoted(s, next) == IsShort(s, next) \/ IsLong(s)
Value(s) == Chars(StringUnits(Middle(s, IF IsLong(s) THEN 3 ELSE 1)))

StrTokens(s, next) ==
  {Lexer!Str(Value(s), <<>>, <<>>) : k \in IF IsQuoted(s, next) THEN {0} ELSE {}}
  \cup
  {Lexer!Str(Value(SubSeq(s, 1, k - 1)), <<SubSeq(s, k + 1, Len(s))>>, <<>>) :
     k \in {i \in DOMAIN s : /\ s[i] = "@" /\ IsQuoted(SubSeq(s, 1, i - 1), "@")
                           /\ In(SubSeq(s, i + 1, Len(s)), (NameChars \ {"_"}) \cup {"-"})}}
  \cup
  {LET dt == SubSeq(s, k + 2, Len(s))
   IN Lexer!Str(Value(SubSeq(s, 1, k - 1)), <<>>, <<IF IsIri(dt) THEN IriToken(dt) ELSE PNameToken(dt)>>) :
     k \in {i \in 1 .. Len(s) - 2 :
            /\ s[i] = "^" /\ s[i + 1] = "^" /\ IsQuoted(SubSeq(s, 1, i - 1), "^")
            /\ IsIri(SubSeq(s, i + 2, Len(s))) \/ IsPName(SubSeq(s, i + 2, Len(s)))}}

IsInteger(s) == s # <<>> /\ In(s, Lexer!Digits)
IsDecimal(s) ==
  \E k \in DOMAIN s : s[k] = "." /\ In(SubSeq(s, 1, k - 1), Lexer!Digits) /\ IsInteger(SubSeq(s, k + 1, Len(s)))
IsDouble(s) ==
  \E k \in DOMAIN s :
    /\ s[k] = "e" /\ IsInteger(SubSeq(s, k + 1, Len(s)))
    /\ IsInteger(SubSeq(s, 1, k - 1)) \/ IsDecimal(SubSeq(s, 1, k - 1))

Plain(kind, s, holds) == IF holds THEN {[t |-> kind, v |-> s]} ELSE {}
Spelled(s, next) ==
  Plain("Space", <<>>, IsSpace(s, next))
    \cup (IF s \in DOMAIN Fixed THEN {Tok(Fixed[s])} ELSE {})
    \cup (IF IsIri(s) THEN {IriToken(s)} ELSE {})
    \cup Plain("Var", Tail(s), s[1] = "?" /\ Len(s) > 1 /\ In(Tail(s), NameChars))
    \cup Plain("Blank", SubSeq(s, 3, Len(s)), /\ Len(s) >= 2 /\ s[1] = "_" /\ s[2] = ":"
                                             /\ In(SubSeq(s, 3, Len(s)), NameChars \cup {"-", "."}))
    \cup Plain("Word", s, In(s, NameChars) /\ s[1] \notin Lexer!Digits)
    \cup (IF IsPName(s) THEN {PNameToken(s)} ELSE {})
    \cup StrTokens(s, next)
    \cup Plain("Integer", s, IsInteger(s)) \cup Plain("Decimal", s, IsDecimal(s))
    \cup Plain("Double", s, IsDouble(s))

RECURSIVE Munch(_)
Munch(cs) ==
  LET next(n) == IF n < Len(cs) THEN cs[n + 1] ELSE ""
      ends == {n \in 1 .. Len(cs) : Spelled(SubSeq(cs, 1, n), next(n)) # {}}
      n == CHOOSE m \in ends : \A k \in ends : k <= m
      token == CHOOSE tok \in Spelled(SubSeq(cs, 1, n), next(n)) : TRUE
      rest == Munch(SubSeq(cs, n + 1, Len(cs)))
  IN CASE cs = <<>> -> <<Tok("Eof")>>
       [] cs # <<>> /\ ends = {} -> <<Tok("Fail")>>
       [] OTHER -> IF rest[1].t = "Fail" \/ token.t = "Space" THEN rest ELSE <<token>> \o rest

(* Texts the lexer reads otherwise than SPARQL does and no query holds: an   *)
(* exponent without digits or followed by more of a number, and ^^ after a   *)
(* string without an IRI or a prefixed name.                                 *)
OddExponent(cs) ==
  \E i \in 1 .. Len(cs) - 1 :
    /\ cs[i] \in Lexer!Digits /\ cs[i + 1] = "e"
    /\ LET end == Lexer!scan(cs, i + 2, Lexer!Digits)
       IN end = i + 2 \/ Lexer!char(cs, end) \in {"e", "."}
OddDatatype(ts) ==
  \E i \in 1 .. Len(ts) - 1 : ts[i].t = "Str" /\ ts[i + 1].t = "Caret"
OddSuffix(cs) ==
  \E i \in 1 .. Len(cs) - 2 : cs[i] = "dquote" /\ cs[i + 1] = "^" /\ cs[i + 2] = "^"
(***************************************************************************)
(* Properties.                                                             *)
(***************************************************************************)
Eof == <<Tok("Eof")>>

(* The request with its IRIs abbreviated by a prefix, or as names relative to *)
(* a base that ends in a slash: for any other base, and for a reference with *)
(* dots or a slash of its own, resolve_iri is not RFC 3986.                  *)
Name(iri) == SubSeq(iri, 3, Len(iri))
Prefixed(ts) ==
  <<Word("PREFIX"), [t |-> "PName", v |-> <<"n">>], [t |-> "Iri", v |-> <<"http:", "/">>]>> \o
  [i \in DOMAIN ts |-> IF ts[i].t = "Iri" THEN [t |-> "PName", v |-> <<"n">> \o Name(ts[i].v)]
                       ELSE ts[i]]
Relative(ts) ==
  <<Word("BASE"), [t |-> "Iri", v |-> <<"http:", "/">>]>> \o
  [i \in DOMAIN ts |-> IF ts[i].t = "Iri" THEN [t |-> "Iri", v |-> Name(ts[i].v)] ELSE ts[i]]

(* What is written for a syntax tree by the grammar is parsed into what the  *)
(* tree means: precedence and associativity of operators and paths, the      *)
(* placing of FILTERs, basic graph patterns, OPTIONAL conditions, modifiers  *)
(* in any order, every query form and update, with IRIs in full, prefixed or *)
(* relative (parse_request and below). Refused are a LIMIT beyond usize and, *)
(* though SPARQL has it, a second constraint after one HAVING.               *)
Refused(r) ==
  \/ r[1] = "Select" /\ (Len(r[5][2]) > 1 \/ r[6].limit = Some(TOO_LARGE))
  \/ r[1] = "Construct" /\ r[4].limit = Some(TOO_LARGE)
GrammarIsRead(r) ==
  LET ts == Write(r) IN
  \A written \in {ts, Prefixed(ts), Relative(ts)} :
    parse_request(written \o Eof) = IF Refused(r) THEN <<"Fail">> ELSE MeaningOfRequest(r)

(* The parse reflects the whole string (the comment in parse_request): after *)
(* a complete request, a separator and a second one are either rejected or,  *)
(* for updates, both part of the result; an unmatched brace is rejected, an  *)
(* undeclared prefix too.                                                    *)
NothingIsDropped(r) ==
  LET ts == Write(r)
      drop == <<"Drop", <<"AllGraphs">>, FALSE>>
      both == parse_request(ts \o <<P("Semicolon")>> \o WriteOp(drop) \o Eof)
  IN /\ both = IF r[1] = "Update" THEN <<"Update", Append(MeaningOfRequest(r)[2], drop)>> ELSE <<"Fail">>
     /\ parse_request(ts \o <<P("RBrace")>> \o Eof) = <<"Fail">>
     /\ (\E i \in DOMAIN ts : ts[i].t = "Iri") =>
          parse_request(SubSeq(Prefixed(ts), 4, Len(ts) + 3) \o Eof) = <<"Fail">>

LongestTokens(cs) ==
  LET ts == Munch(cs)
  IN OddExponent(cs) \/ OddDatatype(ts) \/ (OddSuffix(cs) /\ ts[1].t = "Fail") \/ Lexer!tokenize(cs) = ts

(* The lexer takes the longest token everywhere: < starts an IRI only when   *)
(* the IRI ends properly, a dot after a name or a number ends the statement, *)
(* ? alone is a path modifier, """ opens a long string, a # inside an IRI is *)
(* no comment (lex_lt_or_iri, lex_word_or_pname, lex_number, lex_string).    *)
TokensAreLongest == [][part' = "text" => \A cs \in {Concat(text')} : LongestTokens(cs)]_vars

(***************************************************************************)
(* The variables a group mentions outside FILTERs, and those only MINUS    *)
(* mentions: SPARQL has the first in scope, collect_vars takes both.       *)
(***************************************************************************)
RECURSIVE InScope(_, _)
VarsOf(pts) == {pts[i][2] : i \in {j \in DOMAIN pts : pts[j][1] = "Var"}}
InElement(e, minus) ==
  CASE e[1] = "triples" ->
         VarsOf(<<e[2]>>) \cup UNION {VarsOf(e[3][i][2]) : i \in DOMAIN e[3]}
    [] e[1] = "filter" -> {}
    [] e[1] = "optional" -> InScope(e[2], minus)
    [] e[1] = "minus" -> IF minus THEN InScope(e[2], minus) ELSE {}
    [] e[1] = "bind" -> {e[3]}
    [] e[1] = "values" -> {e[2][i] : i \in DOMAIN e[2]}
    [] e[1] = "graph" -> VarsOf(<<e[2]>>) \cup InScope(e[3], minus)
    [] e[1] = "service" -> VarsOf(<<e[3]>>) \cup InScope(e[4], minus)
    [] e[1] = "groups" -> UNION {InScope(e[2][i], minus) : i \in DOMAIN e[2]}
    [] OTHER -> {e[2][3][2][i][2] : i \in DOMAIN e[2][3][2]}
InScope(g, minus) == UNION {InElement(g[i], minus) : i \in DOMAIN g}

(* The columns of SELECT * over a group are its variables in scope, each     *)
(* once, plus at most those of its MINUS groups (collect_vars): a variable   *)
(* of a FILTER or one a sub-SELECT does not project is no column.            *)
ColumnsAreInScope(r) ==
  r[1] = "Ask" =>
    LET columns == collect_vars(parse_request(Write(r) \o Eof)[2], <<>>)
        found == {columns[i] : i \in DOMAIN columns}
    IN /\ InScope(r[2], FALSE) \subseteq found
       /\ found \subseteq InScope(r[2], TRUE)
       /\ Cardinality(found) = Len(columns)

(***************************************************************************)
(* References for RDF documents.                                           *)
(***************************************************************************)
(* Every term that is no IRI with > or a backslash, nor a minted blank node, *)
(* is read back from its dictionary key (dict_key, ntriples::parse_term).  A *)
(* line of each format is read as its terms, whatever they hold of quotes,   *)
(* newlines, dots and comments; a bad line fails the document; and the bulk  *)
(* loaders, which cut the text into chunks for their threads or the triples  *)
(* into batches, load the same triples in the same order.                    *)
KeyIsRead(t) == Rdf!parse_term(Rdf!dict_key(t)) = t
LinesAreRead(lines) ==
  LET document == Concat([i \in DOMAIN lines |-> WriteLine(lines[i]) \o <<"newline">>])
      quads == [i \in DOMAIN lines |-> QuadOf(lines[i])]
      read == SelectSeq(quads, LAMBDA q : q # <<"Nothing">>)
      bad == \E i \in DOMAIN read : read[i] = <<"Fail">>
      named == \E i \in DOMAIN read : Len(read[i]) = 4 /\ read[i][4] # None
      triples == Rdf!parse_triples(document)
  IN /\ Rdf!parse_quads(document) = IF bad THEN Rdf!Error ELSE read
     /\ triples = IF bad \/ named THEN Rdf!Error ELSE [i \in DOMAIN read |-> SubSeq(read[i], 1, 3)]
     /\ \A n \in 2..5 : \A cut \in {document, SubSeq(document, 1, Len(document) - 1)} : document # <<>> => Rdf!parsed_parallel(cut, n) = triples
     /\ triples # Rdf!Error => \A n \in 1..2 : Concat(Rdf!Batches(triples, n)) = triples

(* Writing: IRIs in full, by the prefix a or relative to the base.           *)
Spaced(ts) == Concat([i \in DOMAIN ts |-> <<" ">> \o ts[i]])
WriteIri(s, how) ==
  IF Len(s) # 3 \/ how = "full" THEN <<"<">> \o s \o <<">">>
  ELSE IF how = "prefixed" THEN s ELSE <<"<">> \o SubSeq(s, 3, 3) \o <<">">>
RECURSIVE WriteNode(_, _), WriteVerbs(_, _)
WriteNode(n, how) ==
  CASE n[1] = "list" -> <<"(">> \o Spaced([i \in DOMAIN n[2] |-> WriteNode(n[2][i], how)]) \o <<" ", ")">>
    [] n[1] = "props" -> <<"[">> \o WriteVerbs(n[2], how) \o <<" ", "]">>
    [] n[1] = "term" /\ n[2][1] = "Iri" -> WriteIri(n[2][2], how)
    [] n[1] = "term" /\ n[2][1] = "Literal" /\ n[2][3] \in {Some(Rdf!XSD("decimal")), Some(Rdf!XSD("boolean"))} -> n[2][2]
    [] n[1] = "term" /\ n[2][1] = "Literal" /\ n[2][3] = Some(IriB[2]) ->
         Rdf!dict_key(Rdf!Literal(n[2][2], None, None)) \o <<"^", "^">> \o WriteIri(IriB[2], how)
    [] OTHER -> Rdf!dict_key(n[2])
WriteVerbs(vs, how) ==
  Separated([i \in DOMAIN vs |->
    <<" ">> \o (IF vs[i][1] = Rdf!RDF("type") THEN <<"a">> ELSE WriteIri(vs[i][1][2], how))
      \o Separated([j \in DOMAIN vs[i][2] |-> <<" ">> \o WriteNode(vs[i][2][j], how)], ",")], ";")
WriteStatement(st, how) == WriteNode(st[2], how) \o WriteVerbs(st[3], how)
WriteGraph(st, how) ==
  IF st[1] = None THEN WriteStatement(st, how) \o <<" ", ".", "newline">>
  ELSE <<"graph", " ">> \o WriteIri(st[1][1][2], how) \o <<" ", "{">> \o WriteStatement(st, how) \o <<" ", "}", "newline">>
Directives(how) ==
  CASE how = "full" -> <<>>
    [] how = "prefixed" -> <<"@", "prefix", " ", "a", ":", " ", "<", "a", ":", ">", " ", ".", "newline">>
    [] OTHER -> <<"base", " ", "#", "<", "newline", "<", "a", ":", ">", "newline">>

(* What a node is: minted blank nodes are told by what hangs on them, a set  *)
(* of properties, with the items of a collection as one.                     *)
RECURSIVE Shape(_, _), ListShape(_, _), Unfold(_, _)
PropsShape(vs) == UNION {{<<vs[i][1], Shape(vs[i][2][j], <<>>)>> : j \in DOMAIN vs[i][2]} : i \in DOMAIN vs}
ListShape(items, vs) ==
  IF items = <<>> THEN T(Rdf!RDF("nil"))
  ELSE <<"blank", {<<Rdf!RDF("first"), Shape(items[1], <<>>)>>, <<Rdf!RDF("rest"), ListShape(Tail(items), <<>>)>>} \cup PropsShape(vs)>>
Shape(n, vs) ==
  CASE n[1] = "list" -> ListShape(n[2], vs)
    [] n[1] = "props" -> <<"blank", PropsShape(n[2]) \cup PropsShape(vs)>>
    [] OTHER -> n
Minted(t) == t[1] = "Blank" /\ \E i \in DOMAIN t[2] : t[2][i] = "~"
Unfold(qs, t) ==
  IF Minted(t) THEN <<"blank", {<<q[2], Unfold(qs, q[3])>> : q \in {r \in qs : r[1] = t}}>> ELSE T(t)
RECURSIVE MintedBy(_), Depth(_)
OfVerbs(vs, f(_)) == FoldSet(LAMBDA p, acc : acc + f(vs[p[1]][2][p[2]]), 0, UNION {{i} \X DOMAIN vs[i][2] : i \in DOMAIN vs})
OfItems(ns, f(_)) == FoldSet(LAMBDA i, acc : acc + f(ns[i]), 0, DOMAIN ns)
MintedBy(n) ==
  CASE n[1] = "list" -> Len(n[2]) + OfItems(n[2], MintedBy)
    [] n[1] = "props" -> 1 + OfVerbs(n[2], MintedBy)
    [] OTHER -> 0
Deepest(ds) == Max({0} \cup ds)
Depth(n) ==
  CASE n[1] = "list" -> 1 + Deepest({Depth(n[2][i]) : i \in DOMAIN n[2]})
    [] n[1] = "props" -> 1 + Deepest(UNION {{Depth(n[2][i][2][j]) : j \in DOMAIN n[2][i][2]} : i \in DOMAIN n[2]})
    [] OTHER -> IF n[2][1] = "Literal" /\ n[2][3] = Some(IriB[2]) THEN 2 ELSE 1

(* A document of Turtle statements and graph blocks is read as the graph it  *)
(* denotes, with IRIs in full, prefixed or relative: nested collections and  *)
(* property lists are chains and bunches of triples on blank nodes that no   *)
(* two places share, in the same block or in two; braces and dots in         *)
(* literals, IRIs and comments end nothing; and exactly what nests deeper    *)
(* than MAX_NESTING_DEPTH is rejected, siblings not counted                  *)
(* (turtle::parse_term, trig::split). No block ends in a comment: the dot    *)
(* ensure_terminated adds would be part of it.                               *)
GraphsAreRead(statements) ==
  LET full(n) == Depth(n) > MAX_NESTING_DEPTH
      deep == \E i \in DOMAIN statements : Depth(<<"props", statements[i][3]>>) - 1 > MAX_NESTING_DEPTH \/ full(statements[i][2])
      minted == OfItems([i \in DOMAIN statements |-> <<"props", <<<<IriA, <<statements[i][2]>>>>>> \o statements[i][3]>>], MintedBy) - Len(statements)
      plain == {<<statements[i][2], PropsShape(statements[i][3]), statements[i][1]>> : i \in {j \in DOMAIN statements : statements[j][2][1] = "term"}}
      roots == {<<Shape(statements[i][2], statements[i][3]), statements[i][1]>> : i \in {j \in DOMAIN statements : statements[j][2][1] # "term"}}
  IN \A how \in {"full", "prefixed", "relative"} :
       LET read == Rdf!parse_trig(Directives(how) \o Concat([i \in DOMAIN statements |-> WriteGraph(statements[i], how)]))
           qs == {read[i] : i \in DOMAIN read}
           nodes == {q[1] : q \in qs} \cup {q[3] : q \in qs}
       IN IF deep THEN read = Rdf!Error
          ELSE /\ read # Rdf!Error
               /\ Cardinality({t \in nodes : Minted(t)}) = minted
               /\ UNION {{<<p[1], v, p[3]>> : v \in p[2]} : p \in plain} =
                    {<<T(q[1]), <<q[2], Unfold(qs, q[3])>>, q[4]>> : q \in {r \in qs : ~Minted(r[1])}}
               /\ roots = {<<Unfold(qs, q[1]), q[4]>> : q \in {r \in qs : Minted(r[1]) /\ \A s \in qs : s[3] # r[1]}}

(* Segments of an absolute path, without . and with .. taking one back.      *)
RECURSIVE Segments(_), Kept(_, _)
Segments(path) ==
  IF path = <<>> THEN <<>>
  ELSE LET end == Rdf!Position(Tail(path), {"/"}) IN <<SubSeq(path, 2, end)>> \o Segments(SubSeq(path, end + 1, Len(path)))
Kept(segments, stack) ==
  LET back == IF stack = <<>> THEN stack ELSE SubSeq(stack, 1, Len(stack) - 1)
      last == Len(segments) = 1
  IN CASE segments = <<>> -> stack
       [] segments # <<>> /\ segments[1] = <<".">> -> Kept(Tail(segments), IF last THEN Append(stack, <<>>) ELSE stack)
       [] segments # <<>> /\ segments[1] = <<".", ".">> -> Kept(Tail(segments), IF last THEN Append(back, <<>>) ELSE back)
       [] OTHER -> Kept(Tail(segments), Append(stack, segments[1]))
Normal(path) == Concat([i \in DOMAIN Kept(Segments(path), <<>>) |-> <<"/">> \o Kept(Segments(path), <<>>)[i]])

(* A relative IRI is resolved against the base as RFC 3986 says: by segments *)
(* of the path, with the base's query only for an empty path, and with an    *)
(* authority of its own if it starts with // (resolve_reference).            *)
ReferenceResolves(reference) ==
  LET f == Rdf!Position(reference, {"#"})
      q == Rdf!Position(SubSeq(reference, 1, f - 1), {"?"})
      hier == SubSeq(reference, 1, q - 1)
      query == SubSeq(reference, q, f - 1)
      fragment == SubSeq(reference, f, Len(reference))
      own == Len(hier) >= 2 /\ hier[1] = "/" /\ hier[2] = "/"
      end == IF own THEN Rdf!Position(SubSeq(hier, 3, Len(hier)), {"/"}) + 1 ELSE 0
      authority == SubSeq(hier, 3, end)
      path == SubSeq(hier, end + 1, Len(hier))
  IN \A base \in {<<>>, <<"/">>, <<"/", "a">>, <<"/", "a", "/", "b", "/">>} : \A bquery \in {<<>>, <<"?", "b">>} :
       LET directory == IF base = <<>> THEN <<"/">> ELSE SubSeq(base, 1, Rdf!LastSlash(base))
       IN Rdf!resolve_iri(Some(<<"a", ":", "/", "/", "b">> \o base \o bquery), reference) =
            <<"a", ":", "/", "/">> \o (IF own THEN authority ELSE <<"b">>)
              \o (IF own THEN Normal(path)
                  ELSE IF path = <<>> THEN base
                  ELSE IF path[1] = "/" THEN Normal(path) ELSE Normal(directory \o path))
              \o (IF ~own /\ path = <<>> /\ query = <<>> THEN bquery ELSE query) \o fragment

(* A request in the part of SPARQL that the engine takes is read as what it  *)
(* says: precedence and associativity of operators and paths, the placing of *)
(* FILTERs, basic graph patterns and OPTIONAL conditions, every query form   *)
(* and update (parse_request); nothing after it is dropped; and the columns  *)
(* of SELECT * are the variables in scope (collect_vars). Outside that part  *)
(* are USING, which is skipped, several constraints after one HAVING, which  *)
(* are refused, and relative IRIs but for names under a base that ends in a  *)
(* slash, which are only concatenated.                                       *)
RequestsAreRead ==
  [][part' = "request" => \A r \in {request'} : GrammarIsRead(r) /\ NothingIsDropped(r) /\ ColumnsAreInScope(r)]_vars

(* An RDF document is read as the triples it says, whichever format it is    *)
(* in, in one piece or in chunks (parse_line, parsed_parallel, parse_trig),  *)
(* a term is read back from its dictionary key (dict_key), and a relative    *)
(* IRI is resolved as RFC 3986 says (resolve_reference).                     *)
DocumentsAreRead ==
  [][\A t \in {text'} :
       /\ part' = "key" => KeyIsRead(t[1])
       /\ part' = "lines" => LinesAreRead(t)
       /\ part' = "trig" /\ t # <<>> => GraphsAreRead(t)
       /\ part' = "reference" => ReferenceResolves(t)]_vars

=============================================================================
