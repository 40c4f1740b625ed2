------------------------------ MODULE Database ------------------------------
(***************************************************************************)
(* src/db/mod.rs: Database, one RDF database in memory: a dictionary, the  *)
(* default graph and the named graphs as id triples, the VS-tree index,    *)
(* the query cache, the undo log of the open transaction, the redo log and *)
(* the chain of backups taken from it.                                     *)
(*                                                                         *)
(* A triple is its subject and object (the predicate's space behaves like  *)
(* theirs). A query reads one graph. Everything runs on the caller's       *)
(* thread; ConcurrentDb shares a Database between threads.                 *)
(***************************************************************************)
EXTENDS Dictionary

CONSTANTS
  Triples,    \* <<subject, object>> the client uses: pairs of strings
  Graphs,     \* IRIs of the named graphs it uses
  Nil,        \* no graph (the default one), no transaction, no backup
  Inferred,   \* triple -> the triples a rule derives from it
  capacity,   \* of the query cache
  MaxLog,     \* bound: records in the redo log
  MaxUndo     \* bound: records in the undo log

ASSUME DatabaseAssumption ==
  /\ Inferred \in [Triples -> SUBSET Triples]
  /\ capacity \in Nat /\ MaxLog \in Nat /\ MaxUndo \in Nat
  /\ Nil \notin Graphs /\ NoString \notin Graphs

VARIABLES
  dict,          \* the entity space
  store,         \* the default graph: id triples
  named,         \* id of a graph IRI -> its id triples
  vstree,        \* entity id -> the edges it was signed from
  index_valid,   \* whether vstree is consistent with store
  cache,         \* graph queried -> answer
  txn,           \* the undo log of the open transaction, or Nil
  redo_pending,  \* redo records of the open transaction
  redo_log,      \* the redo log file
  backup,        \* the last full backup and the end of its increments, or Nil
  before,        \* history variable: the contents when the transaction began
  gap,           \* history variable: the last full backup was taken in a
                 \* transaction, or an unlogged change was made since
  swept          \* history variable: ids were reclaimed in a transaction

index == <<vstree, index_valid>>
data == <<dict, store, named>>
logs == <<txn, redo_pending, redo_log>>
ghosts == <<before, gap, swept>>
vars == <<data, index, cache, logs, backup, ghosts>>

Init ==
  /\ dict = empty_dict /\ store = {} /\ named = << >>
  /\ vstree = << >> /\ index_valid = TRUE
  /\ cache = << >>
  /\ txn = Nil /\ redo_pending = << >> /\ redo_log = << >>
  /\ backup = Nil /\ before = Nil /\ gap = FALSE /\ swept = FALSE

-----------------------------------------------------------------------------
\* What a reader of dictionary d sees of id triples S, and of a database.
decode(d, S) == {<<resolve(d, t[1]), resolve(d, t[2])>> : t \in S}
graph(n, g) == IF g \in DOMAIN n THEN n[g] ELSE {}
contents(d, s, n) ==
  {<<Nil, t>> : t \in decode(d, s)}
    \cup UNION {{<<resolve(d, g), t>> : t \in decode(d, n[g])} : g \in DOMAIN n}

\* The edges at entity e of id triples S, which its signature encodes.
edges(S, e) == {t \in S : e \in {t[1], t[2]}}
build_vstree(S) == [e \in UNION {{t[1], t[2]} : t \in S} |-> edges(S, e)]
\* vstree_index_insert(): sign the two ends of a new edge again.
vstree_index_insert(S, id) ==
  [e \in DOMAIN vstree \cup {id[1], id[2]} |->
     IF e \in {id[1], id[2]} THEN edges(S, e) ELSE vstree[e]]

encode_triple(d, t) == intern(intern(d, t[1]), t[2])
id_triple(d, t) == <<get(d, t[1]), get(d, t[2])>>

\* Undo records are of id triples, redo records of strings.
undone(ops) ==
  txn' = IF txn = Nil THEN Nil ELSE txn \o ops
record_redo(op, g, t) ==
  LET r == [op |-> op, graph |-> g, triple |-> t]
  IN  IF txn = Nil
      THEN redo_log' = Append(redo_log, r) /\ UNCHANGED redo_pending
      ELSE redo_pending' = Append(redo_pending, r) /\ UNCHANGED redo_log
room == /\ Len(redo_log) + Len(redo_pending) < MaxLog
        /\ txn # Nil => Len(txn) < MaxUndo

unlogged == gap' = (backup # Nil) /\ UNCHANGED <<before, swept>>

-----------------------------------------------------------------------------
(* Mutations.                                                              *)

\* insert_triple(): the terms are interned whether or not the triple is new.
\* The index is in memory here; VsTree has the one in a node file, too.
insert_triple(t) ==
  LET d == encode_triple(dict, t)
      id == id_triple(d, t)
  IN  /\ room /\ dict' = d
      /\ \/ id \in store /\ UNCHANGED <<store, index, cache, logs>>
         \/ /\ id \notin store
            /\ store' = store \cup {id}
            /\ vstree' = IF index_valid THEN vstree_index_insert(store \cup {id}, id) ELSE vstree
            /\ cache' = << >>
            /\ undone(<<[op |-> "Del", graph |-> 0, id |-> id]>>)
            /\ record_redo("I", Nil, t)
            /\ UNCHANGED index_valid
      /\ UNCHANGED <<named, backup, ghosts>>
remove_triple(t) ==
  LET id == id_triple(dict, t)
  IN  /\ room /\ id \in store
      /\ store' = store \ {id}
      /\ index_valid' = FALSE /\ cache' = << >>
      /\ undone(<<[op |-> "Add", graph |-> 0, id |-> id]>>)
      /\ record_redo("D", Nil, t)
      /\ UNCHANGED <<dict, named, vstree, backup, ghosts>>

\* insert_quad(), delete_quad(), of a named graph.
insert_quad(t, iri) ==
  LET d == encode_triple(intern(dict, iri), t)
      g == get(d, iri)
      id == id_triple(d, t)
  IN  /\ room /\ dict' = d
      /\ named' = bind(named, g, graph(named, g) \cup {id})
      /\ IF id \in graph(named, g) THEN UNCHANGED <<cache, logs>>
         ELSE /\ cache' = << >>
              /\ undone(<<[op |-> "Del", graph |-> g, id |-> id]>>)
              /\ record_redo("I", iri, t)
      /\ UNCHANGED <<store, index, backup, ghosts>>
delete_quad(t, iri) ==
  LET g == get(dict, iri)
      id == id_triple(dict, t)
  IN  /\ room /\ id \in graph(named, g)
      /\ named' = [named EXCEPT ![g] = @ \ {id}]
      /\ cache' = << >>
      /\ undone(<<[op |-> "Add", graph |-> g, id |-> id]>>)
      /\ record_redo("D", iri, t)
      /\ UNCHANGED <<dict, store, index, backup, ghosts>>

\* CLEAR and DROP. No redo record is written.
adds(g, S) == SetToSeq({[op |-> "Add", graph |-> g, id |-> t] : t \in S})
clear_default ==
  /\ unlogged /\ store # {}
  /\ store' = {}
  /\ index_valid' = FALSE /\ cache' = << >>
  /\ undone(adds(0, store))
  /\ UNCHANGED <<dict, named, vstree, redo_pending, redo_log, backup>>
clear_named(iri) ==
  LET g == get(dict, iri)
  IN  /\ unlogged /\ graph(named, g) # {}
      /\ named' = Restrict(named, DOMAIN named \ {g})
      /\ cache' = << >>
      /\ undone(adds(g, named[g]))
      /\ UNCHANGED <<dict, store, index, redo_pending, redo_log, backup>>
\* CLEAR NAMED: every named graph at once.
clear_all_named ==
  /\ unlogged /\ \E g \in DOMAIN named : named[g] # {}
  /\ named' = << >>
  /\ cache' = << >>
  /\ undone(FlattenSeq(SetToSeq({adds(g, named[g]) : g \in DOMAIN named})))
  /\ UNCHANGED <<dict, store, index, redo_pending, redo_log, backup>>

\* materialize_rdfs(), run_rules(): the derived triples are added to the
\* default graph, with undo records and no redo record.
run_rules ==
  LET added == UNION {Inferred[t] : t \in Triples \cap decode(dict, store)}
      d == FoldLeft(encode_triple, dict, SetToSeq(added))
      ids == {id_triple(d, t) : t \in added} \ store
  IN  /\ unlogged /\ ids # {}
      /\ dict' = d /\ store' = store \cup ids
      /\ index_valid' = FALSE /\ cache' = << >>
      /\ undone(SetToSeq({[op |-> "Del", graph |-> 0, id |-> t] : t \in ids}))
      /\ UNCHANGED <<named, vstree, redo_pending, redo_log, backup>>

-----------------------------------------------------------------------------
(* Transactions.                                                           *)
begin ==
  /\ txn = Nil
  /\ txn' = << >> /\ before' = contents(dict, store, named)
  /\ UNCHANGED <<data, index, cache, redo_pending, redo_log, backup, gap, swept>>
commit ==
  /\ txn # Nil
  /\ txn' = Nil /\ before' = Nil
  /\ redo_log' = redo_log \o redo_pending /\ redo_pending' = << >>
  /\ UNCHANGED <<data, index, cache, backup, gap, swept>>

undo(s, op) ==
  LET S == IF op.op = "Add" THEN graph(s, op.graph) \cup {op.id} ELSE graph(s, op.graph) \ {op.id}
  IN  bind(s, op.graph, S)
\* The whole undo log, last record first. Graph 0 is the default one.
\* Faulty: the first record is undone first.
undo_all_forward(s) == FoldLeft(undo, s, txn)
undo_all(s) == FoldLeft(undo, s, Reverse(txn))
\* Faulty: the transaction's redo records are kept.
rollback_kept ==
  /\ txn # Nil
  /\ LET s == undo_all(bind(named, 0, store))
     IN  store' = s[0] /\ named' = Restrict(s, DOMAIN s \ {0})
  /\ index_valid' = FALSE /\ cache' = << >>
  /\ txn' = Nil /\ before' = Nil
  /\ UNCHANGED <<dict, vstree, redo_pending, redo_log, backup, gap, swept>>
rollback ==
  /\ txn # Nil
  /\ LET s == undo_all(bind(named, 0, store))
     IN  store' = s[0] /\ named' = Restrict(s, DOMAIN s \ {0})
  /\ index_valid' = FALSE /\ cache' = << >>
  /\ txn' = Nil /\ redo_pending' = << >> /\ before' = Nil
  /\ UNCHANGED <<dict, vstree, redo_log, backup, gap, swept>>

-----------------------------------------------------------------------------
(* Reads and maintenance.                                                  *)

\* The answer of a query that is not in the cache is put there; a full cache
\* evicts an entry first (the least recently used; which one is left open).
query(g) ==
  /\ g \notin DOMAIN cache /\ capacity > 0
  /\ \E c \in IF Cardinality(DOMAIN cache) < capacity THEN {cache}
              ELSE {Restrict(cache, DOMAIN cache \ {h}) : h \in DOMAIN cache} :
       cache' = bind(c, g, {q \in contents(dict, store, named) : q[1] = g})
  /\ UNCHANGED <<data, index, logs, backup, ghosts>>

rebuild_index ==
  /\ ~index_valid
  /\ vstree' = build_vstree(store) /\ index_valid' = TRUE
  /\ UNCHANGED <<data, cache, logs, backup, ghosts>>

\* Faulty: the ids of the graph IRIs are not kept.
reclaim_graphs ==
  LET referenced == UNION {{t[1], t[2]} : t \in store \cup UNION Range(named)}
  IN  /\ dict' = reclaim_unused(dict, referenced)
      /\ swept' = (swept \/ txn # Nil)
      /\ UNCHANGED <<store, named, index, cache, logs, backup, before, gap>>
\* Database::reclaim_unused(): free the ids no graph uses.
reclaim ==
  LET referenced == DOMAIN named \cup UNION {{t[1], t[2]} : t \in store \cup UNION Range(named)}
  IN  /\ dict' = reclaim_unused(dict, referenced)
      /\ swept' = (swept \/ txn # Nil)
      /\ UNCHANGED <<store, named, index, cache, logs, backup, before, gap>>

\* backup(): a snapshot, and where the redo log ends.
full_backup ==
  /\ backup' = [base |-> contents(dict, store, named), offset |-> Len(redo_log), end |-> Len(redo_log)]
  /\ gap' = (txn # Nil)
  /\ UNCHANGED <<data, index, cache, logs, before, swept>>
\* backup_incremental(): the records since the last backup.
backup_incremental ==
  /\ backup # Nil
  /\ backup' = [backup EXCEPT !.end = Len(redo_log)]
  /\ UNCHANGED <<data, index, cache, logs, ghosts>>

Next ==
  \/ \E t \in Triples :
       \/ insert_triple(t) \/ remove_triple(t)
       \/ \E g \in Graphs : insert_quad(t, g) \/ delete_quad(t, g)
  \/ clear_default \/ clear_all_named \/ run_rules
  \/ \E g \in Graphs : clear_named(g)
  \/ begin \/ commit \/ rollback
  \/ \E g \in Graphs \cup {Nil} : query(g)
  \/ rebuild_index \/ reclaim
  \/ full_backup \/ backup_incremental

Spec == Init /\ [][Next]_vars

-----------------------------------------------------------------------------
(* Properties. Reclaiming ids inside a transaction frees the ids its undo  *)
(* log still names: what follows such a reclaim is excluded (swept).       *)

\* Types; the dictionary is a bijection.
TypeOK ==
  LET Ids == DOMAIN dict.backward
  IN  /\ Bijective(dict)
      /\ ~swept => /\ store \subseteq (Ids \X Ids) /\ DOMAIN named \subseteq Ids
                   /\ \A g \in DOMAIN named : named[g] \subseteq (Ids \X Ids)
      /\ index_valid \in BOOLEAN /\ Cardinality(DOMAIN cache) <= capacity
      /\ gap \in BOOLEAN /\ swept \in BOOLEAN

\* reclaim_unused ("Only truly-unreferenced ids are freed, so the store stays
\* consistent"): the dictionary stays a bijection while ids are freed and
\* reused, and every id a graph holds, or that names one, has its string, unless ids were reclaimed in the midst of a transaction.
IdsResolve ==
  /\ TypeOK
  /\ ~swept =>
       /\ \A t \in store \cup UNION Range(named) :
            NoString \notin {resolve(dict, t[1]), resolve(dict, t[2])}
       /\ \A g \in DOMAIN named : resolve(dict, g) # NoString

\* rollback ("undoing every triple mutation"): all graphs hold again exactly
\* the triples they held when the transaction began.
RollbackRestores ==
  [][rollback /\ ~swept => contents(dict', store', named') = before]_vars

\* The query cache ("cleared on any store mutation"): a cached answer is the
\* answer the query would get now.
CacheIsCurrent ==
  ~swept =>
    \A g \in DOMAIN cache : cache[g] = {q \in contents(dict, store, named) : q[1] = g}

\* insert_triple ("the incrementally-maintained tree stays equivalent to a
\* freshly-rebuilt one"): an index marked valid has the signatures a rebuild
\* would give it.
IndexIsExact == index_valid => vstree = build_vstree(store)

\* What is kept beside the triples follows every mutation, undo and reclamation:
\* the dictionary, the query cache and the signature index.
DerivedStateIsCurrent == IdsResolve /\ CacheIsCurrent /\ IndexIsExact

\* restore_incremental: the base with the redo records up to the last
\* increment replayed onto it.
Restored ==
  FoldLeft(LAMBDA q, r : IF r.op = "I" THEN q \cup {<<r.graph, r.triple>>}
                         ELSE q \ {<<r.graph, r.triple>>},
           backup.base, SubSeq(redo_log, backup.offset + 1, backup.end))
Committed == IF txn = Nil THEN contents(dict, store, named) ELSE before

\* backup ("base + subsequent increments reconstruct the latest committed
\* state without overlap or gap"): once an increment reaches the end of the
\* redo log, the chain restores exactly the committed contents, rolled-back
\* transactions excluded - if the full backup was not taken in a transaction
\* and the changes since are of the kinds that write redo records.
RestoreIsCommitted ==
  backup # Nil /\ backup.end = Len(redo_log) /\ ~gap /\ ~swept => Restored = Committed

\* backup_incremental's doc: the increment "faithfully captures every
\* committed mutation regardless of its source" - CLEAR and the rules too.
CapturesEveryMutation ==
  txn = Nil /\ backup # Nil /\ backup.end = Len(redo_log) => Restored = Committed

-----------------------------------------------------------------------------
(* Two instances: a Database with its dictionary, index, cache and undo    *)
(* log, and the logs and backups of one (Journal). A behaviour is one of   *)
(* either part.                                                            *)

CONSTANTS a, b, c
Edges == {<<a, b>>, <<b, c>>}
Rules == [t \in Edges |-> IF t = <<a, b>> THEN {<<b, c>>} ELSE {}]

\* What follows a reclaim inside a transaction, or a gap in the chain of
\* backups, is not explored: the first is excluded by the properties, and the
\* second differs from a database without backups in the backups only. Backups
\* and the cache share nothing, a backup at the end of a full log gets no
\* increment, and a query in a transaction that changed nothing yet is one
\* outside it.
DatabaseExplored ==
  /\ ~swept /\ ~gap
  /\ backup # Nil => cache = << >> /\ backup.offset < MaxLog
  /\ txn # Nil /\ cache # << >> => redo_pending # << >>

-----------------------------------------------------------------------------
CONSTANTS Torn, Err
VARIABLES part, quads, j_txn, redo_on, j_pending, j_log, update_on, update_log, backup_offset,
          bases, increments, began, j_unlogged, dropped, unreplayable, faults, restarts
logVars == <<quads, j_txn, redo_on, j_pending, j_log, update_on, update_log, backup_offset,
             bases, increments, began, j_unlogged, dropped, unreplayable, faults, restarts>>

\* A statement of one operation of each kind that changes something, one that
\* depends on what is there, and one that fails after its first operation.
Requests ==
  {<<[kind |-> "InsertData", quads |-> <<a, b>>]>>,
   <<[kind |-> "DeleteData", quads |-> <<a>>], [kind |-> "Create"]>>,
   <<[kind |-> "Modify", pattern |-> {a}, delete |-> <<a>>, insert |-> <<b>>]>>,
   <<[kind |-> "Load", readable |-> TRUE, quads |-> <<b>>], [kind |-> "Load", readable |-> FALSE, silent |-> FALSE]>>,
   <<[kind |-> "Load", readable |-> FALSE, silent |-> TRUE], [kind |-> "Clear", target |-> {a}]>>}
Logs == INSTANCE Journal WITH
  Quads <- {a, b}, Statements <- Requests, MaxRecords <- 3, MaxStatements <- 2, MaxBackups <- 2,
  MaxFaults <- 1, MaxRestarts <- 1,
  txn <- j_txn, redo_pending <- j_pending, redo_log <- j_log, unlogged <- j_unlogged

\* The two logs share nothing but the contents: a behaviour uses one of them,
\* up to a change that is not in it.
LogsExplored ==
  IF began = Nil THEN ~j_unlogged /\ ~dropped ELSE ~redo_on /\ j_log = << >> /\ ~unreplayable
Explored == DatabaseExplored /\ LogsExplored

DatabaseInit == part \in {"database", "logs"} /\ Init /\ Logs!JournalInit
DatabaseNext ==
  /\ UNCHANGED part
  /\ \/ part = "database" /\ Next /\ UNCHANGED logVars
     \/ part = "logs" /\ Logs!JournalNext /\ UNCHANGED vars
DatabaseSpec == DatabaseInit /\ [][DatabaseNext]_<<part, vars, logVars>>

-----------------------------------------------------------------------------
\* Every log, replayed onto any backup it is meant for, gives the committed
\* contents: redo records, chains of increments and UPDATE statements.
LogsReplay == part = "logs" => Logs!LogsReplay
=============================================================================
