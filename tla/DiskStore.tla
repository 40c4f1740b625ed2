------------------------------ MODULE DiskStore ------------------------------
(***************************************************************************)
(* The disk backend (kvstore/store.rs): dictionary trees, three key orders *)
(* of the triples, maintained statistics and the VList index, all in one   *)
(* paged file.                                                             *)
(*                                                                         *)
(* An operation is a sequence of page-writing steps (todo).  Writing a     *)
(* page into a full cache of dirty pages flushes the cache first (evict),  *)
(* so the durable image can be any state between two steps; a crash goes   *)
(* back to it.  Mutations take &mut self: reads happen between operations. *)
(*                                                                         *)
(* Each tree and array is the map it represents (BPlusTree shows that of   *)
(* the tree); the steps inside one tree insertion are not torn here.  The  *)
(* counters of the struct and their root slots are assigned together, with *)
(* no page write between, and are one field.                               *)
(*                                                                         *)
(* A query resolves terms through a DiskDict (kvstore/disk_dict.rs), which *)
(* keeps the strings it has fetched; load_disk takes dictionary and        *)
(* triples into memory at once.                                            *)
(***************************************************************************)
EXTENDS Naturals, Sequences, FiniteSets, FiniteSetsExt, Functions, SequencesExt, TLC

CONSTANTS Entities, PredTerms, Literals,  \* the terms that may be interned
          LITERAL_FIRST_ID, None,
          MaxOps      \* bound: operations started

VARIABLES mem,       \* the image reads and writes see: cache over file
          disk,      \* the durable image
          disk_dict, \* the DiskDict queries share: [count, strings, preds], or None
          todo,      \* the remaining steps of the running operation
          op,        \* its name, or "idle"
          reply,     \* what the last insert_triple / delete_triple returned
          ops,       \* operations started (bound)
          expected,  \* history: the triples of terms put in and not deleted
          kept,      \* history: expected when disk was last written
          halfway,   \* history: disk was written inside a mutation or a
                     \* rebuild of the statistics
          torn       \* history: the process went back to such a file

vars == <<mem, disk, disk_dict, todo, op, reply, ops, expected, kept, halfway, torn>>

Terms == Entities \cup PredTerms \cup Literals
TermTriples == Entities \X PredTerms \X (Entities \cup Literals)

(* Ids are numbered per kind; literal ids start at LITERAL_FIRST_ID, so an *)
(* entity id is never a literal id.                                        *)
Kinds == {"entity", "literal", "predicate"}
Kind(x) == IF x \in Literals THEN "literal"
           ELSE IF x \in PredTerms THEN "predicate" ELSE "entity"
Numbers == 0 .. Max({Cardinality(Entities), Cardinality(PredTerms), Cardinality(Literals)})
Ids == {"entity", "literal"} \X Numbers
PredIds == {"predicate"} \X Numbers

Nothing == [k \in {} |-> 0]
Fresh == [fwd |-> Nothing, back |-> Nothing, count |-> [k \in Kinds |-> 0],
          spo |-> {}, pos |-> {}, osp |-> {},
          triple_count |-> 0, distinct_subj |-> 0, distinct_obj |-> 0,
          pred_stats |-> Nothing, stats_root |-> FALSE,
          vlist |-> Nothing, compacted |-> FALSE]

-----------------------------------------------------------------------------
(* Trees. *)

Id(m, x) == <<Kind(x), m.fwd[x]>>
IdTriple(m, t) == <<Id(m, t[1]), Id(m, t[2]), Id(m, t[3])>>
Known(m, t) == {t[1], t[2], t[3]} \subseteq DOMAIN m.fwd

(* prefix_exists over the key orders *)
HasSubject(m, s) == \E t \in m.spo : t[1] = s
HasObject(m, o) == \E k \in m.osp : k[1] = o
HasSP(m, s, p) == \E t \in m.spo : t[1] = s /\ t[2] = p
HasPO(m, p, o) == \E k \in m.pos : k[1] = p /\ k[2] = o

NoStat == [num |-> 0, dsub |-> 0, dobj |-> 0]
read_pred_stat(m, p) == IF p \in DOMAIN m.pred_stats THEN m.pred_stats[p] ELSE NoStat

(* A predicate without triples leaves the array. *)
write_pred_stat(m, p, r) ==
  [m EXCEPT !.pred_stats = IF r.num = 0 THEN Restrict(@, DOMAIN @ \ {p})
                                        ELSE (p :> r) @@ @]

Less(n, k) == IF n < k THEN 0 ELSE n - k   \* saturating_sub
Bit(b) == IF b THEN 1 ELSE 0

-----------------------------------------------------------------------------
(* Operations and their steps. *)

At(name) == todo # <<>> /\ todo[1].do = name
Step(name, x) == [do |-> name, of |-> x]

Begin(name, steps) ==
  /\ op = "idle" /\ ops < MaxOps
  /\ ops' = ops + 1 /\ op' = name /\ todo' = steps

Go(m, steps) ==
  /\ mem' = m /\ todo' = steps
  /\ UNCHANGED <<disk, disk_dict, op, reply, ops, expected, kept, halfway, torn>>

Finish(m, answer, now) ==
  /\ mem' = m /\ todo' = <<>> /\ op' = "idle"
  /\ reply' = answer /\ expected' = now
  /\ UNCHANGED <<disk, disk_dict, ops, kept, halfway, torn>>

insert_triple(t) ==
  /\ Begin("insert", <<Step("intern", t[1]), Step("intern", t[2]),
                       Step("intern", t[3]), Step("spo", t)>>)
  /\ UNCHANGED <<mem, disk, disk_dict, reply, expected, kept, halfway, torn>>

(* intern_entity, intern_literal, intern_predicate: the forward tree first *)
intern ==
  /\ At("intern")
  /\ LET x == todo[1].of
     IN  IF x \in DOMAIN mem.fwd
           THEN Go(mem, Tail(todo))
           ELSE Go([mem EXCEPT !.fwd = (x :> mem.count[Kind(x)]) @@ @],
                   <<Step("id2term", x)>> \o Tail(todo))

(* ... then the reverse array and the count root. *)
intern_id ==
  /\ At("id2term")
  /\ LET x == todo[1].of
         n == mem.count[Kind(x)]
     IN  Go([mem EXCEPT !.back = (<<Kind(x), n>> :> x) @@ @, !.count[Kind(x)] = n + 1],
            Tail(todo))

(* insert_ids: the test, the probes of the state before, and SPO. *)
insert_spo ==
  /\ At("spo") /\ op = "insert"
  /\ LET t == todo[1].of
         i == IdTriple(mem, t)
         new == [t |-> t, i |-> i,
                 sub |-> ~HasSubject(mem, i[1]), obj |-> ~HasObject(mem, i[3]),
                 sp |-> ~HasSP(mem, i[1], i[2]), po |-> ~HasPO(mem, i[2], i[3])]
     IN  IF i \in mem.spo
           THEN Finish(mem, FALSE, expected)
           ELSE Go([mem EXCEPT !.spo = @ \cup {i}],
                   <<Step("pos", new), Step("osp", new), Step("root", new),
                     Step("stat", new)>>)

insert_pos ==
  /\ At("pos") /\ op = "insert"
  /\ LET i == todo[1].of.i
     IN  Go([mem EXCEPT !.pos = @ \cup {<<i[2], i[3], i[1]>>}], Tail(todo))

(* OSP and, without a page write between, the count roots. *)
insert_osp ==
  /\ At("osp") /\ op = "insert"
  /\ LET n == todo[1].of
     IN  Go([mem EXCEPT !.osp = @ \cup {<<n.i[3], n.i[1], n.i[2]>>},
                        !.triple_count = @ + 1,
                        !.distinct_subj = @ + Bit(n.sub),
                        !.distinct_obj = @ + Bit(n.obj)],
            Tail(todo))

(* IvArray::insert allocates the array's root page on the first use. *)
stats_root ==
  /\ At("root")
  /\ Go([mem EXCEPT !.stats_root = TRUE], Tail(todo))

(* pred_stats, and the VList index is marked stale. *)
insert_stat ==
  /\ At("stat") /\ op = "insert"
  /\ LET n == todo[1].of
         r == read_pred_stat(mem, n.i[2])
         m == write_pred_stat(mem, n.i[2],
                [num |-> r.num + 1, dsub |-> r.dsub + Bit(n.sp), dobj |-> r.dobj + Bit(n.po)])
     IN  Finish([m EXCEPT !.compacted = FALSE], TRUE, expected \cup {n.t})

-----------------------------------------------------------------------------
(* delete_triple: unknown terms or an absent triple change nothing. *)
delete_triple(t) ==
  /\ IF Known(mem, t) /\ IdTriple(mem, t) \in mem.spo
       THEN Begin("delete", <<Step("spo", t), Step("pos", t), Step("osp", t),
                              Step("stat", t)>>) /\ UNCHANGED reply
       ELSE /\ op = "idle" /\ ops < MaxOps
            /\ ops' = ops + 1 /\ reply' = FALSE
            /\ UNCHANGED <<op, todo>>
  /\ UNCHANGED <<mem, disk, disk_dict, expected, kept, halfway, torn>>

delete_spo ==
  /\ At("spo") /\ op = "delete"
  /\ Go([mem EXCEPT !.spo = @ \ {IdTriple(mem, todo[1].of)}], Tail(todo))

delete_pos ==
  /\ At("pos") /\ op = "delete"
  /\ LET i == IdTriple(mem, todo[1].of)
     IN  Go([mem EXCEPT !.pos = @ \ {<<i[2], i[3], i[1]>>}], Tail(todo))

(* The probes come after the three deletions, and the roots follow them. *)
delete_osp ==
  /\ At("osp") /\ op = "delete"
  /\ LET i == IdTriple(mem, todo[1].of)
         m == [mem EXCEPT !.osp = @ \ {<<i[3], i[1], i[2]>>}]
     IN  Go([m EXCEPT !.triple_count = @ - 1,
                      !.distinct_subj = Less(@, Bit(~HasSubject(m, i[1]))),
                      !.distinct_obj = Less(@, Bit(~HasObject(m, i[3])))],
            Tail(todo))

delete_stat ==
  /\ At("stat") /\ op = "delete"
  /\ LET i == IdTriple(mem, todo[1].of)
         r == read_pred_stat(mem, i[2])
         m == write_pred_stat(mem, i[2],
                [num |-> Less(r.num, 1),
                 dsub |-> Less(r.dsub, Bit(~HasSP(mem, i[1], i[2]))),
                 dobj |-> Less(r.dobj, Bit(~HasPO(mem, i[2], i[3])))])
     IN  Finish([m EXCEPT !.compacted = FALSE], TRUE, expected \ {todo[1].of})

-----------------------------------------------------------------------------
(* compact: the flag is cleared first, the old entries go, one entry per   *)
(* (sub, pred) is written, and the flag is set last.                       *)
Groups(m) == {<<t[1], t[2]>> : t \in m.spo}

compact ==
  /\ Begin("compact",
           SetToSeq({Step("unlist", g) : g \in DOMAIN mem.vlist})
             \o SetToSeq({Step("list", g) : g \in Groups(mem)})
             \o <<Step("publish", "vlist")>>)
  /\ mem' = [mem EXCEPT !.compacted = FALSE]
  /\ UNCHANGED <<disk, disk_dict, reply, expected, kept, halfway, torn>>

compact_unlist ==
  /\ At("unlist")
  /\ Go([mem EXCEPT !.vlist = Restrict(@, DOMAIN @ \ {todo[1].of})], Tail(todo))

compact_list ==
  /\ At("list")
  /\ LET g == todo[1].of
         objs == {t[3] : t \in {u \in mem.spo : u[1] = g[1] /\ u[2] = g[2]}}
     IN  Go([mem EXCEPT !.vlist = (g :> objs) @@ @], Tail(todo))

compact_publish ==
  /\ At("publish")
  /\ Finish([mem EXCEPT !.compacted = TRUE], reply, expected)

-----------------------------------------------------------------------------
(* rebuild_stats: one scan, a record per predicate, the distinct counts.   *)
ScannedStat(m, p) ==
  LET T == {t \in m.spo : t[2] = p}
  IN  [num |-> Cardinality(T), dsub |-> Cardinality({t[1] : t \in T}),
       dobj |-> Cardinality({t[3] : t \in T})]

RebuildSteps(m) ==
  FoldRight(LAMBDA n, rest :
              LET p == <<"predicate", n - 1>>
              IN  (IF ScannedStat(m, p).num > 0 THEN <<Step("root", p)>> ELSE <<>>)
                    \o <<Step("restat", p)>> \o rest,
            [n \in 1 .. m.count["predicate"] |-> n],
            <<Step("redistinct", "roots")>>)

rebuild_stats ==
  /\ Begin("rebuild", RebuildSteps(mem))
  /\ UNCHANGED <<mem, disk, disk_dict, reply, expected, kept, halfway, torn>>

rebuild_stat ==
  /\ At("restat")
  /\ Go(write_pred_stat(mem, todo[1].of, ScannedStat(mem, todo[1].of)), Tail(todo))

rebuild_distinct ==
  /\ At("redistinct")
  /\ Finish([mem EXCEPT !.distinct_subj = Cardinality({t[1] : t \in mem.spo}),
                        !.distinct_obj = Cardinality({t[3] : t \in mem.spo})],
            reply, expected)

-----------------------------------------------------------------------------
(* The dictionary. *)

Dict == INSTANCE Dictionary WITH NoString <- None

(* The forward trees hold public ids, the reverse arrays local ones. *)
PublicId(i) == IF i[1] = "literal" THEN LITERAL_FIRST_ID + i[2] ELSE i[2]
fetch_id(m, x) == IF x \in DOMAIN m.fwd THEN PublicId(Id(m, x)) ELSE Dict!INVALID_ID
fetch_str(m, i) == IF i \in DOMAIN m.back THEN m.back[i] ELSE None
LocalId(id) == IF id >= LITERAL_FIRST_ID THEN <<"literal", id - LITERAL_FIRST_ID>>
               ELSE <<"entity", id>>

(* disk_backing(): the one there is, unless terms were interned since. *)
disk_backing(m) ==
  IF disk_dict # None /\ disk_dict.count = m.count THEN disk_dict
  ELSE [count |-> m.count, strings |-> Nothing, preds |-> Nothing]

(* DiskDict::id_to_string, predicate_to_string: a string fetched is kept; an *)
(* id without one is looked up again each time.                            *)
keep(cache, id, s) == IF id \in DOMAIN cache \/ s = None THEN cache ELSE (id :> s) @@ cache
id_to_string(m, d, id) == [d EXCEPT !.strings = keep(@, id, fetch_str(m, LocalId(id)))]
predicate_to_string(m, d, id) ==
  [d EXCEPT !.preds = keep(@, id, fetch_str(m, <<"predicate", id>>))]

(* query(): the triples with subject s, resolved for the rows. *)
query(s) ==
  /\ op = "idle" /\ ops < MaxOps /\ ops' = ops + 1
  /\ LET rows == {t \in mem.spo : t[1] = s}
         terms == {PublicId(t[1]) : t \in rows} \cup {PublicId(t[3]) : t \in rows}
         preds == {t[2][2] : t \in rows}
     IN  disk_dict' = FoldSet(LAMBDA i, d : predicate_to_string(mem, d, i),
                              FoldSet(LAMBDA i, d : id_to_string(mem, d, i), disk_backing(mem), terms),
                              preds)
  /\ UNCHANGED <<mem, disk, todo, op, reply, expected, kept, halfway, torn>>

(* dictionary(): the strings of each kind are interned anew in the order of *)
(* their ids; to_memory() adds the triples, with the ids they have on disk. *)
InIdOrder(m, kind) ==
  SelectSeq([n \in 1 .. m.count[kind] |-> fetch_str(m, <<kind, n - 1>>)], LAMBDA x : x # None)
dictionary(m) ==
  FoldLeft(Dict!intern_predicate,
    FoldLeft(Dict!intern_literal,
      FoldLeft(Dict!intern_entity, Dict!empty_dictionary, InIdOrder(m, "entity")),
      InIdOrder(m, "literal")),
    InIdOrder(m, "predicate"))
to_memory(m) ==
  [dict |-> dictionary(m),
   store |-> {<<PublicId(t[1]), t[2][2], PublicId(t[3])>> : t \in m.spo}]

-----------------------------------------------------------------------------
(* Durability. *)

flush ==
  /\ op = "idle"
  /\ disk' = mem /\ kept' = expected /\ halfway' = FALSE
  /\ UNCHANGED <<mem, disk_dict, todo, op, reply, ops, expected, torn>>

(* A step that writes a page finds the cache full of dirty pages and       *)
(* flushes them, in the middle of an operation.                            *)
evict ==
  /\ todo # <<>> /\ todo[1].do \notin {"publish", "redistinct"}
  /\ disk' = mem /\ kept' = expected /\ halfway' = (op # "compact")
  /\ UNCHANGED <<mem, disk_dict, todo, op, reply, ops, expected, torn>>

(* A file with triples and no statistics array predates the statistics. *)
NeedsRebuild(m) == m.triple_count > 0 /\ ~m.stats_root

Opened(m) ==
  /\ mem' = m
  /\ op' = IF NeedsRebuild(m) THEN "rebuild" ELSE "idle"
  /\ todo' = IF NeedsRebuild(m) THEN RebuildSteps(m) ELSE <<>>

(* The process ends without flush, at any point, and opens the file again. *)
open ==
  /\ ops < MaxOps
  /\ ops' = ops + 1
  /\ Opened(disk) /\ disk_dict' = None
  /\ expected' = kept /\ torn' = (torn \/ halfway)
  /\ UNCHANGED <<disk, reply, kept, halfway>>

(* A new file, or one of an earlier version with one triple in it. *)
OldFile(t) ==
  LET m == [Fresh EXCEPT !.fwd = [x \in {t[1], t[2], t[3]} |-> 0],
                         !.back = [i \in {<<Kind(x), 0>> : x \in {t[1], t[2], t[3]}} |->
                                     CHOOSE x \in {t[1], t[2], t[3]} : Kind(x) = i[1]],
                         !.count = [k \in Kinds |->
                                      Bit(\E x \in {t[1], t[2], t[3]} : Kind(x) = k)],
                         !.triple_count = 1]
      i == IdTriple(m, t)
  IN  [m EXCEPT !.spo = {i}, !.pos = {<<i[2], i[3], i[1]>>},
                !.osp = {<<i[3], i[1], i[2]>>}]

Init ==
  /\ \/ disk = Fresh /\ kept = {}
     \/ \E t \in {u \in TermTriples : u[1] = u[3] \/ u[3] \in Literals} :
          disk = OldFile(t) /\ kept = {t}
  /\ mem = disk /\ expected = kept /\ disk_dict = None
  /\ op = (IF NeedsRebuild(disk) THEN "rebuild" ELSE "idle")
  /\ todo = (IF NeedsRebuild(disk) THEN RebuildSteps(disk) ELSE <<>>)
  /\ reply = FALSE /\ ops = 0 /\ halfway = FALSE /\ torn = FALSE

Next ==
  \/ \E t \in TermTriples : insert_triple(t) \/ delete_triple(t)
  \/ intern \/ intern_id
  \/ insert_spo \/ insert_pos \/ insert_osp \/ stats_root \/ insert_stat
  \/ delete_spo \/ delete_pos \/ delete_osp \/ delete_stat
  \/ compact \/ compact_unlist \/ compact_list \/ compact_publish
  \/ rebuild_stats \/ rebuild_stat \/ rebuild_distinct
  \/ \E s \in {t[1] : t \in mem.spo} : query(s)
  \/ flush \/ evict \/ open

Spec == Init /\ [][Next]_vars

-----------------------------------------------------------------------------
(* Reads. *)

(* Faulty: the VList entry is used whether or not the index is current. *)
o_by_sp_no_flag(s, p) ==
  IF <<s, p>> \in DOMAIN mem.vlist
    THEN mem.vlist[<<s, p>>]
    ELSE {t[3] : t \in {u \in mem.spo : u[1] = s /\ u[2] = p}}

(* The VList entry when the index is current, else the SPO scan. *)
o_by_sp(s, p) ==
  IF mem.compacted /\ <<s, p>> \in DOMAIN mem.vlist
    THEN mem.vlist[<<s, p>>]
    ELSE {t[3] : t \in {u \in mem.spo : u[1] = s /\ u[2] = p}}

access ==
  [exists |-> [t \in Ids \X PredIds \X Ids |-> t \in mem.spo],
   po_by_s |-> [s \in Ids |-> {<<k[2], k[3]>> : k \in {j \in mem.spo : j[1] = s}}],
   o_by_sp |-> [x \in Ids \X PredIds |-> o_by_sp(x[1], x[2])],
   p_by_so |-> [x \in Ids \X Ids |->
                  {k[3] : k \in {j \in mem.osp : j[1] = x[2] /\ j[2] = x[1]}}],
   ps_by_o |-> [o \in Ids |-> {<<k[3], k[2]>> : k \in {j \in mem.osp : j[1] = o}}],
   s_by_po |-> [x \in PredIds \X Ids |->
                  {k[3] : k \in {j \in mem.pos : j[1] = x[1] /\ j[2] = x[2]}}],
   so_by_p |-> [p \in PredIds |-> {<<k[3], k[2]>> : k \in {j \in mem.pos : j[1] = p}}],
   iter_all |-> mem.spo]

(* What TripleSource adds for the query engine. *)
Patterns ==
  LET read == access
  IN  read @@
      [subs_by_p |-> [p \in PredIds |-> {k[1] : k \in read.so_by_p[p]}],
       objs_by_p |-> [p \in PredIds |-> {k[2] : k \in read.so_by_p[p]}],
       subject_keys |-> {t[1] : t \in read.iter_all},
       object_keys |-> {t[3] : t \in read.iter_all}]

(* Prefix counts over SPO, OSP and POS, whatever the VList index holds. *)
subject_degree(s) == Cardinality({k \in mem.spo : k[1] = s})
object_degree(o) == Cardinality({k \in mem.osp : k[1] = o})
subject_predicate_degree(s, p) == Cardinality({k \in mem.spo : k[1] = s /\ k[2] = p})
object_predicate_degree(o, p) == Cardinality({k \in mem.pos : k[1] = p /\ k[2] = o})

(* The maintained counters. *)
Statistics ==
  [triple_count |-> mem.triple_count,
   distinct_subjects |-> mem.distinct_subj,
   distinct_objects |-> mem.distinct_obj,
   pred_card |-> [p \in PredIds |-> read_pred_stat(mem, p).num],
   pred_distinct_subj |-> [p \in PredIds |-> read_pred_stat(mem, p).dsub],
   pred_distinct_obj |-> [p \in PredIds |-> read_pred_stat(mem, p).dobj]]

(* What TripleSource tells the planner: at least one distinct subject, and *)
(* the predicates of the dictionary.                                       *)
PlannerStatistics ==
  [Statistics EXCEPT !.distinct_subjects = IF @ < 1 THEN 1 ELSE @] @@
  [num_predicates |-> mem.count["predicate"]]

-----------------------------------------------------------------------------
Contract == INSTANCE TripleSet WITH Ids <- Ids, Preds <- PredIds,
                                    triples <- mem.spo, reply <- reply

TypeOK ==
  /\ DOMAIN mem.fwd \subseteq Terms /\ mem.fwd \in [DOMAIN mem.fwd -> Numbers]
  /\ DOMAIN mem.back \subseteq Kinds \X Numbers /\ Range(mem.back) \subseteq Terms
  /\ mem.count \in [Kinds -> Numbers]
  /\ mem.spo \subseteq Ids \X PredIds \X Ids
  /\ mem.triple_count \in Nat
  /\ expected \subseteq TermTriples /\ kept \subseteq TermTriples

(* The properties are of the store between operations. They exclude what   *)
(* follows a crash that goes back to a file flushed in the middle of a     *)
(* mutation: the log makes a flush atomic, not an operation.               *)
Quiet == op = "idle" /\ ~torn

(* Every access pattern, from whichever tree it is scanned, returns what   *)
(* the SPO tree determines: the three key orders agree and o_by_sp never   *)
(* answers from a stale VList entry. The maintained statistics are what a  *)
(* scan would count, for a file opened from an earlier version too, and    *)
(* the degrees are the numbers of rows the access patterns return. What    *)
(* the planner is told is never too low, and never zero subjects.          *)
ReadsAgree ==
  Quiet =>
    LET read == Patterns
        stats == Statistics
        exact == Contract!Statistics
    IN  /\ read = Contract!Patterns
        /\ \A f \in DOMAIN stats : stats[f] = exact[f]
        /\ PlannerStatistics.distinct_subjects >= 1
        /\ PlannerStatistics.num_predicates >= exact.num_predicates
        /\ \A x \in Ids :
             /\ subject_degree(x) = Cardinality(read.po_by_s[x])
             /\ object_degree(x) = Cardinality(read.ps_by_o[x])
             /\ \A p \in PredIds :
                  /\ subject_predicate_degree(x, p) = Cardinality(read.o_by_sp[<<x, p>>])
                  /\ object_predicate_degree(x, p) = Cardinality(read.s_by_po[<<p, x>>])

(* The dictionary is a bijection - no id is given out twice, also after a  *)
(* crash - and resolved through it the store holds exactly the triples     *)
(* inserted and not deleted; after a crash, those of the last flush.       *)
HoldsWhatWasWritten ==
  /\ TypeOK
  /\ Quiet =>
       /\ \A x, y \in DOMAIN mem.fwd : Id(mem, x) = Id(mem, y) => x = y
       /\ \A x \in DOMAIN mem.fwd :
            Id(mem, x) \in DOMAIN mem.back /\ mem.back[Id(mem, x)] = x
       /\ \A i \in mem.spo : \A k \in 1 .. 3 : i[k] \in DOMAIN mem.back
       /\ {<<mem.back[i[1]], mem.back[i[2]], mem.back[i[3]]>> : i \in mem.spo} = expected

(* DiskDict: a string kept since an earlier query is the one the id has now, *)
(* and each term that was interned is found under its id. load_disk: the   *)
(* ids the triples have on disk name the same terms in the dictionary made *)
(* in memory, also after the terms no triple uses have been reclaimed from *)
(* it, and then nothing but those terms is left.                           *)
Resolved(D, S) ==
  {<<Dict!id_to_string(D, t[1]), Dict!predicate_to_string(D, t[2]), Dict!id_to_string(D, t[3])>> : t \in S}
DictionariesAgree ==
  Quiet =>
    /\ disk_dict # None =>
         /\ \A id \in DOMAIN disk_dict.strings : disk_dict.strings[id] = fetch_str(mem, LocalId(id))
         /\ \A id \in DOMAIN disk_dict.preds : disk_dict.preds[id] = fetch_str(mem, <<"predicate", id>>)
    /\ LET M == to_memory(mem)
           R == Dict!reclaim_terms(M.dict, UNION {{t[1], t[3]} : t \in M.store}, {t[2] : t \in M.store})
       IN  /\ \A x \in DOMAIN mem.fwd :
                fetch_id(mem, x) = CASE Kind(x) = "literal" -> Dict!literal_id(M.dict, x)
                                     [] Kind(x) = "predicate" -> Dict!predicate_id(M.dict, x)
                                     [] OTHER -> Dict!entity_id(M.dict, x)
           /\ Resolved(M.dict, M.store) = expected /\ Resolved(R, M.store) = expected
           /\ Dict!all_strings_sorted(R) = UNION {{t[1], t[2], t[3]} : t \in expected}
           /\ {e[2] : e \in Dict!entity_literal_entries(R)} = UNION {{t[1], t[3]} : t \in expected}
=============================================================================
