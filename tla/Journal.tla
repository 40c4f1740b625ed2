------------------------------ MODULE Journal ------------------------------
(***************************************************************************)
(* src/db/mod.rs: the two logs of a Database and the backups made of them. *)
(* update.log has the UPDATE statements, redo.log the changes of single    *)
(* quads; a full backup is a snapshot with the length of redo.log, and an  *)
(* incremental one the records appended since.                             *)
(*                                                                         *)
(* The contents are a set of quads (Database shows that an undo log gives  *)
(* back the contents at begin, which txn keeps here). Writes to a log can  *)
(* fail part of the way, and the process can end and start again. A log is *)
(* counted in records; Torn is what a write that failed inside a record    *)
(* leaves, and a reader stops there with an error.                         *)
(***************************************************************************)
EXTENDS Naturals, Sequences, FiniteSets, SequencesExt, Functions

CONSTANTS
  Quads,
  Statements,    \* UPDATE requests: sequences of operations
  Nil, Torn, Err,
  MaxRecords,    \* bound: records in a log
  MaxStatements, \* bound: statements in update.log
  MaxBackups,    \* bound: full backups, and increments
  MaxFaults,     \* bound: writes to a log that fail
  MaxRestarts    \* bound: restarts of the process

VARIABLES
  quads,         \* the contents
  txn,           \* [before, carried] of the open transaction, or Nil
  redo_on, redo_pending, redo_log,
  update_on, update_log,
  backup_offset, \* where the last backup ended, in this process
  bases,         \* full backups: [quads, offset], and the directory the process
                 \* loaded; live (history): redo.log was written and complete
  increments,    \* [base, end, records] and, a history variable, state: the
                 \* committed contents, or Nil when the log lags behind them
  began,         \* history: the contents when update.log was created
  unlogged,      \* history: a change has no redo record, a full backup was
                 \* taken in a transaction, or a restart met a torn record
  dropped,       \* history: redo records of committed changes were discarded
  unreplayable,  \* history: a change has no statement in update.log, or a
                 \* statement there was rolled back
  faults, restarts

redo == <<redo_on, redo_pending, redo_log>>
update == <<update_on, update_log, began>>
chain == <<backup_offset, bases, increments>>
ghosts == <<unlogged, dropped, unreplayable>>

JournalInit ==
  /\ quads \in SUBSET Quads /\ txn = Nil
  /\ redo_on = FALSE /\ redo_pending = << >> /\ redo_log = << >>
  /\ update_on = FALSE /\ update_log = << >> /\ began = Nil
  /\ backup_offset = 0 /\ increments = {}
  /\ bases = {[quads |-> quads, offset |-> 0, live |-> TRUE]}
  /\ unlogged = FALSE /\ dropped = FALSE /\ unreplayable = FALSE
  /\ faults = 0 /\ restarts = 0

-----------------------------------------------------------------------------
(* Operations of an UPDATE, on [quads, records, unlogged, ok].             *)

change(s, op, q) ==
  IF (op = "I") = (q \in s.quads) THEN s
  ELSE [s EXCEPT !.quads = IF op = "I" THEN @ \cup {q} ELSE @ \ {q},
                 !.records = Append(@, [op |-> op, quad |-> q])]
insert_data(s, Q) == FoldLeft(LAMBDA r, q : change(r, "I", q), s, Q)
delete_data(s, Q) == FoldLeft(LAMBDA r, q : change(r, "D", q), s, Q)

\* A source that cannot be read fails the statement, unless SILENT.
load_rdf_source(s, op) ==
  IF op.readable THEN insert_data(s, op.quads) ELSE [s EXCEPT !.ok = op.silent]

\* exec_update_op(): an earlier error has ended the statement. The patterns of
\* a Modify are matched before its deletions, which precede its insertions.
exec_update_op(s, op) ==
  IF ~s.ok THEN s
  ELSE CASE op.kind = "InsertData" -> insert_data(s, op.quads)
         [] op.kind = "DeleteData" -> delete_data(s, op.quads)
         [] op.kind = "Modify" -> IF op.pattern \subseteq s.quads
                                  THEN insert_data(delete_data(s, op.delete), op.insert)
                                  ELSE s
         [] op.kind = "Load" -> load_rdf_source(s, op)
         [] op.kind = "Clear" -> [s EXCEPT !.quads = @ \ op.target,
                                           !.unlogged = @ \/ op.target \cap s.quads # {}]
         [] op.kind = "Create" -> s
exec(Q, statement) ==
  FoldLeft(exec_update_op, [quads |-> Q, records |-> << >>, unlogged |-> FALSE, ok |-> TRUE], statement)

-----------------------------------------------------------------------------
(* The redo log.                                                           *)

\* append_redo_log(): all the records, or the first of them, with or without
\* a part of the one at which a write failed.
append_redo_log(j, fault) ==
  IF fault = Nil THEN [log |-> j.log \o j.pending, pending |-> << >>]
  ELSE [j EXCEPT !.log = @ \o SubSeq(j.pending, 1, fault.kept)
                           \o (IF fault.torn THEN <<Torn>> ELSE << >>)]

\* Faulty: what a failed write has appended is taken from the buffer.
flush_redo_taken(j, fault) ==
  IF j.pending = << >> THEN j
  ELSE LET k == append_redo_log(j, fault)
       IN  [k EXCEPT !.pending = << >>]
\* flush_redo(): the buffer is kept when the append fails.
flush_redo(j, fault) == IF j.pending = << >> THEN j ELSE append_redo_log(j, fault)

\* record_redo() of each record, flushed at once outside a transaction; the
\* flush of one of them may fail, and the error is ignored.
record_redo(j, records, fault, at) ==
  LET one(k, i) ==
        LET p == [k EXCEPT !.pending = Append(@, records[i])]
        IN  IF txn = Nil THEN flush_redo(p, IF i = at THEN fault ELSE Nil) ELSE p
  IN  FoldLeft(one, j, [i \in DOMAIN records |-> i])

Journal == [log |-> redo_log, pending |-> redo_pending]
\* A write that fails: after some of the records, perhaps within the next.
Failures(n) == [kept : 0 .. n - 1, torn : BOOLEAN]

-----------------------------------------------------------------------------
(* query_inner() of an UPDATE. logged says what append_update_log did: it  *)
(* wrote the record, failed before its first byte, or failed inside it.    *)

append_update_log(statement, ok, logged) ==
  update_log' = CASE ok /\ logged = "written" -> Append(update_log, statement)
                  [] ok /\ logged = "torn" -> Append(update_log, Torn)
                  [] OTHER -> update_log

query_inner(statement) ==
  LET s == exec(quads, statement)
      recs == IF redo_on THEN s.records ELSE << >>
      n == Len(recs)
  IN  /\ Len(redo_log) + Len(redo_pending) + n <= MaxRecords
      /\ Len(update_log) < MaxStatements
      /\ \E at \in 0 .. n, logged \in {"written", "nothing", "torn"} :
         \E fault \in IF at = 0 THEN {Nil} ELSE Failures(Len(redo_pending) + at) :
           /\ at > 0 => txn = Nil
           /\ logged # "written" => update_on /\ s.ok
           /\ faults' = faults + (IF at > 0 THEN 1 ELSE 0) + (IF logged # "written" THEN 1 ELSE 0)
           /\ faults' <= MaxFaults
           /\ LET j == record_redo(Journal, recs, fault, at)
              IN  redo_log' = j.log /\ redo_pending' = j.pending
           /\ IF update_on THEN append_update_log(statement, s.ok, logged)
              ELSE UNCHANGED update_log
           /\ unreplayable' = (unreplayable \/ (s.quads # quads /\ (~update_on \/ ~s.ok \/ logged # "written")))
      /\ quads' = s.quads
      /\ unlogged' = (unlogged \/ s.unlogged \/ (~redo_on /\ s.records # << >>))
      /\ UNCHANGED <<txn, redo_on, update_on, began, chain, dropped, restarts>>

begin ==
  /\ txn = Nil
  /\ txn' = [before |-> quads, carried |-> Len(redo_pending), statements |-> Len(update_log)]
  /\ UNCHANGED <<quads, redo, update, chain, ghosts, faults, restarts>>
\* commit(): the transaction ends even if the flush fails.
commit ==
  /\ txn # Nil /\ txn' = Nil
  /\ \E fault \in {Nil} \cup Failures(Len(redo_pending)) :
       LET j == flush_redo(Journal, fault)
       IN  /\ redo_log' = j.log /\ redo_pending' = j.pending
           /\ faults' = faults + IF fault = Nil THEN 0 ELSE 1
           /\ faults' <= MaxFaults
  /\ UNCHANGED <<quads, redo_on, update, chain, ghosts, restarts>>
\* rollback(): the buffer is cleared, records of earlier commits included.
rollback ==
  /\ txn # Nil /\ txn' = Nil
  /\ quads' = txn.before
  /\ redo_pending' = << >>
  /\ dropped' = (dropped \/ txn.carried > 0)
  /\ unreplayable' = (unreplayable \/ Len(update_log) > txn.statements)
  /\ UNCHANGED <<redo_on, redo_log, update, chain, unlogged, faults, restarts>>

enable_redo_log ==
  /\ ~redo_on /\ redo_on' = TRUE
  /\ UNCHANGED <<quads, txn, redo_pending, redo_log, update, chain, ghosts, faults, restarts>>
disable_redo_log ==
  /\ redo_on /\ redo_on' = FALSE
  /\ redo_pending' = << >>
  /\ dropped' = (dropped \/ redo_pending # << >>)
  /\ UNCHANGED <<quads, txn, redo_log, update, chain, unlogged, unreplayable, faults, restarts>>
\* The file is created by the first statement logged; began is what to replay
\* it onto. A log enabled in a transaction may lose the statements before it.
enable_update_log ==
  /\ ~update_on /\ update_on' = TRUE
  /\ began' = IF began = Nil THEN quads ELSE began
  /\ unreplayable' = (unreplayable \/ txn # Nil)
  /\ UNCHANGED <<quads, txn, redo, update_log, chain, unlogged, dropped, faults, restarts>>
disable_update_log ==
  /\ update_on /\ update_on' = FALSE
  /\ UNCHANGED <<quads, txn, redo, update_log, began, chain, ghosts, faults, restarts>>

-----------------------------------------------------------------------------
(* Replay, backups and restart.                                            *)

\* apply_redo_records(): in order, up to the first that cannot be read.
apply_redo_records(Q, records) ==
  LET readable == SelectInSeq(records, LAMBDA r : r = Torn)
      whole == IF readable = 0 THEN records ELSE SubSeq(records, 1, readable - 1)
  IN  [ok |-> readable = 0,
       quads |-> FoldLeft(LAMBDA S, r : IF r.op = "I" THEN S \cup {r.quad} ELSE S \ {r.quad}, Q, whole)]

\* replay_records(): each statement is run again.
replay_records(Q, statements) ==
  FoldLeft(LAMBDA S, st : IF S = Err \/ st = Torn THEN Err
                          ELSE LET s == exec(S, st) IN IF s.ok THEN s.quads ELSE Err,
           Q, statements)

Committed == IF txn = Nil THEN quads ELSE txn.before
\* The committed changes that are still in the buffer.
Carried == IF txn = Nil THEN redo_pending ELSE SubSeq(redo_pending, 1, txn.carried)

redo_log_len == IF redo_on THEN Len(redo_log) ELSE 0
backup ==
  /\ Cardinality(bases) < MaxBackups
  /\ bases' = bases \cup {[quads |-> quads, offset |-> redo_log_len, live |-> redo_on /\ ~dropped /\ Carried = << >>]}
  /\ backup_offset' = redo_log_len
  /\ unlogged' = (unlogged \/ txn # Nil)
  /\ UNCHANGED <<quads, txn, redo, update, increments, dropped, unreplayable, faults, restarts>>
backup_incremental ==
  /\ redo_on /\ Cardinality(increments) < MaxBackups
  /\ backup_offset <= Len(redo_log)
  /\ increments' = increments \cup
       {[base |-> backup_offset, end |-> Len(redo_log),
         records |-> SubSeq(redo_log, backup_offset + 1, Len(redo_log)),
         state |-> IF dropped \/ Carried # << >> THEN Nil ELSE Committed]}
  /\ backup_offset' = Len(redo_log)
  /\ UNCHANGED <<quads, txn, redo, update, bases, ghosts, faults, restarts>>

\* The process ends; the last full backup is loaded and redo.log replayed onto
\* it (replay_redo_log, with the log switched off), from its beginning. The
\* offset of the last backup is not persisted: load() starts from 0.
restart(b) ==
  /\ restarts < MaxRestarts /\ restarts' = restarts + 1
  /\ LET r == apply_redo_records(b.quads, redo_log)
     IN  quads' = r.quads /\ unlogged' = (unlogged \/ ~r.ok)
  /\ txn' = Nil /\ redo_on' = FALSE /\ redo_pending' = << >> /\ update_on' = FALSE
  /\ backup_offset' = 0
  /\ unreplayable' = TRUE
  /\ dropped' = (dropped \/ Carried # << >>)
  /\ UNCHANGED <<redo_log, update_log, began, bases, increments, faults>>

\* restore_incremental(): each increment must begin where the last one ended.
restore_incremental(b, incs) ==
  FoldLeft(LAMBDA s, i : IF s = Err \/ i.base # s.expected THEN Err
                         ELSE LET r == apply_redo_records(s.quads, i.records)
                              IN  IF r.ok THEN [quads |-> r.quads, expected |-> i.end] ELSE Err,
           [quads |-> b.quads, expected |-> b.offset], incs)

JournalNext ==
  \/ \E st \in Statements : query_inner(st)
  \/ begin \/ commit \/ rollback
  \/ enable_redo_log \/ disable_redo_log \/ enable_update_log \/ disable_update_log
  \/ backup \/ backup_incremental
  \/ \E b \in bases : restart(b)

-----------------------------------------------------------------------------
(* Properties.                                                             *)

\* replay_redo_log ("Replay onto a database in the same state the log began
\* from reconstructs the final state"): also onto any later backup, from the
\* beginning of the log or from the backup's offset, although a failed write
\* leaves records that are written again. With the committed records still
\* in the buffer the log gives the committed contents, no more and no less.
RedoReplays ==
  ~unlogged /\ ~dropped =>
    LET log == redo_log \o Carried
    IN  Torn \notin Range(log) =>
          \A b \in bases :
            /\ apply_redo_records(b.quads, log).quads = Committed
            /\ apply_redo_records(b.quads, SubSeq(log, b.offset + 1, Len(log))).quads = Committed

\* restore_incremental ("an out-of-order or gapped chain is rejected rather
\* than silently misapplied"): whatever increments are given with a backup, in
\* whatever order, the result is an error or what was committed at the last.
\* (A backup taken while the log is off is marked with offset 0, whatever the
\* log holds, and one taken after a failed write has changes the log lacks:
\* increments taken before such a backup are not refused.)
ChainsAreExact ==
  ~unlogged /\ ~dropped => \A b \in {c \in bases : c.live} : \A i, j \in increments :
    /\ LET r == restore_incremental(b, <<i>>)
       IN  r # Err /\ i.state # Nil => r.quads = i.state
    /\ LET r == restore_incremental(b, <<i, j>>)
       IN  r # Err /\ j.state # Nil => r.quads = j.state

\* replay_update_log: the statements, run again in order on the contents the
\* log began with, give the present contents, as long as all changes were made
\* by logged statements and no transaction with a logged one was rolled back.
StatementsReplay ==
  began # Nil /\ ~unreplayable /\ Torn \notin Range(update_log) =>
    replay_records(began, update_log) = quads

LogsReplay == RedoReplays /\ ChainsAreExact /\ StatementsReplay
=============================================================================
