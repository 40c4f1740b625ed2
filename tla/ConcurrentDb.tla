----------------------------- MODULE ConcurrentDb -----------------------------
(***************************************************************************)
(* src/concurrent.rs: ConcurrentDb, its optimistic transactions (Txn), its *)
(* non-transactional writers (update/write) and its version-pinned readers *)
(* (VersionView), at the granularity of the locks the code takes:          *)
(*                                                                         *)
(*   writer (Mutex<Database>)  held across a whole commit or legacy write; *)
(*   occ    (Mutex<OccState>)  guards history, live_starts, legacy version;*)
(*   current, versioned        RwLocks held for one read or one assignment,*)
(*                             so reads of them interleave with a commit.  *)
(*                                                                         *)
(* A section that holds occ and touches at most one of current/versioned   *)
(* is one step; a commit touches both and is split where another thread    *)
(* can look. A triple is its key, a database the set of keys present.      *)
(***************************************************************************)
EXTENDS Naturals, Sequences, FiniteSets, Functions, TLC

CONSTANTS
  Txns,           \* transaction handles, each reusable once it has ended
  Views,          \* version-pinned readers
  Legacy,         \* threads that call update() or write()
  Keys, Base,     \* triple keys; those present at construction
  Levels,         \* isolation levels begin_with is called with
  NoOwner,        \* owner of a free lock
  UpdateMayFail,  \* whether an UPDATE can fail after some of its operations
  MaxVersion      \* bound: no commit or legacy write past this version

Level == {"ReadUncommitted", "ReadCommitted", "RepeatableRead", "Serializable"}
Handles == Txns \cup Views

ASSUME HandlesAssumption ==
  /\ IsFiniteSet(Handles)
  /\ Txns \cap Views = {} /\ Txns \cap Legacy = {}
  /\ NoOwner \notin Txns \cup Legacy
ASSUME DataAssumption ==
  /\ Base \subseteq Keys /\ Levels \subseteq Level
  /\ UpdateMayFail \in BOOLEAN /\ MaxVersion \in Nat \ {0}

VARIABLES
  writer, db,            \* writer lock owner; the authoritative database
  occ,                   \* occ lock owner
  history,               \* OccState.history: version -> keys written
  live_starts,           \* OccState.live_starts: version -> registered handles
  last_legacy_version,   \* OccState.last_legacy_version
  current,               \* the published Snapshot
  chains,                \* VersionedStore.chains: key -> version records
  pc, level, snap,       \* per transaction: control, isolation, snapshot
  buf, reads,            \* per transaction: net buffered writes, tracked reads
  start, registered,     \* per handle: pinned version; handles registered
  outcome,               \* per transaction: what its last run returned
  log                    \* history variable: what each version published

shared == <<writer, db, occ, history, live_starts, last_legacy_version,
            current, chains>>
local == <<pc, level, snap, buf, reads, start, registered, outcome>>
vars == <<shared, local, log>>

-----------------------------------------------------------------------------
(* Isolation levels.                                                       *)
checks_write_write(l) == l \in {"RepeatableRead", "Serializable"}
checks_read_write(l) == l = "Serializable"

(* A buffered operation list, abstracted to its net effect per key: each   *)
(* of contains, commit's apply loop and `net` lets a later write win.      *)
NoWrites == [k \in Keys |-> "none"]
keys(t) == {k \in Keys : buf[t][k] # "none"}
apply(b, S) == {k \in Keys : b[k] = "insert" \/ (b[k] = "none" /\ k \in S)}

(* OccState bookkeeping. A version is at or below gc_floor() when every    *)
(* live start is at or above it; with none live the floor is u64::MAX.     *)
register(v) == live_starts' = [live_starts EXCEPT ![v] = @ + 1]
\* Faulty: drops the whole entry although other handles share the version.
deregister_all(v) == [live_starts EXCEPT ![v] = 0]
deregister(v) == [live_starts EXCEPT ![v] = IF @ > 0 THEN @ - 1 ELSE 0]
at_or_below_floor(v, live) == \A s \in DOMAIN live : live[s] > 0 => v <= s
\* Faulty: retains the version at the floor too.
gc_history_from_floor(h, live) ==
  Restrict(h, {v \in DOMAIN h : \E s \in DOMAIN live : live[s] > 0 /\ s <= v})
gc_history(h, live) ==
  Restrict(h, {v \in DOMAIN h : ~at_or_below_floor(v, live)})

(* A version chain, as the set of its records: versions are unique in a    *)
(* chain because publish hands each commit a new one.                      *)
visible(recs, v) ==
  {r \in recs : r.version <= v /\ \A q \in recs : q.version <= v => q.version <= r.version}
view_contains(v, k) ==
  \/ \E r \in visible(chains[k], start[v]) : r.op = "Insert"
  \/ visible(chains[k], start[v]) = {} /\ k \in Base
\* Faulty: drops the anchor record the oldest live reader resolves to.
drain_anchor(recs, live) == {r \in recs : ~at_or_below_floor(r.version, live)}
drain(recs, live) ==
  {r \in recs : ~\E q \in recs : at_or_below_floor(q.version, live) /\ q.version > r.version}
redundant(k, recs) ==
  \E r \in recs : recs = {r} /\ ((r.op = "Insert") <=> (k \in Base))
gc_versions(live) ==
  [k \in Keys |-> LET kept == drain(chains[k], live)
                  IN  IF redundant(k, kept) THEN {} ELSE kept]

\* Faulty: leaves the `registered` flag set, so Drop would deregister again.
retire_flag_kept(h, hist) ==
  LET live == deregister(start[h])
  IN  /\ live_starts' = live
      /\ history' = gc_history(hist, live)
      /\ chains' = gc_versions(live)
      /\ start' = [start EXCEPT ![h] = 0]
      /\ UNCHANGED registered
\* Deregister h and collect what no live handle needs (commit, Drop).
retire(h, hist) ==
  LET live == deregister(start[h])
  IN  /\ live_starts' = live
      /\ history' = gc_history(hist, live)
      /\ chains' = gc_versions(live)
      /\ registered' = registered \ {h}
      /\ start' = [start EXCEPT ![h] = 0]

\* A transaction handle is consumed and returns `result` to its caller.
consumed(t, result) ==
  /\ pc' = [pc EXCEPT ![t] = "idle"]
  /\ snap' = [snap EXCEPT ![t] = {}]
  /\ buf' = [buf EXCEPT ![t] = NoWrites]
  /\ reads' = [reads EXCEPT ![t] = {}]
  /\ level' = [level EXCEPT ![t] = "RepeatableRead"]
  /\ outcome' = [outcome EXCEPT ![t] = result]

\* Make the writer's database the next version.
publish(chained, wrote, legacy) ==
  /\ current' = [version |-> current.version + 1, data |-> db]
  /\ log' = Append(log, [data |-> db, chained |-> chained,
                         wrote |-> wrote, legacy |-> legacy])

Init ==
  /\ writer = NoOwner /\ db = Base
  /\ occ = NoOwner
  /\ history = [v \in {} |-> {}]
  /\ live_starts = [v \in 1 .. MaxVersion |-> 0]
  /\ last_legacy_version = 0
  /\ current = [version |-> 1, data |-> Base]
  /\ chains = [k \in Keys |-> {}]
  /\ pc = [t \in Txns |-> "idle"]
  /\ level = [t \in Txns |-> "RepeatableRead"]
  /\ snap = [t \in Txns |-> {}]
  /\ buf = [t \in Txns |-> NoWrites]
  /\ reads = [t \in Txns |-> {}]
  /\ start = [h \in Handles |-> 0]
  /\ registered = {}
  /\ outcome = [t \in Txns |-> "none"]
  /\ log = <<[data |-> Base, chained |-> Base, wrote |-> {}, legacy |-> FALSE]>>

-----------------------------------------------------------------------------
(* Transactions.                                                           *)
begin_with(t, l) ==
  /\ pc[t] = "idle" /\ occ = NoOwner
  /\ pc' = [pc EXCEPT ![t] = "open"]
  /\ level' = [level EXCEPT ![t] = l]
  /\ snap' = [snap EXCEPT ![t] = current.data]
  /\ start' = [start EXCEPT ![t] = current.version]
  /\ register(current.version)
  /\ registered' = registered \cup {t}
  /\ outcome' = [outcome EXCEPT ![t] = "none"]
  /\ UNCHANGED <<writer, db, occ, history, last_legacy_version, current,
                 chains, buf, reads, log>>

buffer(t, k, op) ==
  /\ pc[t] = "open"
  /\ buf' = [buf EXCEPT ![t][k] = op]
  /\ UNCHANGED <<shared, pc, level, snap, reads, start, registered, outcome, log>>

insert(t, k) == buffer(t, k, "insert")
delete(t, k) == buffer(t, k, "delete")

read(t, k) ==
  /\ pc[t] = "open"
  /\ reads' = [reads EXCEPT ![t] = @ \cup {k}]
  /\ UNCHANGED <<shared, pc, level, snap, buf, start, registered, outcome, log>>

\* commit(), up to the writer lock.
commit_lock(t) ==
  /\ pc[t] = "open" /\ writer = NoOwner
  /\ current.version < MaxVersion
  /\ writer' = t
  /\ pc' = [pc EXCEPT ![t] = "locked"]
  /\ UNCHANGED <<db, occ, history, live_starts, last_legacy_version, current,
                 chains, level, snap, buf, reads, start, registered, outcome, log>>

\* Faulty: conflicts with the legacy write the transaction started from.
legacy_during_inclusive(t) ==
  checks_write_write(level[t]) /\ last_legacy_version >= start[t]
legacy_during(t) ==
  checks_write_write(level[t]) /\ last_legacy_version > start[t]
ww_conflict(t) ==
  /\ checks_write_write(level[t])
  /\ \E v \in DOMAIN history : v > start[t] /\ history[v] \cap keys(t) # {}
\* Faulty: the range of versions to validate starts one too late.
rw_conflict_late(t) ==
  /\ checks_read_write(level[t])
  /\ \E v \in DOMAIN history : v > start[t] + 1 /\ history[v] \cap reads[t] # {}
rw_conflict(t) ==
  /\ checks_read_write(level[t])
  /\ \E v \in DOMAIN history : v > start[t] /\ history[v] \cap reads[t] # {}
in_conflict(t) == legacy_during(t) \/ ww_conflict(t) \/ rw_conflict(t)

\* commit() takes occ, finds a conflict, and gives up.
commit_conflict(t) ==
  /\ pc[t] = "locked" /\ occ = NoOwner
  /\ in_conflict(t)
  /\ retire(t, history)
  /\ consumed(t, "conflict")
  /\ writer' = NoOwner
  /\ UNCHANGED <<db, occ, last_legacy_version, current, log>>

\* commit() takes occ, validates, and applies the buffer to the database.
commit_apply(t) ==
  /\ pc[t] = "locked" /\ occ = NoOwner
  /\ ~in_conflict(t)
  /\ occ' = t
  /\ db' = apply(buf[t], db)
  /\ pc' = [pc EXCEPT ![t] = "publish"]
  /\ UNCHANGED <<writer, history, live_starts, last_legacy_version, current,
                 chains, level, snap, buf, reads, start, registered, outcome, log>>

commit_publish(t) ==
  /\ pc[t] = "publish"
  /\ publish(apply(buf[t], log[Len(log)].chained), keys(t), FALSE)
  /\ pc' = [pc EXCEPT ![t] = "record"]
  /\ UNCHANGED <<writer, db, occ, history, live_starts, last_legacy_version,
                 chains, level, snap, buf, reads, start, registered, outcome>>

\* One version record per written key: its net state under this commit.
record(t) ==
  [k \in Keys |->
     IF k \in keys(t)
     THEN chains[k] \cup
            {[version |-> current.version,
              op |-> IF buf[t][k] = "insert" THEN "Insert" ELSE "Tombstone"]}
     ELSE chains[k]]

commit_record(t) ==
  /\ pc[t] = "record"
  /\ chains' = record(t)
  /\ pc' = [pc EXCEPT ![t] = "finish"]
  /\ UNCHANGED <<writer, db, occ, history, live_starts, last_legacy_version,
                 current, level, snap, buf, reads, start, registered, outcome, log>>

\* commit() files its write set, retires and releases both locks.
commit_finish(t) ==
  /\ pc[t] = "finish"
  /\ retire(t, [v \in DOMAIN history \cup {current.version} |->
                  IF v = current.version THEN keys(t) ELSE history[v]])
  /\ consumed(t, "committed")
  /\ occ' = NoOwner /\ writer' = NoOwner
  /\ UNCHANGED <<db, last_legacy_version, current, log>>

\* abort() and Drop of an uncommitted transaction.
drop_txn(t) ==
  /\ pc[t] = "open" /\ occ = NoOwner
  /\ retire(t, history)
  /\ consumed(t, "aborted")
  /\ UNCHANGED <<writer, db, occ, last_legacy_version, current, log>>

-----------------------------------------------------------------------------
(* Non-transactional writers: update() and write().                        *)

\* Take the writer lock and run the request's operations on the database.
legacy_apply(w) ==
  /\ writer = NoOwner /\ current.version < MaxVersion
  /\ writer' = w
  /\ db' \in SUBSET Keys
  /\ UNCHANGED <<occ, history, live_starts, last_legacy_version, current,
                 chains, local, log>>

\* update(): an operation of the request failed and `?` returns the error;
\* what the operations before it did to the database stays.
legacy_fail(w) ==
  /\ UpdateMayFail
  /\ writer = w
  /\ writer' = NoOwner
  /\ UNCHANGED <<db, occ, history, live_starts, last_legacy_version, current,
                 chains, local, log>>

\* Faulty: the writer waits, its lock held, until no reader is pinned.
legacy_publish_waits(w) ==
  /\ writer = w /\ occ = NoOwner /\ registered = {}
  /\ publish(log[Len(log)].chained, Keys, TRUE)
  /\ last_legacy_version' = current.version + 1
  /\ writer' = NoOwner
  /\ UNCHANGED <<db, occ, history, live_starts, chains, local>>
legacy_publish(w) ==
  /\ writer = w /\ occ = NoOwner
  /\ publish(log[Len(log)].chained, Keys, TRUE)
  /\ last_legacy_version' = current.version + 1
  /\ writer' = NoOwner
  /\ UNCHANGED <<db, occ, history, live_starts, chains, local>>

-----------------------------------------------------------------------------
(* Version-pinned readers.                                                 *)
pin(v, n) ==
  /\ v \notin registered /\ occ = NoOwner
  /\ start' = [start EXCEPT ![v] = n]
  /\ register(n)
  /\ registered' = registered \cup {v}
  /\ UNCHANGED <<writer, db, occ, history, last_legacy_version, current,
                 chains, pc, level, snap, buf, reads, outcome, log>>

version_view(v) == pin(v, current.version)

\* Time travel; the caller owes the documented precondition that n is
\* retained: some live handle pins a version at or below n.
version_view_at(v, n) ==
  /\ n <= current.version
  /\ \E h \in registered : start[h] <= n
  /\ pin(v, n)

drop_view(v) ==
  /\ v \in registered /\ occ = NoOwner
  /\ retire(v, history)
  /\ UNCHANGED <<writer, db, occ, last_legacy_version, current, pc, level,
                 snap, buf, reads, outcome, log>>

commit_step(t) ==
  \/ commit_conflict(t) \/ commit_apply(t) \/ commit_publish(t)
  \/ commit_record(t) \/ commit_finish(t)
legacy_step(w) == legacy_fail(w) \/ legacy_publish(w)

Next ==
  \/ \E t \in Txns :
       \/ \E l \in Levels : begin_with(t, l)
       \/ \E k \in Keys : insert(t, k) \/ delete(t, k) \/ read(t, k)
       \/ commit_lock(t) \/ commit_step(t) \/ drop_txn(t)
  \/ \E w \in Legacy : legacy_apply(w) \/ legacy_step(w)
  \/ \E v \in Views :
       \/ version_view(v) \/ drop_view(v)
       \/ \E n \in 1 .. MaxVersion : version_view_at(v, n)

Spec == Init /\ [][Next]_vars

\* A thread that holds a lock keeps running: the sections wait for nothing.
Fairness ==
  /\ \A t \in Txns : WF_vars(commit_step(t))
  /\ \A w \in Legacy : WF_vars(legacy_step(w))
FairSpec == Spec /\ Fairness
-----------------------------------------------------------------------------
(* Properties.                                                             *)

\* Types, and the ownership the locks give: a handle is registered exactly
\* while it is in use and pinned at a version that exists; a committing
\* transaction owns the writer lock and, once validated, occ.
TypeOK ==
  /\ writer \in Txns \cup Legacy \cup {NoOwner} /\ occ \in Txns \cup {NoOwner}
  /\ db \in SUBSET Keys
  /\ current \in [version : 1 .. MaxVersion, data : SUBSET Keys]
  /\ DOMAIN history \subseteq 1 .. current.version
  /\ history \in [DOMAIN history -> SUBSET Keys]
  /\ live_starts \in [1 .. MaxVersion -> Nat]
  /\ last_legacy_version \in 0 .. current.version
  /\ chains \in [Keys -> SUBSET [version : 1 .. MaxVersion, op : {"Insert", "Tombstone"}]]
  /\ pc \in [Txns -> {"idle", "open", "locked", "publish", "record", "finish"}]
  /\ level \in [Txns -> Level]
  /\ snap \in [Txns -> SUBSET Keys]
  /\ buf \in [Txns -> [Keys -> {"none", "insert", "delete"}]]
  /\ reads \in [Txns -> SUBSET Keys]
  /\ start \in [Handles -> 0 .. current.version]
  /\ registered \in SUBSET Handles
  /\ outcome \in [Txns -> {"none", "committed", "conflict", "aborted"}]
  /\ log \in Seq([data : SUBSET Keys, chained : SUBSET Keys,
                  wrote : SUBSET Keys, legacy : BOOLEAN])
  /\ Len(log) = current.version
  /\ \A h \in registered : start[h] > 0
  /\ \A t \in Txns :
       /\ t \in registered <=> pc[t] # "idle"
       /\ pc[t] \in {"locked", "publish", "record", "finish"} <=> writer = t
       /\ pc[t] \in {"publish", "record", "finish"} <=> occ = t
  /\ writer # NoOwner /\ occ = NoOwner => current.version < MaxVersion
  /\ \A t \in Txns : pc[t] = "publish" => current.version < MaxVersion

\* First committer wins (Txn::commit): a repeatable-read or serializable
\* transaction that passes validation wrote no key that any version after its
\* start wrote, and overlapped no legacy write - although validation only saw
\* the history that garbage collection left.
NoLostUpdate ==
  \A t \in Txns :
    pc[t] = "publish" /\ checks_write_write(level[t]) =>
      \A v \in (start[t] + 1) .. Len(log) :
        ~log[v].legacy /\ log[v].wrote \cap keys(t) = {}

\* Serializable commits (IsolationLevel::Serializable): every key read through
\* Txn::read has, at the commit point, the value the transaction's snapshot
\* gave it, so committing is equivalent to running alone at that point.
SerializableReads ==
  \A t \in Txns :
    pc[t] = "publish" /\ level[t] = "Serializable" =>
      \A k \in reads[t] : (k \in snap[t]) <=> (k \in current.data)

\* VersionView: whatever is committed, recorded or collected meanwhile, an open
\* view answers every point read from the transactional state of its version.
ViewsAreStable ==
  \A v \in Views \cap registered :
    \A k \in Keys : view_contains(v, k) <=> k \in log[start[v]].chained

\* The module documentation's bound: history holds no version that no live
\* handle still has to validate against.
HistoryIsBounded ==
  \A n \in DOMAIN history : \E h \in registered : start[h] < n

\* update()'s comment, "Apply a SPARQL UPDATE atomically": with no writer at
\* work, the authoritative database is exactly what readers were given.
DatabaseIsPublished == writer = NoOwner => db = current.data

\* A commit is made against the present: it keeps what it read, and what it
\* published is what the writers go on from (Txn::commit, update).
CommitsAreCurrent == SerializableReads /\ DatabaseIsPublished

\* Whoever takes the writer lock gives it back: no path through commit, update
\* or write leaves it held.
WriterIsReleased == (writer # NoOwner) ~> (writer = NoOwner)

\* live_starts is a reference count: the handles registered at each version.
PinsAreCounted ==
  \A v \in 1 .. MaxVersion :
    live_starts[v] = Cardinality({h \in registered : start[h] = v})

\* A published version whose committer has not filed its write set yet.
Unfiled(v) == v = Len(log) /\ \E t \in Txns : pc[t] \in {"record", "finish"}

\* What gc_history may not drop: a live handle still finds in history every
\* transactional version after its own, with the keys it wrote.
HistoryIsComplete ==
  \A h \in registered : \A v \in (start[h] + 1) .. Len(log) :
    \/ log[v].legacy \/ Unfiled(v)
    \/ v \in DOMAIN history /\ history[v] = log[v].wrote

\* What validation reads besides history: no legacy version is newer than
\* last_legacy_version, and an unfiled version wrote its committer's keys.
ValidationInputs ==
  /\ \A v \in 1 .. Len(log) : log[v].legacy => v <= last_legacy_version
  /\ \A t \in Txns : pc[t] \in {"record", "finish"} =>
       ~log[Len(log)].legacy /\ log[Len(log)].wrote = keys(t)

\* A transaction is undecided until its version is published.
Deciding(t) == pc[t] \in {"open", "locked", "publish"}

\* What a version-pinned point read of k at version n answers from a chain.
Resolves(recs, k, n) ==
  \/ \E r \in visible(recs, n) : r.op = "Insert"
  \/ visible(recs, n) = {} /\ k \in Base
Recording == \E t \in Txns : pc[t] = "record"

\* What gc_versions may not drop: at the newest version and at every version
\* some live handle retains, the chains answer from what was published there.
ChainsAreExact ==
  \A n \in 1 .. Len(log) :
    (n = Len(log) /\ ~Recording) \/ (n < Len(log) /\ \E h \in registered : start[h] <= n) =>
      \A k \in Keys : Resolves(chains[k], k, n) <=> k \in log[n].chained

\* A chain has one record a version, none newer than what is published; and
\* nobody is pinned at a version that is still being recorded.
ChainsAreOrdered ==
  /\ \A k \in Keys : \A r \in chains[k] :
       /\ r.version <= Len(log) /\ (Recording => r.version < Len(log))
       /\ \A q \in chains[k] : q.version = r.version => q = r
  /\ \A t \in Txns : pc[t] \in {"record", "finish"} =>
       \A h \in registered : start[h] < Len(log)
  /\ \A t \in Txns : pc[t] = "record" =>
       log[Len(log)].chained = apply(buf[t], log[Len(log) - 1].chained)

\* The writer's database differs from the published one only by what the owner
\* of the writer lock did; the published one is the newest version.
DatabaseIsOwned ==
  /\ current.data = log[Len(log)].data
  /\ writer \notin Legacy =>
       db = IF \E t \in Txns : pc[t] = "publish"
            THEN apply(buf[writer], current.data) ELSE current.data

\* A key whose value is no longer that of a transaction's snapshot was written
\* by a version after its start.
SnapshotsAge ==
  \A t \in Txns : Deciding(t) =>
    \A k \in Keys : \/ (k \in snap[t]) <=> (k \in current.data)
                    \/ \E v \in (start[t] + 1) .. Len(log) : k \in log[v].wrote

\* What serializable validation leaves behind: no version after its start wrote
\* what a validated transaction read.
ReadsAreUnwritten ==
  \A t \in Txns : pc[t] = "publish" /\ level[t] = "Serializable" =>
    \A v \in (start[t] + 1) .. Len(log) : log[v].wrote \cap reads[t] = {}

\* What a reported conflict is made of: history files what was written, and
\* last_legacy_version is a legacy version.
ConflictsAreReal ==
  /\ \A v \in DOMAIN history : history[v] = log[v].wrote
  /\ last_legacy_version > 0 => log[last_legacy_version].legacy

\* A handle that is not in use holds nothing of its last run.
UnusedIsClean ==
  /\ \A h \in Handles \ registered : start[h] = 0
  /\ \A t \in Txns : pc[t] = "idle" => buf[t] = NoWrites /\ reads[t] = {}

\* The refinement mapping: a transaction commits when its version is published.
AbsMode == [t \in Txns |-> IF Deciding(t) THEN level[t] ELSE "idle"]
AbsStart == [h \in Handles |-> IF h \in Views \/ Deciding(h) THEN start[h] ELSE 0]
AbsBuf == [t \in Txns |-> IF Deciding(t) THEN buf[t] ELSE NoWrites]
AbsReads == [t \in Txns |-> IF Deciding(t) THEN reads[t] ELSE {}]
AbsOutcome ==
  [t \in Txns |-> IF pc[t] \in {"record", "finish"} THEN "committed" ELSE outcome[t]]
Abstract == INSTANCE SnapshotIsolation WITH
  mode <- AbsMode, start <- AbsStart, buf <- AbsBuf, reads <- AbsReads, outcome <- AbsOutcome

\* ConcurrentDb implements the abstract snapshot-isolation specification.
ImplementsSnapshotIsolation == Abstract!Spec

-----------------------------------------------------------------------------
\* The instance. Handles of one kind are interchangeable: no property tells
\* them apart.
Symmetry == Permutations(Txns) \cup Permutations(Views)
=============================================================================
