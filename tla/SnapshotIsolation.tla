------------------------- MODULE SnapshotIsolation -------------------------
(***************************************************************************)
(* What gStore's ConcurrentDb promises its callers (src/concurrent.rs,     *)
(* module documentation and the IsolationLevel table), with no locks, no   *)
(* version chains and no garbage collection: the whole commit log is kept, *)
(* a transaction is validated against every commit newer than its start,   *)
(* and a commit is one step.                                               *)
(***************************************************************************)
EXTENDS Naturals, Sequences

CONSTANTS
  Txns,        \* transaction handles (`Txn`)
  Views,       \* version-pinned readers (`VersionView`)
  Keys,        \* triple keys (the N-Triples text of a triple)
  Base,        \* the triples present when the database is wrapped
  MaxVersion   \* bound: no commit is made past this version

VARIABLES
  log,      \* log[v]: what version v published
  mode,     \* mode[t]: "idle", or the isolation level t runs at
  start,    \* start[h]: version a transaction or a view is pinned at, 0 if none
  buf,      \* buf[t][k]: the net buffered write of t to k
  reads,    \* reads[t]: keys t read with a tracked point read
  outcome   \* outcome[t]: how t's previous run ended

vars == <<log, mode, start, buf, reads, outcome>>

Level == {"ReadUncommitted", "ReadCommitted", "RepeatableRead", "Serializable"}
Snapshotted == {"RepeatableRead", "Serializable"}
NoWrites == [k \in Keys |-> "none"]

Written(b) == {k \in Keys : b[k] # "none"}

\* The state a buffer of writes leads to from the state S.
Effect(b, S) == {k \in Keys : b[k] = "insert" \/ (b[k] = "none" /\ k \in S)}

\* A commit after t's start that t may not overlap.
RealConflict(t) ==
  /\ mode[t] \in Snapshotted
  /\ \E v \in (start[t] + 1) .. Len(log) :
       \/ log[v].legacy
       \/ log[v].wrote \cap Written(buf[t]) # {}
       \/ mode[t] = "Serializable" /\ log[v].wrote \cap reads[t] # {}

Finished(t, result) ==
  /\ mode' = [mode EXCEPT ![t] = "idle"]
  /\ start' = [start EXCEPT ![t] = 0]
  /\ buf' = [buf EXCEPT ![t] = NoWrites]
  /\ reads' = [reads EXCEPT ![t] = {}]
  /\ outcome' = [outcome EXCEPT ![t] = result]

Init ==
  /\ log = <<[data |-> Base, chained |-> Base, wrote |-> {}, legacy |-> FALSE]>>
  /\ mode = [t \in Txns |-> "idle"]
  /\ start = [h \in Txns \cup Views |-> 0]
  /\ buf = [t \in Txns |-> NoWrites]
  /\ reads = [t \in Txns |-> {}]
  /\ outcome = [t \in Txns |-> "none"]

Begin(t, l) ==
  /\ mode[t] = "idle"
  /\ mode' = [mode EXCEPT ![t] = l]
  /\ start' = [start EXCEPT ![t] = Len(log)]
  /\ outcome' = [outcome EXCEPT ![t] = "none"]
  /\ UNCHANGED <<log, buf, reads>>

Write(t, k, op) ==
  /\ mode[t] # "idle"
  /\ buf' = [buf EXCEPT ![t][k] = op]
  /\ UNCHANGED <<log, mode, start, reads, outcome>>

Read(t, k) ==
  /\ mode[t] # "idle"
  /\ reads' = [reads EXCEPT ![t] = @ \cup {k}]
  /\ UNCHANGED <<log, mode, start, buf, outcome>>

\* First committer wins: t's writes become the next version.
Commit(t) ==
  /\ mode[t] # "idle"
  /\ ~RealConflict(t)
  /\ log' = Append(log,
       [data    |-> Effect(buf[t], log[Len(log)].data),
        chained |-> Effect(buf[t], log[Len(log)].chained),
        wrote   |-> Written(buf[t]),
        legacy  |-> FALSE])
  /\ Finished(t, "committed")

\* A conflict is reported only when there is one.
Conflict(t) ==
  /\ mode[t] # "idle"
  /\ RealConflict(t)
  /\ Finished(t, "conflict")
  /\ UNCHANGED log

Abort(t) ==
  /\ mode[t] # "idle"
  /\ Finished(t, "aborted")
  /\ UNCHANGED log

\* update()/write(): any new state, in one version; views do not follow it.
LegacyWrite(S) ==
  /\ log' = Append(log, [data |-> S, chained |-> log[Len(log)].chained,
                         wrote |-> Keys, legacy |-> TRUE])
  /\ UNCHANGED <<mode, start, buf, reads, outcome>>

Pin(v, n) ==
  /\ start[v] = 0
  /\ n \in 1 .. Len(log)
  /\ start' = [start EXCEPT ![v] = n]
  /\ UNCHANGED <<log, mode, buf, reads, outcome>>

Unpin(v) ==
  /\ start[v] # 0
  /\ start' = [start EXCEPT ![v] = 0]
  /\ UNCHANGED <<log, mode, buf, reads, outcome>>

Next ==
  \/ \E t \in Txns :
       \/ \E l \in Level : Begin(t, l)
       \/ \E k \in Keys, op \in {"insert", "delete"} : Write(t, k, op)
       \/ \E k \in Keys : Read(t, k)
       \/ Commit(t) \/ Conflict(t) \/ Abort(t)
  \/ \E S \in SUBSET Keys : LegacyWrite(S)
  \/ \E v \in Views : Unpin(v) \/ \E n \in 1 .. MaxVersion : Pin(v, n)

Spec == Init /\ [][Next]_vars
=============================================================================
