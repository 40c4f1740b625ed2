-------------------------- MODULE ConcurrentDbProofs --------------------------
(***************************************************************************)
(* Proofs about ConcurrentDb, for every set of handles, keys and levels    *)
(* and every bound on the version counter.                                 *)
(***************************************************************************)
EXTENDS ConcurrentDb, FiniteSetTheorems, TLAPS, WellFoundedInduction

Chain == SUBSET [version : 1 .. MaxVersion, op : {"Insert", "Tombstone"}]

-----------------------------------------------------------------------------
(* Types of the operators.                                                 *)

\* Garbage collection keeps the types of the three structures it prunes.
LEMMA RetireType ==
  ASSUME TypeOK, NEW h \in registered, NEW hist, NEW S \in SUBSET (1 .. current.version),
         hist \in [S -> SUBSET Keys], retire(h, hist)
  PROVE  /\ DOMAIN history' \subseteq 1 .. current.version
         /\ history' \in [DOMAIN history' -> SUBSET Keys]
         /\ live_starts' \in [1 .. MaxVersion -> Nat]
         /\ chains' \in [Keys -> Chain]
         /\ start' \in [Handles -> 0 .. current.version]
         /\ registered' \in SUBSET Handles
         /\ \A g \in registered' : start'[g] > 0
<1> DEFINE live == deregister(start[h])
<1>0. start[h] \in 1 .. MaxVersion /\ current.version \in 1 .. MaxVersion
  BY DataAssumption DEF TypeOK
<1>1. live \in [1 .. MaxVersion -> Nat]
  BY <1>0 DEF TypeOK, deregister
<1>2. live_starts' = live /\ history' = gc_history(hist, live) /\ chains' = gc_versions(live)
  BY DEF retire
<1>3. \A R : Restrict(hist, R) = [v \in R |-> hist[v]]
  BY DEF Restrict
<1>4. PICK R \in SUBSET S : history' = [v \in R |-> hist[v]]
  <2> DEFINE R == {v \in DOMAIN hist : ~at_or_below_floor(v, live)}
  <2>1. R \subseteq S
    OBVIOUS
  <2>2. history' = [v \in R |-> hist[v]]
    BY <1>2, <1>3 DEF gc_history
  <2> HIDE DEF R
  <2> QED BY <2>1, <2>2
<1>5. \A k \in Keys : gc_versions(live)[k] \subseteq chains[k]
  BY DEF gc_versions, drain
<1>6. gc_versions(live) \in [Keys -> Chain]
  <2>1. \A k \in Keys : gc_versions(live)[k] \in Chain
    BY <1>5 DEF TypeOK, Chain
  <2>2. gc_versions(live) = [k \in Keys |-> gc_versions(live)[k]]
    BY DEF gc_versions
  <2> HIDE DEF live
  <2> QED BY <2>1, <2>2
<1>7. start' \in [Handles -> 0 .. current.version] /\ registered' \in SUBSET Handles
  BY <1>0 DEF retire, TypeOK
<1>8. \A g \in registered' : start'[g] > 0
  BY <1>0 DEF retire, TypeOK
<1> HIDE DEF live
<1> QED BY <1>1, <1>2, <1>4, <1>6, <1>7, <1>8

-----------------------------------------------------------------------------
(* Type correctness.                                                       *)

\* ConcurrentDb::new establishes the types and free locks.
LEMMA TypeInit == Init => TypeOK
<1> SUFFICES ASSUME Init PROVE TypeOK
  OBVIOUS
<1>1. Len(log) = 1 /\ log \in Seq([data : SUBSET Keys, chained : SUBSET Keys,
                                   wrote : SUBSET Keys, legacy : BOOLEAN])
  BY DataAssumption DEF Init
<1>2. DOMAIN history = {} /\ history \in [DOMAIN history -> SUBSET Keys]
  BY DEF Init
<1>3. writer = NoOwner /\ occ = NoOwner /\ NoOwner \notin Txns
  BY HandlesAssumption DEF Init
<1>4. level \in [Txns -> Level] /\ buf \in [Txns -> [Keys -> {"none", "insert", "delete"}]]
  BY DEF Init, Level, NoWrites
<1>5. current \in [version : 1 .. MaxVersion, data : SUBSET Keys] /\ current.version = 1
  BY DataAssumption DEF Init
<1>6. db \in SUBSET Keys /\ live_starts \in [1 .. MaxVersion -> Nat]
      /\ last_legacy_version \in 0 .. current.version
      /\ chains \in [Keys -> SUBSET [version : 1 .. MaxVersion, op : {"Insert", "Tombstone"}]]
      /\ start \in [Handles -> 0 .. current.version]
  BY <1>5, DataAssumption DEF Init
<1> QED BY <1>1, <1>2, <1>3, <1>4, <1>5, <1>6 DEF Init, TypeOK

\* A consumed transaction is idle, with nothing buffered and nothing read.
LEMMA ConsumedType ==
  ASSUME TypeOK, NEW t \in Txns, NEW r \in {"committed", "conflict", "aborted"},
         consumed(t, r)
  PROVE  /\ pc' = [pc EXCEPT ![t] = "idle"]
         /\ level' \in [Txns -> Level]
         /\ snap' \in [Txns -> SUBSET Keys]
         /\ buf' \in [Txns -> [Keys -> {"none", "insert", "delete"}]]
         /\ reads' \in [Txns -> SUBSET Keys]
         /\ outcome' \in [Txns -> {"none", "committed", "conflict", "aborted"}]
BY DEF TypeOK, consumed, Level, NoWrites

\* Publishing extends the log and the version together.
LEMMA PublishType ==
  ASSUME TypeOK, current.version < MaxVersion, NEW c \in SUBSET Keys,
         NEW w \in SUBSET Keys, NEW l \in BOOLEAN, publish(c, w, l)
  PROVE  /\ current' \in [version : 1 .. MaxVersion, data : SUBSET Keys]
         /\ current'.version = current.version + 1
         /\ log' \in Seq([data : SUBSET Keys, chained : SUBSET Keys,
                          wrote : SUBSET Keys, legacy : BOOLEAN])
         /\ Len(log') = current'.version
<1> DEFINE e == [data |-> db, chained |-> c, wrote |-> w, legacy |-> l]
<1>1. e \in [data : SUBSET Keys, chained : SUBSET Keys, wrote : SUBSET Keys, legacy : BOOLEAN]
  BY DEF TypeOK
<1>2. log' = Append(log, e) /\ current' = [version |-> current.version + 1, data |-> db]
  BY DEF publish
<1>3. current.version \in 1 .. MaxVersion /\ db \in SUBSET Keys /\ Len(log) = current.version
      /\ log \in Seq([data : SUBSET Keys, chained : SUBSET Keys,
                      wrote : SUBSET Keys, legacy : BOOLEAN])
  BY DEF TypeOK
<1> HIDE DEF e
<1> QED BY <1>1, <1>2, <1>3, DataAssumption

\* Every operation keeps the types and the lock ownership.
LEMMA TypeNext == TypeOK /\ [Next]_vars => TypeOK'
<1> SUFFICES ASSUME TypeOK, [Next]_vars PROVE TypeOK'
  OBVIOUS
<1> USE HandlesAssumption, DataAssumption
<1>a. current.version \in 1 .. MaxVersion /\ Txns \subseteq Handles /\ Views \subseteq Handles
  BY DEF TypeOK, Handles
<1>1. ASSUME NEW t \in Txns, NEW l \in Levels, begin_with(t, l) PROVE TypeOK'
  <2>1. live_starts' \in [1 .. MaxVersion -> Nat]
    BY <1>1, <1>a DEF TypeOK, begin_with, register
  <2>2. start' \in [Handles -> 0 .. current.version] /\ start'[t] > 0 /\ level' \in [Txns -> Level]
    BY <1>1, <1>a DEF TypeOK, begin_with
  <2> QED BY <1>1, <1>a, <2>1, <2>2 DEF TypeOK, begin_with
<1>2. ASSUME NEW t \in Txns, NEW k \in Keys, NEW op \in {"insert", "delete"}, buffer(t, k, op)
      PROVE TypeOK'
  <2>1. buf' \in [Txns -> [Keys -> {"none", "insert", "delete"}]]
    BY <1>2 DEF TypeOK, buffer
  <2> QED BY <1>2, <2>1 DEF TypeOK, buffer, shared
<1>3. ASSUME NEW t \in Txns, NEW k \in Keys, read(t, k) PROVE TypeOK'
  BY <1>3 DEF TypeOK, read, shared
<1>4. ASSUME NEW t \in Txns, commit_lock(t) PROVE TypeOK'
  BY <1>4 DEF TypeOK, commit_lock
<1>5. ASSUME NEW t \in Txns, retire(t, history), consumed(t, "conflict"), pc[t] = "locked",
             writer' = NoOwner, occ = NoOwner,
             UNCHANGED <<db, occ, last_legacy_version, current, log>>
      PROVE TypeOK'
  <2>1. t \in registered
    BY <1>5 DEF TypeOK
  <2>2. DOMAIN history \in SUBSET (1 .. current.version) /\ history \in [DOMAIN history -> SUBSET Keys]
    BY DEF TypeOK
  <2>3. registered' = registered \ {t}
    BY <1>5 DEF retire
  <2>4. /\ DOMAIN history' \subseteq 1 .. current.version
        /\ history' \in [DOMAIN history' -> SUBSET Keys]
        /\ live_starts' \in [1 .. MaxVersion -> Nat]
        /\ chains' \in [Keys -> Chain]
        /\ start' \in [Handles -> 0 .. current.version]
        /\ registered' \in SUBSET Handles
        /\ \A g \in registered' : start'[g] > 0
    BY <1>5, <2>1, <2>2, RetireType
  <2>5. /\ pc' = [pc EXCEPT ![t] = "idle"]
        /\ level' \in [Txns -> Level]
        /\ snap' \in [Txns -> SUBSET Keys]
        /\ buf' \in [Txns -> [Keys -> {"none", "insert", "delete"}]]
        /\ reads' \in [Txns -> SUBSET Keys]
        /\ outcome' \in [Txns -> {"none", "committed", "conflict", "aborted"}]
    BY <1>5, ConsumedType
  <2>6. /\ writer' \in Txns \cup Legacy \cup {NoOwner} /\ occ' \in Txns \cup {NoOwner}
        /\ \A u \in Txns :
             /\ u \in registered' <=> pc'[u] # "idle"
             /\ pc'[u] \in {"locked", "publish", "record", "finish"} <=> writer' = u
             /\ pc'[u] \in {"publish", "record", "finish"} <=> occ' = u
             /\ pc'[u] # "publish"
        /\ writer' # NoOwner /\ occ' = NoOwner => current.version < MaxVersion
    BY <1>5, <2>3, <2>5 DEF TypeOK
  <2> QED BY <1>5, <2>4, <2>5, <2>6 DEF TypeOK, Chain
<1>6. ASSUME NEW t \in Txns, commit_apply(t) PROVE TypeOK'
  BY <1>6 DEF TypeOK, commit_apply, apply
<1>7. ASSUME NEW t \in Txns, commit_publish(t) PROVE TypeOK'
  <2>1. apply(buf[t], log[Len(log)].chained) \in SUBSET Keys /\ keys(t) \in SUBSET Keys
    BY DEF apply, keys
  <2>2. current.version < MaxVersion
    BY <1>7 DEF TypeOK, commit_publish
  <2>3. publish(apply(buf[t], log[Len(log)].chained), keys(t), FALSE)
    BY <1>7 DEF commit_publish
  <2>4. /\ current' \in [version : 1 .. MaxVersion, data : SUBSET Keys]
        /\ current'.version = current.version + 1
        /\ log' \in Seq([data : SUBSET Keys, chained : SUBSET Keys,
                          wrote : SUBSET Keys, legacy : BOOLEAN])
        /\ Len(log') = current'.version
    BY <2>1, <2>2, <2>3, PublishType
  <2>5. /\ DOMAIN history' \subseteq 1 .. current'.version
        /\ last_legacy_version' \in 0 .. current'.version
        /\ start' \in [Handles -> 0 .. current'.version]
    BY <1>7, <1>a, <2>4 DEF TypeOK, commit_publish
  <2> QED BY <1>7, <2>4, <2>5 DEF TypeOK, commit_publish
<1>8. ASSUME NEW t \in Txns, commit_record(t) PROVE TypeOK'
  <2>1. chains' \in [Keys -> SUBSET [version : 1 .. MaxVersion, op : {"Insert", "Tombstone"}]]
    BY <1>8, <1>a DEF TypeOK, commit_record, record
  <2> QED BY <1>8, <2>1 DEF TypeOK, commit_record
<1>9. ASSUME NEW t \in Txns, commit_finish(t) PROVE TypeOK'
  <2> DEFINE S == DOMAIN history \cup {current.version}
             hist == [v \in S |-> IF v = current.version THEN keys(t) ELSE history[v]]
  <2>1. t \in registered
    BY <1>9 DEF TypeOK, commit_finish
  <2>2. S \in SUBSET (1 .. current.version) /\ hist \in [S -> SUBSET Keys]
    BY <1>a DEF TypeOK, keys
  <2>3. retire(t, hist) /\ consumed(t, "committed") /\ registered' = registered \ {t}
    BY <1>9 DEF commit_finish, retire
  <2> HIDE DEF S, hist
  <2>4. /\ DOMAIN history' \subseteq 1 .. current.version
        /\ history' \in [DOMAIN history' -> SUBSET Keys]
        /\ live_starts' \in [1 .. MaxVersion -> Nat]
        /\ chains' \in [Keys -> Chain]
        /\ start' \in [Handles -> 0 .. current.version]
        /\ registered' \in SUBSET Handles
        /\ \A g \in registered' : start'[g] > 0
    BY <2>1, <2>2, <2>3, RetireType
  <2>5. /\ pc' = [pc EXCEPT ![t] = "idle"]
        /\ level' \in [Txns -> Level]
        /\ snap' \in [Txns -> SUBSET Keys]
        /\ buf' \in [Txns -> [Keys -> {"none", "insert", "delete"}]]
        /\ reads' \in [Txns -> SUBSET Keys]
        /\ outcome' \in [Txns -> {"none", "committed", "conflict", "aborted"}]
    BY <2>3, ConsumedType
  <2>6. /\ writer' \in Txns \cup Legacy \cup {NoOwner} /\ occ' \in Txns \cup {NoOwner}
        /\ \A u \in Txns :
             /\ u \in registered' <=> pc'[u] # "idle"
             /\ pc'[u] \in {"locked", "publish", "record", "finish"} <=> writer' = u
             /\ pc'[u] \in {"publish", "record", "finish"} <=> occ' = u
             /\ pc'[u] # "publish"
        /\ writer' # NoOwner /\ occ' = NoOwner => current.version < MaxVersion
    BY <1>9, <2>3, <2>5 DEF TypeOK, commit_finish
  <2> QED BY <1>9, <2>4, <2>5, <2>6 DEF TypeOK, Chain, commit_finish
<1>10. ASSUME NEW t \in Txns, drop_txn(t) PROVE TypeOK'
  <2>1. t \in registered
    BY <1>10 DEF TypeOK, drop_txn
  <2>2. DOMAIN history \in SUBSET (1 .. current.version) /\ history \in [DOMAIN history -> SUBSET Keys]
    BY DEF TypeOK
  <2>3. registered' = registered \ {t}
    BY <1>10 DEF retire, drop_txn
  <2>4. /\ DOMAIN history' \subseteq 1 .. current.version
        /\ history' \in [DOMAIN history' -> SUBSET Keys]
        /\ live_starts' \in [1 .. MaxVersion -> Nat]
        /\ chains' \in [Keys -> Chain]
        /\ start' \in [Handles -> 0 .. current.version]
        /\ registered' \in SUBSET Handles
        /\ \A g \in registered' : start'[g] > 0
    BY <1>10, <2>1, <2>2, RetireType DEF drop_txn
  <2>5. /\ pc' = [pc EXCEPT ![t] = "idle"]
        /\ level' \in [Txns -> Level]
        /\ snap' \in [Txns -> SUBSET Keys]
        /\ buf' \in [Txns -> [Keys -> {"none", "insert", "delete"}]]
        /\ reads' \in [Txns -> SUBSET Keys]
        /\ outcome' \in [Txns -> {"none", "committed", "conflict", "aborted"}]
    BY <1>10, ConsumedType DEF drop_txn
  <2>6. /\ writer' \in Txns \cup Legacy \cup {NoOwner} /\ occ' \in Txns \cup {NoOwner}
        /\ \A u \in Txns :
             /\ u \in registered' <=> pc'[u] # "idle"
             /\ pc'[u] \in {"locked", "publish", "record", "finish"} <=> writer' = u
             /\ pc'[u] \in {"publish", "record", "finish"} <=> occ' = u
             /\ pc'[u] # "publish"
        /\ writer' # NoOwner /\ occ' = NoOwner => current.version < MaxVersion
    BY <1>10, <2>3, <2>5 DEF TypeOK, drop_txn
  <2> QED BY <1>10, <2>4, <2>5, <2>6 DEF TypeOK, Chain, drop_txn
<1>11. ASSUME NEW w \in Legacy, legacy_apply(w) PROVE TypeOK'
  BY <1>11 DEF TypeOK, legacy_apply, local
<1>12. ASSUME NEW w \in Legacy, legacy_fail(w) PROVE TypeOK'
  BY <1>12 DEF TypeOK, legacy_fail, local
<1>13. ASSUME NEW w \in Legacy, legacy_publish(w) PROVE TypeOK'
  <2>1. log[Len(log)].chained \in SUBSET Keys /\ Keys \in SUBSET Keys
    <3> DEFINE E == [data : SUBSET Keys, chained : SUBSET Keys,
                     wrote : SUBSET Keys, legacy : BOOLEAN]
    <3>1. log \in Seq(E) /\ Len(log) \in 1 .. Len(log)
      BY <1>a DEF TypeOK
    <3> HIDE DEF E
    <3>2. log[Len(log)] \in E
      BY <3>1
    <3> QED BY <3>2 DEF E
  <2>2. current.version < MaxVersion
    BY <1>13 DEF TypeOK, legacy_publish
  <2>3. publish(log[Len(log)].chained, Keys, TRUE)
    BY <1>13 DEF legacy_publish
  <2>4. /\ current' \in [version : 1 .. MaxVersion, data : SUBSET Keys]
        /\ current'.version = current.version + 1
        /\ log' \in Seq([data : SUBSET Keys, chained : SUBSET Keys,
                          wrote : SUBSET Keys, legacy : BOOLEAN])
        /\ Len(log') = current'.version
    BY <2>1, <2>2, <2>3, PublishType
  <2>5. /\ DOMAIN history' \subseteq 1 .. current'.version
        /\ last_legacy_version' \in 0 .. current'.version
        /\ start' \in [Handles -> 0 .. current'.version]
    BY <1>13, <1>a, <2>4 DEF TypeOK, legacy_publish, local
  <2> QED BY <1>13, <2>4, <2>5 DEF TypeOK, legacy_publish, local
<1>14. ASSUME NEW v \in Views, NEW n \in 1 .. current.version, pin(v, n) PROVE TypeOK'
  <2>1. live_starts' \in [1 .. MaxVersion -> Nat]
    BY <1>14, <1>a DEF TypeOK, pin, register
  <2>2. start' \in [Handles -> 0 .. current.version] /\ start'[v] > 0
    BY <1>14, <1>a DEF TypeOK, pin
  <2> QED BY <1>14, <1>a, <2>1, <2>2 DEF TypeOK, pin
<1>15. ASSUME NEW v \in Views, drop_view(v) PROVE TypeOK'
  <2>1. v \in registered
    BY <1>15 DEF drop_view
  <2>2. DOMAIN history \in SUBSET (1 .. current.version) /\ history \in [DOMAIN history -> SUBSET Keys]
    BY DEF TypeOK
  <2>3. registered' = registered \ {v}
    BY <1>15 DEF retire, drop_view
  <2> QED BY <1>15, <2>1, <2>2, <2>3, RetireType DEF TypeOK, Chain, drop_view
<1>16. CASE UNCHANGED vars
  BY <1>16 DEF TypeOK, vars, shared, local
<1>17. ASSUME NEW t \in Txns, commit_conflict(t) PROVE TypeOK'
  BY <1>17, <1>5 DEF commit_conflict
<1> QED
  BY <1>1, <1>2, <1>3, <1>4, <1>6, <1>7, <1>8, <1>9, <1>10, <1>11, <1>12, <1>13,
     <1>14, <1>15, <1>16, <1>17, <1>a
  DEF Next, commit_step, legacy_step, insert, delete, version_view, version_view_at

\* Every state ConcurrentDb reaches is well typed and its locks are owned as
\* the code takes them, for every instance of the constants.
THEOREM TypeCorrect == Spec => []TypeOK
BY TypeInit, TypeNext, PTL DEF Spec

-----------------------------------------------------------------------------
(* Reference counting: register and deregister keep live_starts equal to   *)
(* the number of handles registered at each version.                       *)

\* The handles registered at one version are finitely many.
LEMMA PinnedFinite ==
  ASSUME TypeOK, NEW v
  PROVE  IsFiniteSet({h \in registered : start[h] = v})
BY HandlesAssumption, FS_Subset DEF TypeOK

\* A version with a registered handle has a positive count, and conversely.
LEMMA PinnedIsLive ==
  ASSUME TypeOK, PinsAreCounted, NEW v \in 1 .. MaxVersion
  PROVE  live_starts[v] > 0 <=> \E h \in registered : start[h] = v
<1> DEFINE P == {h \in registered : start[h] = v}
<1>1. live_starts[v] = Cardinality(P)
  BY DEF PinsAreCounted
<1>2. IsFiniteSet(P)
  BY PinnedFinite
<1>3. Cardinality(P) \in Nat /\ (Cardinality(P) = 0 <=> P = {})
  BY <1>2, FS_EmptySet, FS_CardinalityType
<1>4. P # {} <=> \E h \in registered : start[h] = v
  OBVIOUS
<1> HIDE DEF P
<1> QED BY <1>1, <1>3, <1>4

\* OccState::register counts the handle that is being registered.
LEMMA RegisterCounts ==
  ASSUME TypeOK, PinsAreCounted, NEW h \in Handles \ registered, NEW n \in 1 .. MaxVersion,
         start' = [start EXCEPT ![h] = n], register(n), registered' = registered \cup {h}
  PROVE  PinsAreCounted'
<1> DEFINE P(v) == {g \in registered : start[g] = v}
           Q(v) == {g \in registered' : start'[g] = v}
<1> SUFFICES ASSUME NEW v \in 1 .. MaxVersion PROVE live_starts'[v] = Cardinality(Q(v))
  BY DEF PinsAreCounted
<1>1. live_starts[v] = Cardinality(P(v)) /\ IsFiniteSet(P(v))
  BY PinnedFinite DEF PinsAreCounted
<1>2. CASE v = n
  <2>1. Q(v) = P(v) \cup {h} /\ h \notin P(v)
    BY <1>2 DEF TypeOK
  <2>2. live_starts'[v] = live_starts[v] + 1
    BY <1>2 DEF register, TypeOK
  <2> HIDE DEF P, Q
  <2> QED BY <1>1, <2>1, <2>2, FS_AddElement
<1>3. CASE v # n
  <2>1. Q(v) = P(v)
    BY <1>3 DEF TypeOK
  <2>2. live_starts'[v] = live_starts[v]
    BY <1>3 DEF register, TypeOK
  <2> QED BY <1>1, <2>1, <2>2
<1> QED BY <1>2, <1>3

\* OccState::deregister uncounts exactly the handle that ends.
LEMMA RetireCounts ==
  ASSUME TypeOK, PinsAreCounted, NEW h \in registered, NEW hist, retire(h, hist)
  PROVE  PinsAreCounted'
<1> DEFINE P(v) == {g \in registered : start[g] = v}
           Q(v) == {g \in registered' : start'[g] = v}
<1> SUFFICES ASSUME NEW v \in 1 .. MaxVersion PROVE live_starts'[v] = Cardinality(Q(v))
  BY DEF PinsAreCounted
<1>0. /\ registered' = registered \ {h} /\ start' = [start EXCEPT ![h] = 0]
      /\ live_starts' = deregister(start[h])
  BY DEF retire
<1>1. live_starts[v] = Cardinality(P(v)) /\ IsFiniteSet(P(v))
  BY PinnedFinite DEF PinsAreCounted
<1>2. CASE v = start[h]
  <2>1. Q(v) = P(v) \ {h} /\ h \in P(v)
    BY <1>0, <1>2 DEF TypeOK
  <2>2. live_starts[v] > 0
    BY <1>2, PinnedIsLive
  <2>3. live_starts'[v] = live_starts[v] - 1
    BY <1>0, <1>2, <2>2 DEF deregister, TypeOK
  <2> HIDE DEF P, Q
  <2> QED BY <1>1, <2>1, <2>3, FS_RemoveElement
<1>3. CASE v # start[h]
  <2>1. Q(v) = P(v)
    BY <1>0, <1>3 DEF TypeOK
  <2>2. live_starts'[v] = live_starts[v]
    BY <1>0, <1>3 DEF deregister, TypeOK
  <2> QED BY <1>1, <2>1, <2>2
<1> QED BY <1>2, <1>3

-----------------------------------------------------------------------------
(* Garbage collection drops exactly what no live handle validates against. *)

\* OccState::gc keeps each version newer than a live start, as it was, and
\* nothing else.
LEMMA CollectedHistory ==
  ASSUME TypeOK, PinsAreCounted, NEW h \in registered, NEW hist,
         DOMAIN hist \subseteq 1 .. current.version, retire(h, hist)
  PROVE  /\ \A g \in registered' : \A v \in DOMAIN hist :
              v > start'[g] => v \in DOMAIN history' /\ history'[v] = hist[v]
         /\ \A v \in DOMAIN history' : \E g \in registered' : start'[g] < v
<1> DEFINE live == deregister(start[h])
           R == {v \in DOMAIN hist : ~at_or_below_floor(v, live)}
<1>0. /\ live_starts' = live /\ registered' = registered \ {h}
      /\ start' = [start EXCEPT ![h] = 0] /\ history' = gc_history(hist, live)
  BY DEF retire
<1>1. history' = [v \in R |-> hist[v]]
  BY <1>0 DEF gc_history, Restrict
<1>2. PinsAreCounted'
  BY RetireCounts
<1>3. live \in [1 .. MaxVersion -> Nat] /\ start \in [Handles -> 0 .. current.version]
      /\ current.version \in 1 .. MaxVersion /\ registered \subseteq Handles
  <2>1. start[h] \in 1 .. MaxVersion
    BY DataAssumption DEF TypeOK
  <2>2. live \in [1 .. MaxVersion -> Nat]
    BY <2>1 DEF TypeOK, deregister
  <2> QED BY <2>2 DEF TypeOK
<1>4. \A v \in 1 .. MaxVersion : live[v] > 0 <=> \E g \in registered' : start'[g] = v
  <2> SUFFICES ASSUME NEW v \in 1 .. MaxVersion
               PROVE  live[v] > 0 <=> \E g \in registered' : start'[g] = v
    OBVIOUS
  <2> DEFINE Q == {g \in registered' : start'[g] = v}
  <2>1. live[v] = Cardinality(Q)
    BY <1>0, <1>2 DEF PinsAreCounted
  <2>2. IsFiniteSet(Q)
    BY <1>0, <1>3, HandlesAssumption, FS_Subset
  <2>3. Cardinality(Q) \in Nat /\ (Cardinality(Q) = 0 <=> Q = {})
    BY <2>2, FS_EmptySet, FS_CardinalityType
  <2>4. Q # {} <=> \E g \in registered' : start'[g] = v
    OBVIOUS
  <2> HIDE DEF Q, live
  <2> QED BY <2>1, <2>3, <2>4
<1>5. \A g \in registered' : start'[g] = start[g] /\ start[g] \in 1 .. MaxVersion
  BY <1>0, <1>3, DataAssumption DEF TypeOK
<1> HIDE DEF live
<1>6. ASSUME NEW g \in registered', NEW v \in DOMAIN hist, v > start'[g]
      PROVE  v \in R
  <2>1. live[start'[g]] > 0 /\ start'[g] \in DOMAIN live
    BY <1>3, <1>4, <1>5
  <2>2. v \in Nat /\ start'[g] \in Nat /\ ~(v <= start'[g])
    BY <1>3, <1>5, <1>6
  <2>3. ~at_or_below_floor(v, live)
    BY <2>1, <2>2 DEF at_or_below_floor
  <2> QED BY <2>3
<1>7. ASSUME NEW v \in R
      PROVE  \E g \in registered' : start'[g] < v
  <2>1. PICK s \in 1 .. MaxVersion : live[s] > 0 /\ ~(v <= s)
    BY <1>3 DEF at_or_below_floor
  <2>2. PICK g \in registered' : start'[g] = s
    BY <1>4, <2>1
  <2> QED BY <1>3, <2>1, <2>2, DataAssumption
<1> HIDE DEF R
<1> QED BY <1>1, <1>6, <1>7

-----------------------------------------------------------------------------
(* The inductive invariant behind commit validation.                       *)

Validation == PinsAreCounted /\ HistoryIsComplete /\ ValidationInputs /\ NoLostUpdate
                /\ HistoryIsBounded

\* Facts of the locks: one transaction at a time is past validation.
LEMMA OneCommitter ==
  ASSUME TypeOK, NEW t \in Txns
  PROVE  /\ occ = NoOwner => pc[t] \notin {"publish", "record", "finish"}
         /\ \A u \in Txns : pc[t] \in {"publish", "record", "finish"}
              /\ pc[u] \in {"publish", "record", "finish"} => u = t
BY HandlesAssumption DEF TypeOK

\* A collection by a handle that is not in the middle of a commit.
LEMMA RetirePreserves ==
  ASSUME TypeOK, Validation, NEW h \in registered, occ = NoOwner, retire(h, history),
         UNCHANGED <<last_legacy_version, log>>,
         \A t \in Txns : pc'[t] = pc[t] \/ pc'[t] = "idle"
  PROVE  Validation'
<1>1. DOMAIN history \subseteq 1 .. current.version
  BY DEF TypeOK
<1>2. \A t \in Txns : pc[t] \notin {"publish", "record", "finish"}
                      /\ pc'[t] \notin {"publish", "record", "finish"}
  BY OneCommitter
<1>3. registered' = registered \ {h} /\ start' = [start EXCEPT ![h] = 0]
      /\ start \in [Handles -> 0 .. current.version] /\ registered \subseteq Handles
  BY DEF retire, TypeOK
<1>4. PinsAreCounted'
  BY RetireCounts DEF Validation
<1>5. HistoryIsComplete'
  <2> SUFFICES ASSUME NEW g \in registered', NEW v \in (start'[g] + 1) .. Len(log')
               PROVE  log'[v].legacy \/ (v \in DOMAIN history' /\ history'[v] = log'[v].wrote)
    BY DEF HistoryIsComplete
  <2>1. g \in registered /\ start'[g] = start[g] /\ start[g] \in Nat
    BY <1>3
  <2>2. log[v].legacy \/ (v \in DOMAIN history /\ history[v] = log[v].wrote)
    BY <1>2, <2>1 DEF Validation, HistoryIsComplete, Unfiled
  <2>3. v > start'[g]
    BY <2>1
  <2> QED BY <1>1, <2>2, <2>3, CollectedHistory DEF Validation
<1>6. ValidationInputs' /\ NoLostUpdate'
  BY <1>2 DEF ValidationInputs, NoLostUpdate, Validation
<1>7. HistoryIsBounded'
  BY <1>1, CollectedHistory DEF Validation, HistoryIsBounded
<1> QED BY <1>4, <1>5, <1>6, <1>7 DEF Validation

\* Nothing is live and nothing is filed when the database is wrapped.
LEMMA ValidationInit == Init => Validation
<1> SUFFICES ASSUME Init PROVE Validation
  OBVIOUS
<1>1. registered = {} /\ Len(log) = 1 /\ ~log[1].legacy /\ history = [v \in {} |-> {}]
  BY DEF Init
<1>2. PinsAreCounted
  <2>1. \A v : {h \in registered : start[h] = v} = {}
    BY <1>1
  <2> QED BY <2>1, FS_EmptySet DEF PinsAreCounted, Init
<1>3. HistoryIsComplete /\ HistoryIsBounded
  BY <1>1 DEF HistoryIsComplete, HistoryIsBounded
<1>4. ValidationInputs /\ NoLostUpdate
  BY <1>1 DEF ValidationInputs, NoLostUpdate, Init
<1> QED BY <1>2, <1>3, <1>4 DEF Validation

\* A handle registered at a version some live handle already retains, or at
\* the newest one, needs nothing that was collected.
LEMMA PinPreserves ==
  ASSUME TypeOK, Validation, NEW h \in Handles \ registered, NEW n \in 1 .. current.version,
         n = current.version \/ \E g \in registered : start[g] <= n,
         occ = NoOwner,
         start' = [start EXCEPT ![h] = n], register(n), registered' = registered \cup {h},
         UNCHANGED <<history, last_legacy_version, log, buf>>,
         \A t \in Txns : pc'[t] = pc[t] \/ pc'[t] = "open"
  PROVE  Validation'
<1>1. \A t \in Txns : pc[t] \notin {"publish", "record", "finish"}
                      /\ pc'[t] \notin {"publish", "record", "finish"}
  BY OneCommitter
<1>2. /\ start \in [Handles -> 0 .. current.version] /\ registered \subseteq Handles
      /\ current.version \in 1 .. MaxVersion /\ Len(log) = current.version
  BY DEF TypeOK
<1>3. PinsAreCounted'
  <2>1. n \in 1 .. MaxVersion
    BY <1>2, DataAssumption
  <2> QED BY <2>1, RegisterCounts DEF Validation
<1>4. HistoryIsComplete'
  <2> SUFFICES ASSUME NEW g \in registered', NEW v \in (start'[g] + 1) .. Len(log)
               PROVE  log[v].legacy \/ (v \in DOMAIN history /\ history[v] = log[v].wrote)
    BY DEF HistoryIsComplete
  <2>1. \A f \in registered : v \in (start[f] + 1) .. Len(log)
          => log[v].legacy \/ (v \in DOMAIN history /\ history[v] = log[v].wrote)
    BY <1>1 DEF Validation, HistoryIsComplete, Unfiled
  <2>2. CASE g # h
    BY <1>2, <2>1, <2>2
  <2>3. CASE g = h
    <3>1. start'[h] = n
      BY <1>2
    <3>2. PICK f \in registered : start[f] <= n
      BY <1>2, <2>3, <3>1
    <3> QED BY <1>2, <2>1, <2>3, <3>1, <3>2
  <2> QED BY <2>2, <2>3
<1>5. ValidationInputs' /\ NoLostUpdate'
  BY <1>1 DEF ValidationInputs, NoLostUpdate, Validation
<1>6. HistoryIsBounded'
  <2> SUFFICES ASSUME NEW m \in DOMAIN history PROVE \E g \in registered' : start'[g] < m
    BY DEF HistoryIsBounded
  <2>1. PICK g \in registered : start[g] < m
    BY DEF Validation, HistoryIsBounded
  <2> QED BY <1>2, <2>1
<1> QED BY <1>3, <1>4, <1>5, <1>6 DEF Validation

\* Publishing version Len(log) + 1 while nobody is between publish and finish.
LEMMA PublishPreserves ==
  ASSUME TypeOK, Validation, NEW e, log' = Append(log, e),
         \A t \in Txns : pc[t] \notin {"record", "finish"},
         e.legacy \/ \E t \in Txns : pc'[t] \in {"record", "finish"},
         UNCHANGED <<history, live_starts, start, registered>>
  PROVE  PinsAreCounted' /\ HistoryIsComplete' /\ HistoryIsBounded'
<1>1. Len(log') = Len(log) + 1 /\ log'[Len(log) + 1] = e /\ Len(log) \in Nat
      /\ \A v \in 1 .. Len(log) : log'[v] = log[v]
  BY DEF TypeOK
<1>2. start \in [Handles -> 0 .. current.version] /\ registered \subseteq Handles
  BY DEF TypeOK
<1>3. HistoryIsComplete'
  <2> SUFFICES ASSUME NEW h \in registered, NEW v \in (start[h] + 1) .. Len(log')
               PROVE  \/ log'[v].legacy \/ Unfiled(v)'
                      \/ v \in DOMAIN history /\ history[v] = log'[v].wrote
    BY DEF HistoryIsComplete
  <2>1. CASE v = Len(log')
    BY <1>1, <2>1 DEF Unfiled
  <2>2. CASE v # Len(log')
    <3>1. v \in (start[h] + 1) .. Len(log) /\ v \in 1 .. Len(log)
      BY <1>1, <1>2, <2>2
    <3> QED BY <1>1, <3>1 DEF Validation, HistoryIsComplete, Unfiled
  <2> QED BY <2>1, <2>2
<1> QED BY <1>3 DEF Validation, PinsAreCounted, HistoryIsBounded

\* Every operation keeps the validation invariant.
LEMMA ValidationNext == TypeOK /\ TypeOK' /\ Validation /\ [Next]_vars => Validation'
<1> SUFFICES ASSUME TypeOK, TypeOK', Validation, [Next]_vars PROVE Validation'
  OBVIOUS
<1>a. /\ Txns \subseteq Handles /\ Views \subseteq Handles /\ current.version \in 1 .. MaxVersion
      /\ Len(log) = current.version /\ start \in [Handles -> 0 .. current.version]
      /\ registered \subseteq Handles /\ DOMAIN history \subseteq 1 .. current.version
  BY DEF TypeOK, Handles
<1>1. ASSUME NEW t \in Txns, NEW l \in Levels, begin_with(t, l) PROVE Validation'
  <2>1. t \in Handles \ registered /\ current.version \in 1 .. current.version
    BY <1>1, <1>a DEF begin_with, TypeOK
  <2>2. \A u \in Txns : pc'[u] = pc[u] \/ pc'[u] = "open"
    BY <1>1 DEF begin_with, TypeOK
  <2> QED BY <1>1, <2>1, <2>2, PinPreserves DEF begin_with
<1>2. ASSUME NEW t \in Txns, NEW k \in Keys, NEW op \in {"insert", "delete"}, buffer(t, k, op)
      PROVE Validation'
  <2>1. \A u \in Txns : pc[u] # "open" => keys(u)' = keys(u)
    BY <1>2 DEF buffer, keys, TypeOK
  <2> QED BY <1>2, <2>1 DEF Validation, buffer, shared, PinsAreCounted, HistoryIsComplete,
             Unfiled, ValidationInputs, NoLostUpdate, HistoryIsBounded
<1>3. ASSUME NEW t \in Txns, NEW k \in Keys, read(t, k) PROVE Validation'
  BY <1>3 DEF Validation, read, shared, PinsAreCounted, HistoryIsComplete, keys,
             Unfiled, ValidationInputs, NoLostUpdate, HistoryIsBounded
<1>4. ASSUME NEW t \in Txns, commit_lock(t) PROVE Validation'
  <2>1. \A u \in Txns : /\ pc'[u] \in {"record", "finish"} <=> pc[u] \in {"record", "finish"}
                        /\ pc'[u] = "publish" <=> pc[u] = "publish"
                        /\ pc'[u] = pc[u] \/ u = t
    <3>1. pc[t] = "open" /\ pc' = [pc EXCEPT ![t] = "locked"] /\ pc \in [Txns -> {"idle", "open", "locked", "publish", "record", "finish"}]
      BY <1>4 DEF commit_lock, TypeOK
    <3> QED BY <3>1
  <2> QED BY <1>4, <2>1 DEF Validation, commit_lock, PinsAreCounted, HistoryIsComplete, keys,
             Unfiled, ValidationInputs, NoLostUpdate, HistoryIsBounded
<1>5. ASSUME NEW t \in Txns, commit_conflict(t) PROVE Validation'
  <2>1. t \in registered
    BY <1>5 DEF commit_conflict, TypeOK
  <2>2. \A u \in Txns : pc'[u] = pc[u] \/ pc'[u] = "idle"
    BY <1>5 DEF commit_conflict, consumed, TypeOK
  <2> QED BY <1>5, <2>1, <2>2, RetirePreserves DEF commit_conflict
<1>6. ASSUME NEW t \in Txns, commit_apply(t) PROVE Validation'
  <2>0. \A u \in Txns : pc[u] \notin {"publish", "record", "finish"}
    BY <1>6, OneCommitter DEF commit_apply
  <2>1. pc' = [pc EXCEPT ![t] = "publish"] /\ pc \in [Txns -> {"idle", "open", "locked", "publish", "record", "finish"}]
    BY <1>6 DEF commit_apply, TypeOK
  <2>2. PinsAreCounted' /\ HistoryIsBounded' /\ ValidationInputs'
    BY <1>6, <2>0, <2>1 DEF Validation, commit_apply, PinsAreCounted, HistoryIsBounded, ValidationInputs
  <2>3. HistoryIsComplete'
    BY <1>6, <2>0, <2>1 DEF Validation, commit_apply, HistoryIsComplete, Unfiled
  <2>4. NoLostUpdate'
    <3> SUFFICES ASSUME NEW u \in Txns, pc'[u] = "publish", checks_write_write(level[u]),
                        NEW v \in (start[u] + 1) .. Len(log)
                 PROVE  ~log[v].legacy /\ log[v].wrote \cap keys(u) = {}
      BY <1>6 DEF commit_apply, NoLostUpdate, keys
    <3>1. u = t /\ t \in registered
      BY <1>6, <2>0, <2>1 DEF TypeOK, commit_apply
    <3>2. v \in 1 .. Len(log) /\ v > start[t] /\ start[t] \in Nat
      BY <1>a, <3>1
    <3>3. ~log[v].legacy
      <4>1. ~(last_legacy_version > start[t])
        BY <1>6, <3>1 DEF commit_apply, in_conflict, legacy_during
      <4>2. log[v].legacy => v <= last_legacy_version
        BY <3>2 DEF Validation, ValidationInputs
      <4>3. last_legacy_version \in Nat
        BY <1>a DEF TypeOK
      <4> QED BY <3>2, <4>1, <4>2, <4>3
    <3>4. v \in DOMAIN history /\ history[v] = log[v].wrote
      BY <2>0, <3>1, <3>3 DEF Validation, HistoryIsComplete, Unfiled
    <3>5. ~ww_conflict(t)
      BY <1>6 DEF commit_apply, in_conflict
    <3> QED BY <3>1, <3>2, <3>3, <3>4, <3>5 DEF ww_conflict
  <2> QED BY <2>2, <2>3, <2>4 DEF Validation
<1>7. ASSUME NEW t \in Txns, commit_publish(t) PROVE Validation'
  <2>0. \A u \in Txns : pc[u] \notin {"record", "finish"} /\ (u # t => pc[u] # "publish")
    BY <1>7, OneCommitter DEF commit_publish
  <2> DEFINE e == [data |-> db, chained |-> apply(buf[t], log[Len(log)].chained),
                   wrote |-> keys(t), legacy |-> FALSE]
  <2>1. log' = Append(log, e) /\ pc' = [pc EXCEPT ![t] = "record"] /\ ~e.legacy /\ e.wrote = keys(t)
    BY <1>7 DEF commit_publish, publish
  <2>2. pc'[t] = "record" /\ \A u \in Txns : u # t => pc'[u] = pc[u]
    BY <2>1 DEF TypeOK
  <2> HIDE DEF e
  <2>3. PinsAreCounted' /\ HistoryIsComplete' /\ HistoryIsBounded'
    BY <1>7, <2>0, <2>1, <2>2, PublishPreserves DEF commit_publish
  <2>4. Len(log') = Len(log) + 1 /\ log'[Len(log) + 1] = e /\ Len(log) \in Nat
        /\ \A v \in 1 .. Len(log) : log'[v] = log[v]
    BY <2>1 DEF TypeOK
  <2>5. keys(t)' = keys(t) /\ last_legacy_version' = last_legacy_version
    BY <1>7 DEF commit_publish, keys
  <2>6. ValidationInputs'
    <3>1. \A v \in 1 .. Len(log') : log'[v].legacy => v <= last_legacy_version'
      BY <2>1, <2>4, <2>5 DEF Validation, ValidationInputs
    <3>2. \A u \in Txns : pc'[u] \in {"record", "finish"} => u = t
      BY <2>0, <2>2
    <3> QED BY <2>1, <2>4, <2>5, <3>1, <3>2 DEF ValidationInputs
  <2>7. NoLostUpdate'
    BY <2>0, <2>2 DEF NoLostUpdate
  <2> QED BY <2>3, <2>6, <2>7 DEF Validation
<1>8. ASSUME NEW t \in Txns, commit_record(t) PROVE Validation'
  <2>1. \A u \in Txns : /\ pc'[u] \in {"record", "finish"} <=> pc[u] \in {"record", "finish"}
                        /\ pc'[u] = "publish" <=> pc[u] = "publish"
                        /\ keys(u)' = keys(u)
    <3>1. pc[t] = "record" /\ pc' = [pc EXCEPT ![t] = "finish"] /\ pc \in [Txns -> {"idle", "open", "locked", "publish", "record", "finish"}]
      BY <1>8 DEF commit_record, TypeOK
    <3>2. \A u \in Txns : keys(u)' = keys(u)
      BY <1>8 DEF commit_record, keys
    <3> QED BY <3>1, <3>2
  <2>2. UNCHANGED <<history, live_starts, last_legacy_version, level, start, registered, log>>
    BY <1>8 DEF commit_record
  <2>3. PinsAreCounted' /\ HistoryIsBounded' /\ HistoryIsComplete'
    BY <2>1, <2>2 DEF Validation, PinsAreCounted, HistoryIsBounded, HistoryIsComplete, Unfiled
  <2>4. ValidationInputs' /\ NoLostUpdate'
    BY <2>1, <2>2 DEF Validation, ValidationInputs, NoLostUpdate
  <2> QED BY <2>3, <2>4 DEF Validation
<1>9. ASSUME NEW t \in Txns, commit_finish(t) PROVE Validation'
  <2> DEFINE S == DOMAIN history \cup {current.version}
             hist == [v \in S |-> IF v = current.version THEN keys(t) ELSE history[v]]
  <2>1. t \in registered /\ retire(t, hist) /\ DOMAIN hist \subseteq 1 .. current.version
    BY <1>9, <1>a DEF TypeOK, commit_finish
  <2>2. \A u \in Txns : pc'[u] \notin {"publish", "record", "finish"}
    <3>1. pc' = [pc EXCEPT ![t] = "idle"] /\ pc \in [Txns -> {"idle", "open", "locked", "publish", "record", "finish"}]
      BY <1>9 DEF commit_finish, consumed, TypeOK
    <3>2. \A u \in Txns : u # t => pc[u] \notin {"publish", "record", "finish"}
      BY <1>9, OneCommitter DEF commit_finish
    <3> QED BY <3>1, <3>2
  <2>3. PinsAreCounted'
    BY <2>1, RetireCounts DEF Validation
  <2>4. \A h \in registered : \A v \in (start[h] + 1) .. Len(log) :
          log[v].legacy \/ (v \in DOMAIN hist /\ hist[v] = log[v].wrote)
    <3> SUFFICES ASSUME NEW h \in registered, NEW v \in (start[h] + 1) .. Len(log), ~log[v].legacy
                 PROVE  v \in DOMAIN hist /\ hist[v] = log[v].wrote
      OBVIOUS
    <3>1. CASE v = Len(log)
      BY <1>9, <1>a, <3>1 DEF Validation, ValidationInputs, commit_finish
    <3>2. CASE v # Len(log)
      BY <1>a, <3>2 DEF Validation, HistoryIsComplete, Unfiled
    <3> QED BY <3>1, <3>2
  <2> HIDE DEF hist
  <2>5. /\ \A g \in registered' : \A v \in DOMAIN hist :
              v > start'[g] => v \in DOMAIN history' /\ history'[v] = hist[v]
        /\ HistoryIsBounded'
    BY <2>1, CollectedHistory DEF Validation, HistoryIsBounded
  <2>6. log' = log /\ last_legacy_version' = last_legacy_version
        /\ \A g \in registered' : g \in registered /\ start'[g] = start[g] /\ start[g] \in Nat
    BY <1>9, <1>a DEF commit_finish, retire
  <2>7. HistoryIsComplete'
    <3> SUFFICES ASSUME NEW g \in registered', NEW v \in (start[g] + 1) .. Len(log)
                 PROVE  log[v].legacy \/ (v \in DOMAIN history' /\ history'[v] = log[v].wrote)
      BY <2>6 DEF HistoryIsComplete
    <3>1. v > start[g]
      BY <2>6
    <3> QED BY <2>4, <2>5, <2>6, <3>1
  <2>8. ValidationInputs' /\ NoLostUpdate'
    BY <2>2, <2>6 DEF Validation, ValidationInputs, NoLostUpdate
  <2> QED BY <2>3, <2>5, <2>7, <2>8 DEF Validation
<1>10. ASSUME NEW t \in Txns, drop_txn(t) PROVE Validation'
  <2>1. t \in registered
    BY <1>10 DEF drop_txn, TypeOK
  <2>2. \A u \in Txns : pc'[u] = pc[u] \/ pc'[u] = "idle"
    BY <1>10 DEF drop_txn, consumed, TypeOK
  <2> QED BY <1>10, <2>1, <2>2, RetirePreserves DEF drop_txn
<1>11. ASSUME UNCHANGED <<history, live_starts, last_legacy_version, local, log>> PROVE Validation'
  BY <1>11 DEF Validation, local, PinsAreCounted, HistoryIsComplete, keys,
             Unfiled, ValidationInputs, NoLostUpdate, HistoryIsBounded
<1>12. ASSUME NEW w \in Legacy, legacy_publish(w) PROVE Validation'
  <2>0. \A u \in Txns : pc[u] \notin {"publish", "record", "finish"}
    BY <1>12, OneCommitter DEF legacy_publish
  <2> DEFINE e == [data |-> db, chained |-> log[Len(log)].chained, wrote |-> Keys, legacy |-> TRUE]
  <2>1. log' = Append(log, e) /\ e.legacy
    BY <1>12 DEF legacy_publish, publish
  <2> HIDE DEF e
  <2>2. PinsAreCounted' /\ HistoryIsComplete' /\ HistoryIsBounded'
    BY <1>12, <2>0, <2>1, PublishPreserves DEF legacy_publish, local
  <2>3. Len(log') = Len(log) + 1 /\ Len(log) \in Nat
        /\ \A v \in 1 .. Len(log) : log'[v] = log[v]
    BY <2>1 DEF TypeOK
  <2>4. last_legacy_version' = current.version + 1 /\ last_legacy_version \in 0 .. current.version
    BY <1>12 DEF legacy_publish, TypeOK
  <2>5. \A v \in 1 .. Len(log') : v <= last_legacy_version'
    BY <1>a, <2>3, <2>4
  <2>6. ValidationInputs' /\ NoLostUpdate'
    BY <1>12, <2>0, <2>5 DEF legacy_publish, local, ValidationInputs, NoLostUpdate
  <2> QED BY <2>2, <2>6 DEF Validation
<1>13. ASSUME NEW v \in Views, NEW n \in 1 .. current.version, pin(v, n),
              n = current.version \/ \E g \in registered : start[g] <= n
       PROVE  Validation'
  <2>1. v \in Handles \ registered
    BY <1>13, <1>a DEF pin
  <2> QED BY <1>13, <2>1, PinPreserves DEF pin
<1>14. ASSUME NEW v \in Views, drop_view(v) PROVE Validation'
  BY <1>14, RetirePreserves DEF drop_view
<1>15. ASSUME NEW w \in Legacy, legacy_apply(w) \/ legacy_fail(w) PROVE Validation'
  BY <1>15, <1>11 DEF legacy_apply, legacy_fail
<1>16. CASE UNCHANGED vars
  BY <1>16, <1>11 DEF vars, shared
<1>17. ASSUME NEW v \in Views, version_view(v) \/ \E n \in 1 .. MaxVersion : version_view_at(v, n)
       PROVE  Validation'
  BY <1>17, <1>13, <1>a, DataAssumption DEF version_view, version_view_at
<1> QED
  BY <1>1, <1>2, <1>3, <1>4, <1>5, <1>6, <1>7, <1>8, <1>9, <1>10, <1>12, <1>14, <1>15, <1>16, <1>17
  DEF Next, commit_step, legacy_step, insert, delete

\* The inductive invariant of commit validation holds in every state.
THEOREM ValidationInvariant == Spec => [](TypeOK /\ Validation)
<1>1. Init => TypeOK /\ Validation
  BY TypeInit, ValidationInit
<1>2. TypeOK /\ Validation /\ [Next]_vars => (TypeOK /\ Validation)'
  BY TypeNext, ValidationNext
<1> QED BY <1>1, <1>2, PTL DEF Spec

\* First committer wins, for any number of transactions, views and writers:
\* commit validation never misses a committed write or a legacy write, although
\* it reads only the history that garbage collection kept.
THEOREM FirstCommitterWins == Spec => []NoLostUpdate
BY ValidationInvariant, PTL DEF Validation

\* The documented bound on history's memory: each entry is still needed.
THEOREM HistoryBound == Spec => []HistoryIsBounded
BY ValidationInvariant, PTL DEF Validation

-----------------------------------------------------------------------------
(* Least and greatest numbers of a set: induction over data without an     *)
(* operator parameter.                                                     *)

\* A nonempty set of naturals has a least element.
LEMMA LeastElement ==
  ASSUME NEW T, T \subseteq Nat, T # {}
  PROVE  \E x \in T : \A y \in T : x <= y
<1> DEFINE R == {ss \in Nat \X Nat : ss[1] < ss[2]}
<1>1. IsWellFoundedOn(R, Nat)
  BY NatLessThanWellFounded, Zenon DEF OpToRel
<1> HIDE DEF R
<1>2. PICK x \in T : \A y \in T : ~ (<<y, x>> \in R)
  BY <1>1, WFMin, Zenon
<1>3. ASSUME NEW y \in T, y < x PROVE FALSE
  <2>1. <<y, x>> \in R
    BY <1>3 DEF R
  <2> QED BY <1>2, <2>1
<1> QED BY <1>3

\* A nonempty bounded set of naturals has a greatest element.
LEMMA GreatestElement ==
  ASSUME NEW n \in Nat, NEW T, T \subseteq 0 .. n, T # {}
  PROVE  \E x \in T : \A y \in T : y <= x
<1> DEFINE B == {m \in Nat : \A y \in T : y <= m}
<1>1. n \in B
  OBVIOUS
<1>2. PICK m \in B : \A b \in B : m <= b
  <2>1. B \subseteq Nat /\ B # {}
    BY <1>1
  <2> HIDE DEF B
  <2> QED BY <2>1, LeastElement
<1>3. m \in T
  <2> SUFFICES ASSUME m \notin T PROVE FALSE
    OBVIOUS
  <2>1. \A y \in T : y \in Nat /\ y < m
    BY <1>2
  <2>2. m \in Nat /\ m > 0
    <3>1. PICK y \in T : y \in Nat /\ y < m
      BY <2>1
    <3> QED BY <3>1
  <2>3. m - 1 \in Nat /\ \A y \in T : y <= m - 1
    <3> HIDE DEF B
    <3> QED BY <2>1, <2>2
  <2>4. m - 1 \in B
    BY <2>3
  <2> QED BY <1>2, <2>2, <2>4
<1> QED BY <1>2, <1>3

-----------------------------------------------------------------------------
(* Version chains.                                                         *)

\* A reader finds a record as soon as the chain has one old enough.
LEMMA VisibleExists ==
  ASSUME NEW recs \in Chain, NEW n \in 1 .. MaxVersion, NEW q \in recs, q.version <= n
  PROVE  \E r \in visible(recs, n) : q.version <= r.version
<1> DEFINE T == {r.version : r \in {p \in recs : p.version <= n}}
<1>1. T \subseteq 0 .. n /\ T # {} /\ n \in Nat
  BY DataAssumption DEF Chain
<1>2. PICK x \in T : \A y \in T : y <= x
  <2> HIDE DEF T
  <2> QED BY <1>1, GreatestElement
<1>3. PICK r \in recs : r.version <= n /\ r.version = x
  BY <1>2
<1> QED BY <1>2, <1>3 DEF visible

\* Draining a chain changes nothing that a reader at a retained version sees.
LEMMA DrainKeepsVisible ==
  ASSUME NEW recs \in Chain, NEW live \in [1 .. MaxVersion -> Nat], NEW n \in 1 .. MaxVersion,
         \/ \E s \in 1 .. MaxVersion : live[s] > 0 /\ s <= n
         \/ \A r \in recs : r.version <= n
  PROVE  visible(drain(recs, live), n) = visible(recs, n)
<1>0. /\ \A r \in recs : r.version \in Nat
      /\ drain(recs, live) \subseteq recs /\ drain(recs, live) \in Chain
  BY DataAssumption DEF Chain, drain
<1>1. ASSUME NEW r \in visible(recs, n) PROVE r \in visible(drain(recs, live), n)
  <2>1. r \in recs /\ r.version <= n /\ \A q \in recs : q.version <= n => q.version <= r.version
    BY DEF visible
  <2>2. ASSUME NEW q \in recs, at_or_below_floor(q.version, live), q.version > r.version
        PROVE  FALSE
    <3>1. q.version <= n
      BY <1>0, <2>2, DataAssumption DEF at_or_below_floor
    <3> QED BY <1>0, <2>1, <2>2, <3>1
  <2>3. r \in drain(recs, live)
    BY <2>1, <2>2 DEF drain
  <2> QED BY <1>0, <2>1, <2>3 DEF visible
<1>2. ASSUME NEW r \in visible(drain(recs, live), n) PROVE r \in visible(recs, n)
  <2>1. /\ r \in recs /\ r.version <= n
        /\ \A q \in drain(recs, live) : q.version <= n => q.version <= r.version
    BY <1>0 DEF visible
  <2>2. ASSUME NEW q \in recs, q.version <= n PROVE q.version <= r.version
    <3>1. PICK p \in visible(recs, n) : q.version <= p.version
      BY <2>2, VisibleExists
    <3>2. p \in drain(recs, live) /\ p.version <= n
      BY <1>1 DEF visible
    <3> QED BY <1>0, <2>1, <3>1, <3>2
  <2> QED BY <2>1, <2>2 DEF visible
<1> QED BY <1>1, <1>2

\* VersionedStore::gc answers every retained reader as before.
LEMMA CollectedChain ==
  ASSUME TypeOK, NEW live \in [1 .. MaxVersion -> Nat], NEW n \in 1 .. MaxVersion, NEW k \in Keys,
         \/ \E s \in 1 .. MaxVersion : live[s] > 0 /\ s <= n
         \/ \A r \in chains[k] : r.version <= n
  PROVE  /\ gc_versions(live)[k] \subseteq chains[k]
         /\ Resolves(gc_versions(live)[k], k, n) <=> Resolves(chains[k], k, n)
<1> DEFINE kept == drain(chains[k], live)
<1>0. chains[k] \in Chain
  BY DEF TypeOK, Chain
<1>1. visible(kept, n) = visible(chains[k], n) /\ kept \subseteq chains[k]
  <2>1. kept \subseteq chains[k]
    BY DEF drain
  <2> QED BY <1>0, <2>1, DrainKeepsVisible
<1>2. gc_versions(live)[k] = IF redundant(k, kept) THEN {} ELSE kept
  BY DEF gc_versions
<1> HIDE DEF kept
<1>3. CASE ~redundant(k, kept)
  BY <1>1, <1>2, <1>3 DEF Resolves
<1>4. CASE redundant(k, kept)
  <2>1. PICK r \in kept : kept = {r} /\ ((r.op = "Insert") <=> (k \in Base))
    BY <1>4 DEF redundant
  <2>2. visible({}, n) = {} /\ visible(kept, n) \subseteq {r}
    BY <2>1 DEF visible
  <2> QED BY <1>1, <1>2, <1>4, <2>1, <2>2 DEF Resolves
<1> QED BY <1>3, <1>4

\* After a handle is retired, live_starts is positive exactly at the versions
\* that some handle is still registered at.
LEMMA RetireLive ==
  ASSUME TypeOK, PinsAreCounted, NEW h \in registered, NEW hist, retire(h, hist)
  PROVE  /\ live_starts' = deregister(start[h])
         /\ live_starts' \in [1 .. MaxVersion -> Nat]
         /\ \A g \in registered' :
              g \in registered /\ start'[g] = start[g] /\ start[g] \in 1 .. current.version
         /\ \A v \in 1 .. MaxVersion : live_starts'[v] > 0 <=> \E g \in registered' : start'[g] = v
<1>0. /\ live_starts' = deregister(start[h]) /\ registered' = registered \ {h}
      /\ start' = [start EXCEPT ![h] = 0]
  BY DEF retire
<1>1. PinsAreCounted'
  BY RetireCounts
<1>2. live_starts' \in [1 .. MaxVersion -> Nat]
  <2>1. start[h] \in 1 .. MaxVersion
    BY DataAssumption DEF TypeOK
  <2> QED BY <1>0, <2>1 DEF TypeOK, deregister
<1>3. ASSUME NEW v \in 1 .. MaxVersion
      PROVE  live_starts'[v] > 0 <=> \E g \in registered' : start'[g] = v
  <2> DEFINE Q == {g \in registered' : start'[g] = v}
  <2>1. live_starts'[v] = Cardinality(Q)
    BY <1>1 DEF PinsAreCounted
  <2>2. IsFiniteSet(Q)
    BY <1>0, HandlesAssumption, FS_Subset DEF TypeOK
  <2>3. Cardinality(Q) \in Nat /\ (Cardinality(Q) = 0 <=> Q = {})
    BY <2>2, FS_EmptySet, FS_CardinalityType
  <2>4. Q # {} <=> \E g \in registered' : start'[g] = v
    OBVIOUS
  <2> HIDE DEF Q
  <2> QED BY <2>1, <2>3, <2>4
<1>4. \A g \in registered' :
         g \in registered /\ start'[g] = start[g] /\ start[g] \in 1 .. current.version
  BY <1>0 DEF TypeOK
<1> QED BY <1>0, <1>2, <1>3, <1>4

Versions == ChainsAreExact /\ ChainsAreOrdered

\* A collection while no commit is between publish and record.
LEMMA RetireVersions ==
  ASSUME TypeOK, PinsAreCounted, Versions, NEW h \in registered, NEW hist, retire(h, hist),
         log' = log, \A t \in Txns : pc[t] # "record" /\ pc'[t] \notin {"record", "finish"}
  PROVE  Versions'
<1>0. /\ Len(log) = current.version /\ current.version \in 1 .. MaxVersion /\ MaxVersion \in Nat
      /\ \A v \in 1 .. current.version : v \in 1 .. MaxVersion
  BY DataAssumption DEF TypeOK
<1>1. chains' = gc_versions(live_starts')
  BY RetireLive DEF retire
<1>2. \A k \in Keys : chains'[k] \subseteq chains[k]
  BY <1>1 DEF gc_versions, drain
<1>3. ChainsAreOrdered'
  BY <1>2 DEF Versions, ChainsAreOrdered, Recording
<1>4. ASSUME NEW n \in 1 .. Len(log), NEW k \in Keys,
             n = Len(log) \/ (n < Len(log) /\ \E g \in registered' : start'[g] <= n)
      PROVE  Resolves(chains'[k], k, n) <=> k \in log[n].chained
  <2>1. n = Len(log) \/ (n < Len(log) /\ \E g \in registered : start[g] <= n)
    BY <1>4, RetireLive
  <2>2. Resolves(chains[k], k, n) <=> k \in log[n].chained
    BY <2>1 DEF Versions, ChainsAreExact, Recording
  <2>3. \/ \E s \in 1 .. MaxVersion : live_starts'[s] > 0 /\ s <= n
        \/ \A r \in chains[k] : r.version <= n
    <3>1. CASE n = Len(log)
      BY <3>1 DEF Versions, ChainsAreOrdered
    <3>2. CASE n # Len(log)
      BY <1>0, <1>4, <3>2, RetireLive
    <3> QED BY <3>1, <3>2
  <2> QED BY <1>0, <1>1, <2>2, <2>3, CollectedChain, RetireLive
<1>5. ChainsAreExact'
  BY <1>4 DEF ChainsAreExact
<1> QED BY <1>3, <1>5 DEF Versions

\* A handle pinned at the newest version, or at one that is retained already.
LEMMA PinVersions ==
  ASSUME TypeOK, Versions, occ = NoOwner, NEW h \in Handles, NEW n \in 1 .. current.version,
         n = current.version \/ \E g \in registered : start[g] <= n,
         start' = [start EXCEPT ![h] = n], registered' = registered \cup {h}, h \notin registered,
         UNCHANGED <<log, chains>>, \A t \in Txns : pc'[t] = pc[t] \/ pc'[t] = "open"
  PROVE  Versions'
<1>0. /\ Len(log) = current.version /\ current.version \in Nat
      /\ start \in [Handles -> 0 .. current.version] /\ registered \subseteq Handles
  BY DEF TypeOK
<1>1. \A t \in Txns : pc[t] \notin {"record", "finish"} /\ pc'[t] \notin {"record", "finish"}
  BY OneCommitter
<1>2. ChainsAreOrdered'
  BY <1>1 DEF Versions, ChainsAreOrdered, Recording
<1>3. ASSUME NEW m \in 1 .. Len(log), NEW g \in registered', start'[g] <= m
      PROVE  m = Len(log) \/ (m < Len(log) /\ \E f \in registered : start[f] <= m)
  BY <1>0, <1>3
<1>4. ChainsAreExact'
  BY <1>1, <1>3 DEF Versions, ChainsAreExact, Recording
<1> QED BY <1>2, <1>4 DEF Versions

\* A new version: no chain has a record of it yet, so it answers like the one
\* before it.
LEMMA NewVersion ==
  ASSUME TypeOK, ChainsAreOrdered, NEW k \in Keys
  PROVE  Resolves(chains[k], k, Len(log) + 1) <=> Resolves(chains[k], k, Len(log))
<1>1. chains[k] \in Chain /\ Len(log) \in Nat /\ \A r \in chains[k] : r.version <= Len(log)
  BY DEF TypeOK, Chain, ChainsAreOrdered
<1>2. \A r \in chains[k] : r.version \in Nat
  BY <1>1, DataAssumption DEF Chain
<1>3. visible(chains[k], Len(log) + 1) = visible(chains[k], Len(log))
  BY <1>1, <1>2 DEF visible
<1> QED BY <1>3 DEF Resolves

\* Nobody reads a version while its committer is between publish and record.
LEMMA VersionsPublish ==
  ASSUME TypeOK, Versions, NEW t \in Txns, commit_publish(t) PROVE Versions'
<1> DEFINE e == [data |-> db, chained |-> apply(buf[t], log[Len(log)].chained),
                 wrote |-> keys(t), legacy |-> FALSE]
<1>1. /\ log' = Append(log, e) /\ pc' = [pc EXCEPT ![t] = "record"] /\ chains' = chains /\ buf' = buf
      /\ e.chained = apply(buf[t], log[Len(log)].chained)
      /\ UNCHANGED <<start, registered>>
  BY DEF commit_publish, publish
<1> HIDE DEF e
<1>2. /\ Len(log') = Len(log) + 1 /\ log'[Len(log) + 1] = e /\ Len(log) \in Nat /\ Len(log) > 0
      /\ \A v \in 1 .. Len(log) : log'[v] = log[v]
      /\ start \in [Handles -> 0 .. Len(log)] /\ registered \subseteq Handles
  BY <1>1 DEF TypeOK
<1>3. \A u \in Txns : pc[u] \notin {"record", "finish"} /\ (pc'[u] \in {"record", "finish"} <=> u = t)
                      /\ (pc'[u] = "record" <=> u = t)
  BY <1>1, OneCommitter DEF TypeOK, commit_publish
<1>4. t \in registered /\ start[t] <= Len(log) /\ ~Recording /\ Recording'
  BY <1>2, <1>3 DEF TypeOK, commit_publish, Recording
<1>5. ChainsAreOrdered'
  <2>1. ASSUME NEW k \in Keys, NEW r \in chains[k]
        PROVE  r.version \in Nat /\ r.version <= Len(log) /\ \A q \in chains[k] : q.version = r.version => q = r
    BY DataAssumption DEF Versions, ChainsAreOrdered, TypeOK
  <2>2. \A k \in Keys : \A r \in chains[k] : r.version < Len(log') /\ r.version <= Len(log')
    BY <1>2, <2>1
  <2>3. \A h \in registered : start[h] < Len(log')
    BY <1>2
  <2>4. log'[Len(log')].chained = apply(buf[t], log'[Len(log') - 1].chained)
    BY <1>1, <1>2
  <2> QED BY <1>1, <1>3, <2>1, <2>2, <2>3, <2>4 DEF ChainsAreOrdered
<1>6. ChainsAreExact'
  <2> SUFFICES ASSUME NEW n \in 1 .. Len(log') , NEW k \in Keys, n # Len(log'),
                      \E h \in registered : start[h] <= n
               PROVE  Resolves(chains[k], k, n) <=> k \in log'[n].chained
    BY <1>1, <1>4 DEF ChainsAreExact
  <2>1. n \in 1 .. Len(log) /\ log'[n] = log[n]
    BY <1>2
  <2> QED BY <1>2, <1>4, <2>1 DEF Versions, ChainsAreExact
<1> QED BY <1>5, <1>6 DEF Versions

\* A chain with one record newer than the others.
LEMMA OneMoreRecord ==
  ASSUME NEW recs, NEW c, NEW both, both = recs \cup {c}, NEW m \in Nat, c.version = m,
         \A r \in recs : r.version \in Nat /\ r.version < m
  PROVE  /\ visible(both, m) = {c}
         /\ \A n \in Nat : n < m => visible(both, n) = visible(recs, n)
         /\ \A r \in both : r.version <= m /\ (r.version = m => r = c)
<1>1. \A r \in both : r.version \in Nat /\ r.version <= m /\ (r.version = m => r = c)
  OBVIOUS
<1>2. ASSUME NEW n \in Nat, n < m PROVE visible(both, n) = visible(recs, n)
  BY <1>1, <1>2 DEF visible
<1>3. visible(both, m) = {c}
  BY <1>1 DEF visible
<1> QED BY <1>1, <1>2, <1>3

\* Recording a commit: the written keys get its net state, the others keep the
\* answer of the version before.
LEMMA VersionsRecord ==
  ASSUME TypeOK, Versions, NEW t \in Txns, commit_record(t) PROVE Versions'
<1>1. /\ pc[t] = "record" /\ pc' = [pc EXCEPT ![t] = "finish"] /\ chains' = record(t)
      /\ UNCHANGED <<start, registered, log, buf, current>>
  BY DEF commit_record
<1>2. /\ Len(log) = current.version /\ Len(log) \in Nat /\ Len(log) \in 1 .. MaxVersion
      /\ start \in [Handles -> 0 .. Len(log)] /\ registered \subseteq Handles /\ t \in registered
      /\ start[t] > 0 /\ buf[t] \in [Keys -> {"none", "insert", "delete"}]
  BY <1>1, DataAssumption DEF TypeOK
<1>3. \A u \in Txns : (pc'[u] \in {"record", "finish"} => u = t) /\ pc'[u] # "record"
  BY <1>1, OneCommitter DEF TypeOK
<1>4. /\ \A h \in registered : start[h] < Len(log)
      /\ log[Len(log)].chained = apply(buf[t], log[Len(log) - 1].chained)
      /\ Recording /\ ~Recording'
  BY <1>1, <1>3 DEF Versions, ChainsAreOrdered, Recording
<1>5. ASSUME NEW k \in Keys
      PROVE  /\ chains[k] \in Chain
             /\ \A r \in chains[k] : /\ r.version \in Nat /\ r.version < Len(log)
                                     /\ \A q \in chains[k] : q.version = r.version => q = r
  BY <1>4, DataAssumption DEF Versions, ChainsAreOrdered, TypeOK, Chain
<1>m. PICK m \in Nat : m = Len(log)
  BY <1>2
<1>6. ASSUME NEW k \in Keys, k \in keys(t)
      PROVE  \E c, both : /\ both = chains'[k] /\ both = chains[k] \cup {c} /\ c.version = m
                          /\ c.op = "Insert" <=> buf[t][k] = "insert"
  <2> DEFINE new == [version |-> Len(log), op |-> IF buf[t][k] = "insert" THEN "Insert" ELSE "Tombstone"]
  <2>1. chains'[k] = chains[k] \cup {new}
    BY <1>1, <1>2, <1>6 DEF record
  <2>2. new.version = m /\ (new.op = "Insert" <=> buf[t][k] = "insert")
    BY <1>m
  <2> HIDE DEF new
  <2> QED BY <2>1, <2>2
<1>u. \A k \in Keys : k \notin keys(t) => chains'[k] = chains[k]
  BY <1>1 DEF record
<1>7. ASSUME NEW k \in Keys
      PROVE  /\ \A r \in chains'[k] : /\ r.version <= Len(log)
                                      /\ \A q \in chains'[k] : q.version = r.version => q = r
             /\ \A n \in Nat : n < Len(log) => visible(chains'[k], n) = visible(chains[k], n)
  <2>1. CASE k \in keys(t)
    <3>1. PICK c, both : /\ both = chains'[k] /\ both = chains[k] \cup {c} /\ c.version = m
      BY <1>6, <2>1
    <3>2. \A r \in chains[k] : r.version \in Nat /\ r.version < m
      BY <1>5, <1>m
    <3>3. /\ \A n \in Nat : n < m => visible(both, n) = visible(chains[k], n)
          /\ \A r \in both : r.version <= m /\ (r.version = m => r = c)
      <4>1. PICK recs : recs = chains[k]
        OBVIOUS
      <4>2. both = recs \cup {c} /\ c.version = m /\ \A r \in recs : r.version \in Nat /\ r.version < m
        BY <3>1, <3>2, <4>1
      <4>3. /\ \A n \in Nat : n < m => visible(both, n) = visible(recs, n)
            /\ \A r \in both : r.version <= m /\ (r.version = m => r = c)
        BY <4>2, OneMoreRecord
      <4> QED BY <4>1, <4>3
    <3>4. ASSUME NEW r \in both, NEW q \in both, q.version = r.version PROVE q = r
      BY <1>5, <3>1, <3>2, <3>4
    <3> QED BY <1>m, <3>1, <3>3, <3>4
  <2>2. CASE k \notin keys(t)
    BY <1>2, <1>5, <1>u, <2>2
  <2> QED BY <2>1, <2>2
<1>8. ChainsAreOrdered'
  BY <1>1, <1>3, <1>4, <1>7 DEF ChainsAreOrdered
<1>9. ASSUME NEW n \in 1 .. Len(log), NEW k \in Keys, n < Len(log), \E h \in registered : start[h] <= n
      PROVE  Resolves(chains'[k], k, n) <=> k \in log[n].chained
  <2>1. Resolves(chains[k], k, n) <=> k \in log[n].chained
    BY <1>9 DEF Versions, ChainsAreExact
  <2>2. visible(chains'[k], n) = visible(chains[k], n)
    BY <1>2, <1>7, <1>9
  <2> QED BY <2>1, <2>2 DEF Resolves
<1>10. ASSUME NEW k \in Keys PROVE Resolves(chains'[k], k, Len(log)) <=> k \in log[Len(log)].chained
  <2>1. CASE k \in keys(t)
    <3>1. PICK c, both : /\ both = chains'[k] /\ both = chains[k] \cup {c} /\ c.version = m
                         /\ c.op = "Insert" <=> buf[t][k] = "insert"
      BY <1>6, <2>1
    <3>2. \A r \in chains[k] : r.version \in Nat /\ r.version < m
      BY <1>5, <1>m
    <3>3. visible(both, m) = {c}
      <4>1. PICK recs : recs = chains[k]
        OBVIOUS
      <4>2. both = recs \cup {c} /\ c.version = m /\ \A r \in recs : r.version \in Nat /\ r.version < m
        BY <3>1, <3>2, <4>1
      <4> QED BY <4>2, OneMoreRecord
    <3>4. k \in log[Len(log)].chained <=> buf[t][k] = "insert"
      BY <1>4, <2>1 DEF apply, keys
    <3> QED BY <1>m, <3>1, <3>3, <3>4 DEF Resolves
  <2>2. CASE k \notin keys(t)
    <3>1. Len(log) - 1 \in 1 .. Len(log) /\ start[t] <= Len(log) - 1 /\ Len(log) - 1 < Len(log)
      BY <1>2, <1>4
    <3>2. Resolves(chains[k], k, Len(log) - 1) <=> k \in log[Len(log) - 1].chained
      BY <1>2, <3>1 DEF Versions, ChainsAreExact
    <3>3. k \in log[Len(log)].chained <=> k \in log[Len(log) - 1].chained
      BY <1>2, <1>4, <2>2 DEF apply, keys
    <3>4. visible(chains[k], Len(log)) = visible(chains[k], Len(log) - 1)
      BY <1>2, <1>5 DEF visible
    <3> QED BY <1>u, <2>2, <3>2, <3>3, <3>4 DEF Resolves
  <2> QED BY <2>1, <2>2
<1>11. ChainsAreExact'
  BY <1>1, <1>2, <1>9, <1>10 DEF ChainsAreExact
<1> QED BY <1>8, <1>11 DEF Versions

\* A legacy write publishes a version whose transactional state is unchanged.
LEMMA VersionsLegacy ==
  ASSUME TypeOK, Versions, NEW w \in Legacy, legacy_publish(w) PROVE Versions'
<1> DEFINE e == [data |-> db, chained |-> log[Len(log)].chained, wrote |-> Keys, legacy |-> TRUE]
<1>1. /\ log' = Append(log, e) /\ e.chained = log[Len(log)].chained
      /\ UNCHANGED <<start, registered, pc, buf, chains>>
  BY DEF legacy_publish, publish, local
<1> HIDE DEF e
<1>2. /\ Len(log') = Len(log) + 1 /\ log'[Len(log) + 1] = e /\ Len(log) \in Nat /\ Len(log) \in 1 .. Len(log)
      /\ \A v \in 1 .. Len(log) : log'[v] = log[v]
  BY <1>1 DEF TypeOK
<1>3. (\A u \in Txns : pc[u] \notin {"record", "finish"}) /\ ~Recording /\ ~Recording'
  BY <1>1, OneCommitter DEF legacy_publish, Recording
<1>4. ChainsAreOrdered'
  <2>1. ASSUME NEW k \in Keys, NEW r \in chains[k]
        PROVE  r.version \in Nat /\ r.version <= Len(log) /\ \A q \in chains[k] : q.version = r.version => q = r
    BY DataAssumption DEF Versions, ChainsAreOrdered, TypeOK
  <2> QED BY <1>1, <1>2, <1>3, <2>1 DEF ChainsAreOrdered
<1>5. ASSUME NEW n \in 1 .. Len(log'), NEW k \in Keys,
             n = Len(log') \/ \E h \in registered : start[h] <= n
      PROVE  Resolves(chains[k], k, n) <=> k \in log'[n].chained
  <2>1. CASE n \in 1 .. Len(log)
    BY <1>2, <1>3, <1>5, <2>1 DEF Versions, ChainsAreExact
  <2>2. CASE n = Len(log) + 1
    <3>1. Resolves(chains[k], k, Len(log)) <=> k \in log[Len(log)].chained
      BY <1>2, <1>3 DEF Versions, ChainsAreExact
    <3>2. log'[n].chained = log[Len(log)].chained
      BY <1>1, <1>2, <2>2
    <3> QED BY <2>2, <3>1, <3>2, NewVersion DEF Versions
  <2> QED BY <1>2, <2>1, <2>2
<1>6. ChainsAreExact'
  BY <1>1, <1>5 DEF ChainsAreExact
<1> QED BY <1>4, <1>6 DEF Versions

\* Every operation keeps the chains exact and ordered.
LEMMA VersionsNext == TypeOK /\ Validation /\ Versions /\ [Next]_vars => Versions'
<1> SUFFICES ASSUME TypeOK, Validation, Versions, [Next]_vars PROVE Versions'
  OBVIOUS
<1>a. /\ Txns \subseteq Handles /\ Views \subseteq Handles /\ current.version \in 1 .. current.version
      /\ pc \in [Txns -> {"idle", "open", "locked", "publish", "record", "finish"}] /\ PinsAreCounted
  BY DEF TypeOK, Handles, Validation
<1>1. ASSUME UNCHANGED <<log, chains, start, registered>>,
             \A t \in Txns : /\ pc'[t] \in {"record", "finish"} <=> pc[t] \in {"record", "finish"}
                             /\ pc'[t] = "record" <=> pc[t] = "record"
                             /\ pc[t] = "record" => buf'[t] = buf[t]
      PROVE  Versions'
  BY <1>1 DEF Versions, ChainsAreExact, ChainsAreOrdered, Recording
<1>2. ASSUME NEW t \in Txns, NEW l \in Levels, begin_with(t, l) PROVE Versions'
  BY <1>2, <1>a, PinVersions DEF begin_with, TypeOK
<1>3. ASSUME NEW t \in Txns, NEW k \in Keys, NEW op \in {"insert", "delete"}, buffer(t, k, op)
      PROVE  Versions'
  BY <1>1, <1>3 DEF buffer, shared, TypeOK
<1>4. ASSUME NEW t \in Txns, NEW k \in Keys, read(t, k) PROVE Versions'
  BY <1>1, <1>4 DEF read, shared
<1>5. ASSUME NEW t \in Txns, commit_lock(t) \/ commit_apply(t) PROVE Versions'
  BY <1>1, <1>5, <1>a DEF commit_lock, commit_apply
<1>6. ASSUME NEW t \in Txns, commit_conflict(t) \/ drop_txn(t) PROVE Versions'
  <2>1. t \in registered /\ occ = NoOwner /\ retire(t, history) /\ log' = log /\ pc' = [pc EXCEPT ![t] = "idle"]
    BY <1>6 DEF commit_conflict, drop_txn, consumed, TypeOK
  <2>2. \A u \in Txns : pc[u] # "record" /\ pc'[u] \notin {"record", "finish"}
    BY <1>a, <2>1, OneCommitter
  <2> QED BY <1>a, <2>1, <2>2, RetireVersions
<1>7. ASSUME NEW t \in Txns, commit_finish(t) PROVE Versions'
  <2>1. /\ t \in registered /\ pc[t] = "finish" /\ log' = log /\ pc' = [pc EXCEPT ![t] = "idle"]
        /\ \E hist : retire(t, hist)
    BY <1>7 DEF commit_finish, consumed, TypeOK
  <2>2. \A u \in Txns : pc[u] # "record" /\ pc'[u] \notin {"record", "finish"}
    BY <1>a, <2>1, OneCommitter
  <2> QED BY <1>a, <2>1, <2>2, RetireVersions
<1>8. ASSUME NEW w \in Legacy, legacy_apply(w) \/ legacy_fail(w) PROVE Versions'
  BY <1>1, <1>8 DEF legacy_apply, legacy_fail, local
<1>9. ASSUME NEW v \in Views, NEW n \in 1 .. current.version, pin(v, n),
             n = current.version \/ \E g \in registered : start[g] <= n
      PROVE  Versions'
  BY <1>9, <1>a, PinVersions DEF pin
<1>10. ASSUME NEW v \in Views, drop_view(v) PROVE Versions'
  <2>1. \A u \in Txns : pc[u] # "record" /\ pc'[u] \notin {"record", "finish"}
    BY <1>10, OneCommitter DEF drop_view
  <2> QED BY <1>10, <1>a, <2>1, RetireVersions DEF drop_view
<1>11. ASSUME NEW v \in Views, version_view(v) \/ \E n \in 1 .. MaxVersion : version_view_at(v, n)
       PROVE  Versions'
  BY <1>9, <1>11, <1>a, DataAssumption DEF version_view, version_view_at, TypeOK
<1>12. CASE UNCHANGED vars
  BY <1>1, <1>12 DEF vars, shared, local
<1> QED
  BY <1>2, <1>3, <1>4, <1>5, <1>6, <1>7, <1>8, <1>10, <1>11, <1>12,
     VersionsPublish, VersionsRecord, VersionsLegacy
  DEF Next, commit_step, legacy_step, insert, delete

\* The chains are empty and every key is as in the base.
LEMMA VersionsInit == Init => Versions
<1> SUFFICES ASSUME Init PROVE Versions
  OBVIOUS
<1>1. /\ Len(log) = 1 /\ log[1].chained = Base /\ \A k \in Keys : chains[k] = {}
      /\ registered = {} /\ \A t \in Txns : pc[t] = "idle"
  BY DEF Init
<1>2. \A k \in Keys : visible(chains[k], 1) = {}
  BY <1>1 DEF visible
<1>3. ChainsAreExact
  BY <1>1, <1>2 DEF ChainsAreExact, Resolves
<1>4. ChainsAreOrdered
  BY <1>1 DEF ChainsAreOrdered, Recording
<1> QED BY <1>3, <1>4 DEF Versions

\* A registered view is pinned at a version the chains answer exactly.
LEMMA VersionsViews == TypeOK /\ Versions => ViewsAreStable
<1> SUFFICES ASSUME TypeOK, Versions, NEW v \in Views \cap registered, NEW k \in Keys
             PROVE  view_contains(v, k) <=> k \in log[start[v]].chained
  BY DEF ViewsAreStable
<1>1. start[v] \in 1 .. Len(log) /\ Len(log) \in Nat
  BY DEF TypeOK
<1>2. start[v] = Len(log) => ~Recording
  BY <1>1 DEF Versions, ChainsAreOrdered, Recording
<1>3. Resolves(chains[k], k, start[v]) <=> k \in log[start[v]].chained
  BY <1>1, <1>2 DEF Versions, ChainsAreExact
<1> QED BY <1>3 DEF view_contains, Resolves

\* The inductive invariant of the version chains holds in every state.
THEOREM VersionInvariant == Spec => [](TypeOK /\ Validation /\ Versions)
<1>1. Init => TypeOK /\ Validation /\ Versions
  BY TypeInit, ValidationInit, VersionsInit
<1>2. TypeOK /\ Validation /\ Versions /\ [Next]_vars => (TypeOK /\ Validation /\ Versions)'
  BY TypeNext, ValidationNext, VersionsNext
<1> QED BY <1>1, <1>2, PTL DEF Spec

\* Version-pinned reads are repeatable for any number of views, transactions
\* and writers: neither a commit in progress nor garbage collection changes
\* what an open view answers.
THEOREM StableViews == Spec => []ViewsAreStable
BY VersionInvariant, VersionsViews, PTL

-----------------------------------------------------------------------------
(* Commits against the present.                                            *)

Freshness == DatabaseIsOwned /\ SnapshotsAge /\ ConflictsAreReal /\ UnusedIsClean /\ ReadsAreUnwritten

\* The base is the first version and the database, and no handle is in use.
LEMMA FreshnessInit == Init => Freshness
<1> SUFFICES ASSUME Init PROVE Freshness
  OBVIOUS
<1>1. Len(log) = 1 /\ log[1].data = Base /\ current.data = Base /\ db = Base /\ \A t \in Txns : pc[t] = "idle"
  BY DEF Init
<1>2. DatabaseIsOwned
  BY <1>1 DEF DatabaseIsOwned
<1>3. SnapshotsAge /\ ReadsAreUnwritten
  BY <1>1 DEF SnapshotsAge, Deciding, ReadsAreUnwritten
<1>4. ConflictsAreReal /\ UnusedIsClean
  BY DEF Init, ConflictsAreReal, UnusedIsClean
<1> QED BY <1>2, <1>3, <1>4 DEF Freshness

\* What a collection leaves of a sound history is sound; the retired handle
\* holds nothing.
LEMMA RetireFresh ==
  ASSUME TypeOK, Freshness, NEW h \in registered, NEW hist, retire(h, hist),
         \A v \in DOMAIN hist : hist[v] = log[v].wrote, UNCHANGED <<log, last_legacy_version>>
  PROVE  /\ ConflictsAreReal'
         /\ \A g \in Handles \ registered' : start'[g] = 0
<1>1. \A v \in DOMAIN history' : history'[v] = log[v].wrote
  <2> DEFINE R == {v \in DOMAIN hist : ~at_or_below_floor(v, deregister(start[h]))}
  <2>1. history' = [v \in R |-> hist[v]]
    BY DEF retire, gc_history, Restrict
  <2>2. R \subseteq DOMAIN hist
    OBVIOUS
  <2> HIDE DEF R
  <2> QED BY <2>1, <2>2
<1>2. \A g \in Handles \ registered' : start'[g] = 0
  BY DEF retire, TypeOK, Freshness, UnusedIsClean
<1> QED BY <1>1, <1>2 DEF ConflictsAreReal, Freshness

\* A transaction that ends, at a moment when nobody is past validation or it is
\* itself the one that published.
LEMMA EndFresh ==
  ASSUME TypeOK, Freshness, NEW t \in Txns, pc[t] \in {"open", "locked", "finish"},
         occ = NoOwner \/ pc[t] = "finish", \E r : consumed(t, r),
         writer' = NoOwner \/ writer' = writer, pc[t] = "open" => writer' = writer,
         ConflictsAreReal', \A g \in Handles \ registered' : start'[g] = 0,
         start' = [start EXCEPT ![t] = 0], UNCHANGED <<db, current, log>>
  PROVE  Freshness'
<1>1. /\ pc' = [pc EXCEPT ![t] = "idle"] /\ snap' = [snap EXCEPT ![t] = {}]
      /\ buf' = [buf EXCEPT ![t] = NoWrites] /\ reads' = [reads EXCEPT ![t] = {}]
      /\ level' = [level EXCEPT ![t] = "RepeatableRead"]
  BY DEF consumed
<1>2. /\ pc'[t] = "idle" /\ buf'[t] = NoWrites /\ reads'[t] = {}
      /\ \A u \in Txns : u # t => /\ pc'[u] = pc[u] /\ snap'[u] = snap[u] /\ buf'[u] = buf[u]
                                  /\ reads'[u] = reads[u] /\ level'[u] = level[u] /\ start'[u] = start[u]
  BY <1>1 DEF TypeOK, Handles
<1>3. \A u \in Txns : pc[u] # "publish" /\ pc'[u] # "publish"
  BY <1>2, OneCommitter
<1>4. DatabaseIsOwned'
  <2>1. writer \in Legacy => writer' \in Legacy
    BY HandlesAssumption DEF TypeOK
  <2> QED BY <1>3, <2>1 DEF Freshness, DatabaseIsOwned
<1>5. SnapshotsAge'
  BY <1>2 DEF Freshness, SnapshotsAge, Deciding
<1>6. ReadsAreUnwritten'
  BY <1>3 DEF ReadsAreUnwritten
<1>7. UnusedIsClean'
  BY <1>2 DEF Freshness, UnusedIsClean, NoWrites
<1> QED BY <1>4, <1>5, <1>6, <1>7 DEF Freshness

\* Publishing: what t's version changes is what it is recorded to have written.
LEMMA PublishFresh ==
  ASSUME TypeOK, Freshness, NEW t \in Txns, commit_publish(t) PROVE Freshness'
<1> DEFINE e == [data |-> db, chained |-> apply(buf[t], log[Len(log)].chained),
                 wrote |-> keys(t), legacy |-> FALSE]
<1>1. /\ log' = Append(log, e) /\ e.data = db /\ e.wrote = keys(t) /\ pc[t] = "publish"
      /\ pc' = [pc EXCEPT ![t] = "record"] /\ current'.data = db
      /\ UNCHANGED <<writer, db, history, last_legacy_version, level, snap, buf, reads, start, registered>>
  BY DEF commit_publish, publish
<1> HIDE DEF e
<1>2. /\ Len(log') = Len(log) + 1 /\ log'[Len(log) + 1] = e /\ Len(log) \in Nat
      /\ \A v \in 1 .. Len(log) : log'[v] = log[v]
      /\ start \in [Handles -> 0 .. Len(log)] /\ DOMAIN history \subseteq 1 .. Len(log)
      /\ last_legacy_version \in 0 .. Len(log) /\ Txns \subseteq Handles
      /\ writer = t /\ writer \notin Legacy /\ db \subseteq Keys
  BY <1>1, HandlesAssumption DEF TypeOK, Handles
<1>3. \A u \in Txns : pc'[u] # "publish" /\ pc[u] \notin {"record", "finish"} /\ (u # t => pc'[u] = pc[u])
  BY <1>1, OneCommitter DEF TypeOK
<1>4. db = apply(buf[t], current.data)
  BY <1>1, <1>2 DEF Freshness, DatabaseIsOwned
<1>5. DatabaseIsOwned'
  BY <1>1, <1>2, <1>3 DEF DatabaseIsOwned
<1>6. SnapshotsAge'
  <2> SUFFICES ASSUME NEW u \in Txns, Deciding(u)', NEW k \in Keys
               PROVE  \/ (k \in snap[u]) <=> (k \in db)
                      \/ \E v \in (start[u] + 1) .. Len(log') : k \in log'[v].wrote
    BY <1>1 DEF SnapshotsAge
  <2>1. u # t /\ Deciding(u)
    BY <1>1, <1>3 DEF Deciding, TypeOK
  <2>2. CASE k \in keys(t)
    <3>1. Len(log') \in (start[u] + 1) .. Len(log') /\ k \in log'[Len(log')].wrote
      BY <1>1, <1>2, <2>2
    <3> QED BY <3>1
  <2>3. CASE k \notin keys(t)
    <3>1. k \in db <=> k \in current.data
      BY <1>4, <2>3 DEF apply, keys
    <3>2. CASE \E v \in (start[u] + 1) .. Len(log) : k \in log[v].wrote
      <4>1. PICK v \in (start[u] + 1) .. Len(log) : k \in log[v].wrote
        BY <3>2
      <4>2. v \in 1 .. Len(log) /\ v \in (start[u] + 1) .. Len(log')
        BY <1>2
      <4> QED BY <1>2, <4>1, <4>2
    <3> QED BY <2>1, <3>1, <3>2 DEF Freshness, SnapshotsAge
  <2> QED BY <2>2, <2>3
<1>7. ConflictsAreReal'
  BY <1>1, <1>2 DEF Freshness, ConflictsAreReal
<1>8. UnusedIsClean' /\ ReadsAreUnwritten'
  BY <1>1, <1>3 DEF Freshness, UnusedIsClean, ReadsAreUnwritten, TypeOK, NoWrites
<1> QED BY <1>5, <1>6, <1>7, <1>8 DEF Freshness

\* A legacy version counts as a write of every key.
LEMMA LegacyFresh ==
  ASSUME TypeOK, Freshness, NEW w \in Legacy, legacy_publish(w) PROVE Freshness'
<1> DEFINE e == [data |-> db, chained |-> log[Len(log)].chained, wrote |-> Keys, legacy |-> TRUE]
<1>1. /\ log' = Append(log, e) /\ e.data = db /\ e.wrote = Keys /\ e.legacy
      /\ current'.data = db /\ last_legacy_version' = current.version + 1 /\ occ = NoOwner
      /\ UNCHANGED <<db, history, pc, level, snap, buf, reads, start, registered>>
  BY DEF legacy_publish, publish, local
<1> HIDE DEF e
<1>2. /\ Len(log') = Len(log) + 1 /\ log'[Len(log) + 1] = e /\ Len(log) \in Nat
      /\ \A v \in 1 .. Len(log) : log'[v] = log[v]
      /\ start \in [Handles -> 0 .. Len(log)] /\ DOMAIN history \subseteq 1 .. Len(log)
      /\ Txns \subseteq Handles /\ Len(log) = current.version
  BY <1>1 DEF TypeOK, Handles
<1>3. \A u \in Txns : pc[u] \notin {"publish", "record", "finish"}
  BY <1>1, OneCommitter
<1>4. DatabaseIsOwned'
  BY <1>1, <1>2, <1>3 DEF DatabaseIsOwned
<1>5. SnapshotsAge'
  <2> SUFFICES ASSUME NEW u \in Txns, NEW k \in Keys
               PROVE  \E v \in (start[u] + 1) .. Len(log') : k \in log'[v].wrote
    BY <1>1 DEF SnapshotsAge
  <2>1. Len(log') \in (start[u] + 1) .. Len(log') /\ k \in log'[Len(log')].wrote
    BY <1>1, <1>2
  <2> QED BY <2>1
<1>6. ConflictsAreReal'
  BY <1>1, <1>2 DEF Freshness, ConflictsAreReal
<1>7. UnusedIsClean' /\ ReadsAreUnwritten'
  BY <1>1, <1>3 DEF Freshness, UnusedIsClean, ReadsAreUnwritten, NoWrites
<1> QED BY <1>4, <1>5, <1>6, <1>7 DEF Freshness

\* Validation: a serializable transaction that finds no conflict in history has
\* read nothing that a version after its start wrote.
LEMMA ApplyFresh ==
  ASSUME TypeOK, Validation, Freshness, NEW t \in Txns, commit_apply(t) PROVE Freshness'
<1>1. /\ pc[t] = "locked" /\ occ = NoOwner /\ ~in_conflict(t) /\ db' = apply(buf[t], db)
      /\ pc' = [pc EXCEPT ![t] = "publish"]
      /\ UNCHANGED <<writer, history, last_legacy_version, current, level, snap, buf, reads, start,
                     registered, log>>
  BY DEF commit_apply
<1>2. \A u \in Txns : pc[u] \notin {"publish", "record", "finish"} /\ (pc'[u] = "publish" <=> u = t)
                      /\ (u # t => pc'[u] = pc[u])
  BY <1>1, OneCommitter DEF TypeOK
<1>3. writer = t /\ t \notin Legacy /\ t \in registered
  BY <1>1, HandlesAssumption DEF TypeOK
<1>4. DatabaseIsOwned'
  BY <1>1, <1>2, <1>3 DEF Freshness, DatabaseIsOwned, apply
<1>5. SnapshotsAge'
  BY <1>1, <1>2 DEF Freshness, SnapshotsAge, Deciding
<1>6. ReadsAreUnwritten'
  <2> SUFFICES ASSUME level[t] = "Serializable", NEW v \in (start[t] + 1) .. Len(log),
                      log[v].wrote \cap reads[t] # {}
               PROVE  FALSE
    BY <1>1, <1>2 DEF ReadsAreUnwritten
  <2>1. v \in 1 .. Len(log) /\ v > start[t] /\ start[t] \in Nat /\ last_legacy_version \in Nat
    BY DEF TypeOK, Handles
  <2>2. ~log[v].legacy
    <3>1. ~(last_legacy_version > start[t])
      BY <1>1 DEF in_conflict, legacy_during, checks_write_write
    <3>2. log[v].legacy => v <= last_legacy_version
      BY <2>1 DEF Validation, ValidationInputs
    <3> QED BY <2>1, <3>1, <3>2
  <2>3. v \in DOMAIN history /\ history[v] = log[v].wrote
    BY <1>2, <1>3, <2>2 DEF Validation, HistoryIsComplete, Unfiled
  <2>4. ~rw_conflict(t)
    BY <1>1 DEF in_conflict
  <2> QED BY <2>1, <2>3, <2>4 DEF rw_conflict, checks_read_write
<1>7. ConflictsAreReal' /\ UnusedIsClean'
  BY <1>1, <1>2 DEF Freshness, ConflictsAreReal, UnusedIsClean, NoWrites
<1> QED BY <1>4, <1>5, <1>6, <1>7 DEF Freshness

\* Every step keeps commits current, if no update fails half way.
LEMMA FreshnessNext ==
  ASSUME ~UpdateMayFail PROVE TypeOK /\ Validation /\ Freshness /\ [Next]_vars => Freshness'
<1> SUFFICES ASSUME TypeOK, Validation, Freshness, [Next]_vars PROVE Freshness'
  OBVIOUS
<1>a. /\ Txns \subseteq Handles /\ Views \subseteq Handles /\ Len(log) = current.version
      /\ pc \in [Txns -> {"idle", "open", "locked", "publish", "record", "finish"}]
      /\ start \in [Handles -> 0 .. current.version] /\ Views \cap Txns = {} /\ Len(log) \in Nat
      /\ snap \in [Txns -> SUBSET Keys] /\ buf \in [Txns -> [Keys -> {"none", "insert", "delete"}]]
      /\ reads \in [Txns -> SUBSET Keys] /\ level \in [Txns -> Level]
  BY HandlesAssumption DEF TypeOK, Handles
<1>1. ASSUME UNCHANGED <<db, writer, current, history, last_legacy_version, level, snap, start, registered, log>>,
             \A t \in Txns : /\ pc'[t] = pc[t] /\ (pc[t] # "open" => buf'[t] = buf[t] /\ reads'[t] = reads[t])
      PROVE  Freshness'
  <2>1. DatabaseIsOwned'
    <3>1. (\E t \in Txns : pc[t] = "publish") => writer \in Txns /\ buf'[writer] = buf[writer]
      BY <1>1 DEF TypeOK
    <3>2. (\E t \in Txns : pc'[t] = "publish") <=> (\E t \in Txns : pc[t] = "publish")
      BY <1>1
    <3> QED BY <1>1, <3>1, <3>2 DEF Freshness, DatabaseIsOwned, apply
  <2>2. SnapshotsAge' /\ ConflictsAreReal' /\ UnusedIsClean'
    BY <1>1 DEF Freshness, SnapshotsAge, Deciding, ConflictsAreReal, UnusedIsClean, NoWrites
  <2>3. ReadsAreUnwritten'
    BY <1>1 DEF Freshness, ReadsAreUnwritten
  <2> QED BY <2>1, <2>2, <2>3 DEF Freshness
<1>2. ASSUME NEW t \in Txns, NEW l \in Levels, begin_with(t, l) PROVE Freshness'
  <2>1. /\ pc[t] = "idle" /\ occ = NoOwner /\ pc' = [pc EXCEPT ![t] = "open"]
        /\ snap' = [snap EXCEPT ![t] = current.data] /\ start' = [start EXCEPT ![t] = current.version]
        /\ registered' = registered \cup {t} /\ level' = [level EXCEPT ![t] = l]
        /\ UNCHANGED <<writer, db, history, last_legacy_version, current, buf, reads, log>>
    BY <1>2 DEF begin_with
  <2>2. \A u \in Txns : /\ pc[u] # "publish" /\ pc'[u] # "publish"
                        /\ u # t => pc'[u] = pc[u] /\ snap'[u] = snap[u] /\ start'[u] = start[u]
    BY <1>a, <2>1, OneCommitter
  <2>3. pc'[t] = "open" /\ snap'[t] = current.data
    BY <1>a, <2>1
  <2>4. DatabaseIsOwned' /\ ReadsAreUnwritten'
    BY <2>1, <2>2 DEF Freshness, DatabaseIsOwned, ReadsAreUnwritten
  <2>5. SnapshotsAge'
    BY <2>1, <2>2, <2>3 DEF Freshness, SnapshotsAge, Deciding
  <2>6. ConflictsAreReal' /\ UnusedIsClean'
    BY <1>a, <2>1, <2>2, <2>3 DEF Freshness, ConflictsAreReal, UnusedIsClean, NoWrites
  <2> QED BY <2>4, <2>5, <2>6 DEF Freshness
<1>3. ASSUME NEW t \in Txns, NEW k \in Keys, NEW op \in {"insert", "delete"}, buffer(t, k, op)
      PROVE  Freshness'
  BY <1>1, <1>3, <1>a DEF buffer, shared
<1>4. ASSUME NEW t \in Txns, NEW k \in Keys, read(t, k) PROVE Freshness'
  BY <1>1, <1>4, <1>a DEF read, shared
<1>5. ASSUME NEW t \in Txns, commit_lock(t) \/ commit_record(t) PROVE Freshness'
  <2>1. /\ UNCHANGED <<db, current, history, last_legacy_version, level, snap, buf, reads, start, registered, log>>
        /\ writer' = writer \/ (writer = NoOwner /\ writer' = t)
        /\ \/ pc[t] = "open" /\ pc' = [pc EXCEPT ![t] = "locked"] /\ writer = NoOwner
           \/ pc[t] = "record" /\ pc' = [pc EXCEPT ![t] = "finish"] /\ writer' = writer
    BY <1>5 DEF commit_lock, commit_record
  <2>2. \A u \in Txns : /\ pc'[u] = "publish" <=> pc[u] = "publish"
                        /\ Deciding(u)' => Deciding(u)
                        /\ pc'[u] = "idle" => pc[u] = "idle"
    BY <1>a, <2>1 DEF Deciding
  <2>3. DatabaseIsOwned'
    <3>1. writer \notin Legacy /\ writer' \notin Legacy
      BY <2>1, HandlesAssumption DEF TypeOK
    <3>2. (\E u \in Txns : pc[u] = "publish") => writer' = writer
      BY <2>1, HandlesAssumption DEF TypeOK
    <3> QED BY <2>1, <2>2, <3>1, <3>2 DEF Freshness, DatabaseIsOwned, apply
  <2>4. SnapshotsAge'
    BY <2>1, <2>2 DEF Freshness, SnapshotsAge
  <2>5. ReadsAreUnwritten' /\ ConflictsAreReal' /\ UnusedIsClean'
    BY <2>1, <2>2 DEF Freshness, ReadsAreUnwritten, ConflictsAreReal, UnusedIsClean, NoWrites
  <2> QED BY <2>3, <2>4, <2>5 DEF Freshness
<1>6. ASSUME NEW t \in Txns, commit_conflict(t) \/ drop_txn(t) PROVE Freshness'
  <2>1. /\ t \in registered /\ occ = NoOwner /\ retire(t, history) /\ UNCHANGED <<db, current, log, last_legacy_version>>
        /\ \E r : consumed(t, r)
        /\ pc[t] \in {"open", "locked"} /\ (writer' = NoOwner \/ writer' = writer)
        /\ pc[t] = "open" => writer' = writer
    BY <1>6 DEF commit_conflict, drop_txn, TypeOK
  <2>2. start' = [start EXCEPT ![t] = 0]
    BY <2>1 DEF retire
  <2>3. ConflictsAreReal' /\ \A g \in Handles \ registered' : start'[g] = 0
    BY <2>1, RetireFresh DEF Freshness, ConflictsAreReal
  <2> QED BY <2>1, <2>2, <2>3, EndFresh
<1>7. ASSUME NEW t \in Txns, commit_finish(t) PROVE Freshness'
  <2> DEFINE hist == [v \in DOMAIN history \cup {current.version} |->
                        IF v = current.version THEN keys(t) ELSE history[v]]
  <2>1. /\ t \in registered /\ pc[t] = "finish" /\ retire(t, hist) /\ \E r : consumed(t, r)
        /\ writer' = NoOwner /\ UNCHANGED <<db, current, log, last_legacy_version>>
    BY <1>7 DEF commit_finish, TypeOK
  <2>2. start' = [start EXCEPT ![t] = 0]
    BY <2>1 DEF retire
  <2>3. \A v \in DOMAIN hist : hist[v] = log[v].wrote
    BY <1>a, <2>1 DEF Freshness, ConflictsAreReal, Validation, ValidationInputs
  <2> HIDE DEF hist
  <2>4. ConflictsAreReal' /\ \A g \in Handles \ registered' : start'[g] = 0
    BY <2>1, <2>3, RetireFresh
  <2> QED BY <2>1, <2>2, <2>4, EndFresh
<1>8. ASSUME NEW w \in Legacy, legacy_apply(w) PROVE Freshness'
  <2>1. /\ writer' = w /\ UNCHANGED <<current, history, last_legacy_version, pc, level, snap, buf, reads,
                                      start, registered, log>>
    BY <1>8 DEF legacy_apply, local
  <2>2. DatabaseIsOwned'
    BY <2>1 DEF Freshness, DatabaseIsOwned
  <2> QED BY <2>1, <2>2 DEF Freshness, SnapshotsAge, Deciding, ReadsAreUnwritten, ConflictsAreReal,
             UnusedIsClean, NoWrites
<1>9. ASSUME NEW v \in Views, NEW n \in 1 .. current.version, pin(v, n) PROVE Freshness'
  <2>1. /\ start' = [start EXCEPT ![v] = n] /\ registered' = registered \cup {v}
        /\ UNCHANGED <<writer, db, history, last_legacy_version, current, pc, level, snap, buf, reads, log>>
    BY <1>9 DEF pin
  <2>2. \A u \in Txns : start'[u] = start[u]
    BY <1>a, <2>1
  <2>3. DatabaseIsOwned' /\ ReadsAreUnwritten' /\ ConflictsAreReal'
    BY <2>1, <2>2 DEF Freshness, DatabaseIsOwned, ReadsAreUnwritten, ConflictsAreReal
  <2>4. SnapshotsAge'
    BY <2>1, <2>2 DEF Freshness, SnapshotsAge, Deciding
  <2>5. UnusedIsClean'
    BY <1>a, <2>1 DEF Freshness, UnusedIsClean, NoWrites
  <2> QED BY <2>3, <2>4, <2>5 DEF Freshness
<1>10. ASSUME NEW v \in Views, drop_view(v) PROVE Freshness'
  <2>1. /\ v \in registered /\ retire(v, history)
        /\ UNCHANGED <<writer, db, last_legacy_version, current, pc, level, snap, buf, reads, log>>
    BY <1>10 DEF drop_view
  <2>2. \A u \in Txns : start'[u] = start[u]
    BY <1>a, <2>1 DEF retire
  <2>3. ConflictsAreReal' /\ \A g \in Handles \ registered' : start'[g] = 0
    BY <2>1, RetireFresh DEF Freshness, ConflictsAreReal
  <2>4. DatabaseIsOwned' /\ ReadsAreUnwritten'
    BY <2>1, <2>2 DEF Freshness, DatabaseIsOwned, ReadsAreUnwritten
  <2>5. SnapshotsAge' /\ UnusedIsClean'
    BY <2>1, <2>2, <2>3 DEF Freshness, SnapshotsAge, Deciding, UnusedIsClean, NoWrites
  <2> QED BY <2>3, <2>4, <2>5 DEF Freshness
<1>11. ASSUME NEW v \in Views, version_view(v) \/ \E n \in 1 .. MaxVersion : version_view_at(v, n)
       PROVE  Freshness'
  BY <1>9, <1>11, <1>a DEF version_view, version_view_at, TypeOK
<1>12. CASE UNCHANGED vars
  BY <1>1, <1>12 DEF vars, shared, local
<1> QED
  BY <1>2, <1>3, <1>4, <1>5, <1>6, <1>7, <1>8, <1>10, <1>11, <1>12,
     PublishFresh, ApplyFresh, LegacyFresh
  DEF Next, commit_step, legacy_step, legacy_fail, insert, delete

\* The inductive invariant of commits against the present holds in every state.
THEOREM FreshnessInvariant ==
  ASSUME ~UpdateMayFail PROVE Spec => [](TypeOK /\ Validation /\ Freshness)
<1>1. Init => TypeOK /\ Validation /\ Freshness
  BY TypeInit, ValidationInit, FreshnessInit
<1>2. TypeOK /\ Validation /\ Freshness /\ [Next]_vars => (TypeOK /\ Validation /\ Freshness)'
  BY TypeNext, ValidationNext, FreshnessNext
<1> QED BY <1>1, <1>2, PTL DEF Spec

\* Where updates do not fail half way (update's own comment), every serializable
\* commit keeps what it read and writers start from the published database.
THEOREM CurrentCommits == ASSUME ~UpdateMayFail PROVE Spec => []CommitsAreCurrent
<1>1. TypeOK /\ Freshness => DatabaseIsPublished
  <2> SUFFICES ASSUME TypeOK, Freshness, writer = NoOwner PROVE db = current.data
    BY DEF DatabaseIsPublished
  <2>1. NoOwner \notin Legacy /\ \A t \in Txns : pc[t] # "publish"
    BY HandlesAssumption DEF TypeOK
  <2> QED BY <2>1 DEF Freshness, DatabaseIsOwned
<1>2. TypeOK /\ Freshness => SerializableReads
  <2> SUFFICES ASSUME TypeOK, Freshness, NEW t \in Txns, pc[t] = "publish", level[t] = "Serializable",
                      NEW k \in reads[t]
               PROVE  (k \in snap[t]) <=> (k \in current.data)
    BY DEF SerializableReads
  <2>1. k \in Keys /\ Deciding(t)
    BY DEF TypeOK, Deciding
  <2>2. ~\E v \in (start[t] + 1) .. Len(log) : k \in log[v].wrote
    BY DEF Freshness, ReadsAreUnwritten
  <2> QED BY <2>1, <2>2 DEF Freshness, SnapshotsAge
<1>3. TypeOK /\ Freshness => CommitsAreCurrent
  BY <1>1, <1>2 DEF CommitsAreCurrent
<1> QED BY <1>3, FreshnessInvariant, PTL

-----------------------------------------------------------------------------
(* The refinement of SnapshotIsolation, one lemma per abstract action.     *)

\* A step that leaves the log and every handle as callers see it.
LEMMA StepUnseen ==
  ASSUME TypeOK, UNCHANGED <<log, level, start>>,
         \A t \in Txns : /\ Deciding(t)' <=> Deciding(t)
                         /\ Deciding(t) => buf'[t] = buf[t] /\ reads'[t] = reads[t]
                         /\ pc'[t] \in {"record", "finish"} <=> pc[t] \in {"record", "finish"},
         outcome' = outcome
  PROVE  UNCHANGED Abstract!vars
<1>1. AbsMode' = AbsMode /\ AbsOutcome' = AbsOutcome
  BY DEF AbsMode, AbsOutcome
<1>2. AbsStart' = AbsStart
  BY DEF AbsStart, Handles
<1>3. AbsBuf' = AbsBuf
  BY DEF AbsBuf, NoWrites
<1>4. AbsReads' = AbsReads
  BY DEF AbsReads
<1> QED BY <1>1, <1>2, <1>3, <1>4 DEF Abstract!vars

\* Begin: the handle was clean.
LEMMA StepBegin ==
  ASSUME TypeOK, Freshness, NEW t \in Txns, NEW l \in Levels, begin_with(t, l)
  PROVE  Abstract!Begin(t, l)
<1>1. /\ pc[t] = "idle" /\ pc' = [pc EXCEPT ![t] = "open"] /\ level' = [level EXCEPT ![t] = l]
      /\ start' = [start EXCEPT ![t] = current.version] /\ outcome' = [outcome EXCEPT ![t] = "none"]
      /\ UNCHANGED <<buf, reads, log>>
  BY DEF begin_with
<1>2. /\ ~Deciding(t) /\ Deciding(t)' /\ pc'[t] = "open" /\ buf[t] = NoWrites /\ reads[t] = {}
      /\ \A u \in Txns : u # t => pc'[u] = pc[u] /\ (Deciding(u)' <=> Deciding(u))
  BY <1>1 DEF Deciding, TypeOK, Freshness, UnusedIsClean
<1>3. Txns \subseteq Handles /\ t \notin Views /\ Len(log) = current.version
  BY HandlesAssumption DEF Handles, TypeOK
<1>4. AbsMode' = [AbsMode EXCEPT ![t] = l] /\ AbsMode[t] = "idle"
  <2>1. level \in [Txns -> Level] /\ level'[t] = l /\ \A u \in Txns : u # t => level'[u] = level[u]
    BY <1>1 DEF TypeOK
  <2> QED BY <1>2, <2>1 DEF AbsMode
<1>5. AbsStart' = [AbsStart EXCEPT ![t] = Len(log)]
  BY <1>1, <1>2, <1>3 DEF AbsStart, TypeOK, Handles
<1>6. AbsBuf' = AbsBuf
  BY <1>1, <1>2 DEF AbsBuf, NoWrites
<1>7. AbsReads' = AbsReads
  BY <1>1, <1>2 DEF AbsReads
<1>8. AbsOutcome' = [AbsOutcome EXCEPT ![t] = "none"]
  BY <1>1, <1>2 DEF AbsOutcome, TypeOK
<1> QED BY <1>1, <1>4, <1>5, <1>6, <1>7, <1>8 DEF Abstract!Begin

\* A buffered insert or delete is a Write of the contract.
LEMMA StepWrite ==
  ASSUME TypeOK, NEW t \in Txns, NEW k \in Keys, NEW op \in {"insert", "delete"}, buffer(t, k, op)
  PROVE  Abstract!Write(t, k, op)
<1>1. /\ pc[t] = "open" /\ buf' = [buf EXCEPT ![t][k] = op]
      /\ UNCHANGED <<pc, level, start, reads, outcome, log>>
  BY DEF buffer
<1>2. Deciding(t) /\ \A u \in Txns : Deciding(u)' <=> Deciding(u)
  BY <1>1 DEF Deciding
<1>3. AbsMode[t] # "idle" /\ AbsMode' = AbsMode /\ AbsOutcome' = AbsOutcome
  BY <1>1, <1>2 DEF AbsMode, AbsOutcome, TypeOK, Level
<1>4. AbsStart' = AbsStart
  BY <1>1, <1>2 DEF AbsStart, Handles
<1>5. AbsReads' = AbsReads
  BY <1>1, <1>2 DEF AbsReads
<1>6. AbsBuf' = [AbsBuf EXCEPT ![t][k] = op]
  <2>1. AbsBuf[t] = buf[t] /\ AbsBuf \in [Txns -> [Keys -> {"none", "insert", "delete"}]]
    BY <1>2 DEF AbsBuf, TypeOK, NoWrites
  <2>2. AbsBuf'[t] = [buf[t] EXCEPT ![k] = op]
    BY <1>1, <1>2 DEF AbsBuf, TypeOK
  <2>3. \A u \in Txns : u # t => AbsBuf'[u] = AbsBuf[u]
    BY <1>1, <1>2 DEF AbsBuf, TypeOK, NoWrites
  <2>4. AbsBuf' = [u \in Txns |-> AbsBuf'[u]]
    BY DEF AbsBuf
  <2> QED BY <2>1, <2>2, <2>3, <2>4
<1> QED BY <1>1, <1>3, <1>4, <1>5, <1>6 DEF Abstract!Write

\* A read of a serializable transaction is a Read of the contract.
LEMMA StepRead ==
  ASSUME TypeOK, NEW t \in Txns, NEW k \in Keys, read(t, k) PROVE Abstract!Read(t, k)
<1>1. /\ pc[t] = "open" /\ reads' = [reads EXCEPT ![t] = @ \cup {k}]
      /\ UNCHANGED <<pc, level, start, buf, outcome, log>>
  BY DEF read
<1>2. Deciding(t) /\ \A u \in Txns : Deciding(u)' <=> Deciding(u)
  BY <1>1 DEF Deciding
<1>3. AbsMode[t] # "idle" /\ AbsMode' = AbsMode /\ AbsOutcome' = AbsOutcome
  BY <1>1, <1>2 DEF AbsMode, AbsOutcome, TypeOK, Level
<1>4. AbsStart' = AbsStart
  BY <1>1, <1>2 DEF AbsStart, Handles
<1>5. AbsBuf' = AbsBuf
  BY <1>1, <1>2 DEF AbsBuf, NoWrites
<1>6. AbsReads' = [AbsReads EXCEPT ![t] = @ \cup {k}]
  BY <1>1, <1>2 DEF AbsReads, TypeOK
<1> QED BY <1>1, <1>3, <1>4, <1>5, <1>6 DEF Abstract!Read

\* However a transaction is decided, its handle is finished with.
LEMMA StepFinished ==
  ASSUME TypeOK, NEW t \in Txns, NEW r, Deciding(t), ~Deciding(t)', AbsOutcome' = [AbsOutcome EXCEPT ![t] = r],
         \A u \in Txns \ {t} : pc'[u] = pc[u] /\ level'[u] = level[u] /\ buf'[u] = buf[u] /\ reads'[u] = reads[u],
         \A h \in Handles \ {t} : start'[h] = start[h]
  PROVE  Abstract!Finished(t, r) /\ AbsMode[t] # "idle"
<1>1. \A u \in Txns \ {t} : Deciding(u)' <=> Deciding(u)
  BY DEF Deciding
<1>2. Txns \subseteq Handles /\ t \notin Views
  BY HandlesAssumption DEF Handles
<1>3. AbsMode' = [AbsMode EXCEPT ![t] = "idle"] /\ AbsMode[t] # "idle"
  BY <1>1 DEF AbsMode, TypeOK, Level
<1>4. AbsStart' = [AbsStart EXCEPT ![t] = 0]
  BY <1>1, <1>2 DEF AbsStart, Handles
<1>5. AbsBuf' = [AbsBuf EXCEPT ![t] = NoWrites]
  BY <1>1 DEF AbsBuf, NoWrites
<1>6. AbsReads' = [AbsReads EXCEPT ![t] = {}]
  BY <1>1 DEF AbsReads
<1> QED BY <1>3, <1>4, <1>5, <1>6 DEF Abstract!Finished, Abstract!NoWrites, NoWrites

\* Publication is the commit: validation left nothing the transaction may not
\* overlap, and the database it publishes is its writes on the newest version.
LEMMA StepCommit ==
  ASSUME TypeOK, Validation, Freshness, NEW t \in Txns, commit_publish(t) PROVE Abstract!Commit(t)
<1>1. /\ pc[t] = "publish" /\ pc' = [pc EXCEPT ![t] = "record"]
      /\ log' = Append(log, [data |-> db, chained |-> apply(buf[t], log[Len(log)].chained),
                             wrote |-> keys(t), legacy |-> FALSE])
      /\ UNCHANGED <<level, buf, reads, start, outcome>>
  BY DEF commit_publish, publish
<1>2. /\ Deciding(t) /\ ~Deciding(t)' /\ pc'[t] = "record" /\ writer = t
      /\ \A u \in Txns \ {t} : pc'[u] = pc[u]
  BY <1>1 DEF Deciding, TypeOK
<1>3. Txns \subseteq Handles /\ t \notin Views /\ t \notin Legacy
  BY HandlesAssumption DEF Handles
<1>4. AbsBuf[t] = buf[t] /\ AbsReads[t] = reads[t] /\ AbsMode[t] = level[t] /\ AbsStart[t] = start[t]
  BY <1>2, <1>3 DEF AbsBuf, AbsReads, AbsMode, AbsStart
<1>5. AbsOutcome' = [AbsOutcome EXCEPT ![t] = "committed"]
  BY <1>1, <1>2 DEF AbsOutcome
<1>6. Abstract!Finished(t, "committed") /\ AbsMode[t] # "idle"
  BY <1>1, <1>2, <1>5, StepFinished
<1>7. ~Abstract!RealConflict(t)
  <2> SUFFICES ASSUME level[t] \in {"RepeatableRead", "Serializable"}, NEW v \in (start[t] + 1) .. Len(log)
               PROVE  /\ ~log[v].legacy /\ log[v].wrote \cap keys(t) = {}
                      /\ level[t] = "Serializable" => log[v].wrote \cap reads[t] = {}
    BY <1>4 DEF Abstract!RealConflict, Abstract!Snapshotted, Abstract!Written, keys
  <2>1. ~log[v].legacy /\ log[v].wrote \cap keys(t) = {}
    BY <1>1 DEF Validation, NoLostUpdate, checks_write_write
  <2>2. level[t] = "Serializable" => log[v].wrote \cap reads[t] = {}
    BY <1>1 DEF Freshness, ReadsAreUnwritten
  <2> QED BY <2>1, <2>2
<1>8. db = apply(buf[t], log[Len(log)].data)
  BY <1>1, <1>2, <1>3 DEF Freshness, DatabaseIsOwned
<1>9. Abstract!Written(AbsBuf[t]) = keys(t)
  BY <1>4 DEF Abstract!Written, keys
<1>10. /\ db = Abstract!Effect(AbsBuf[t], log[Len(log)].data)
       /\ apply(buf[t], log[Len(log)].chained) = Abstract!Effect(AbsBuf[t], log[Len(log)].chained)
  BY <1>4, <1>8 DEF Abstract!Effect, apply
<1>11. log' = Append(log, [data |-> Abstract!Effect(AbsBuf[t], log[Len(log)].data),
                           chained |-> Abstract!Effect(AbsBuf[t], log[Len(log)].chained),
                           wrote |-> Abstract!Written(AbsBuf[t]), legacy |-> FALSE])
  BY <1>1, <1>9, <1>10
<1> QED BY <1>6, <1>7, <1>11 DEF Abstract!Commit

\* A reported conflict is one: what validation found in history, or as the last
\* legacy version, is in the log.
LEMMA StepConflict ==
  ASSUME TypeOK, Freshness, NEW t \in Txns, commit_conflict(t) PROVE Abstract!Conflict(t)
<1>1. /\ pc[t] = "locked" /\ pc' = [pc EXCEPT ![t] = "idle"] /\ outcome' = [outcome EXCEPT ![t] = "conflict"]
      /\ level' = [level EXCEPT ![t] = "RepeatableRead"] /\ buf' = [buf EXCEPT ![t] = NoWrites]
      /\ reads' = [reads EXCEPT ![t] = {}] /\ start' = [start EXCEPT ![t] = 0] /\ log' = log
      /\ in_conflict(t)
  BY DEF commit_conflict, consumed, retire
<1>2. /\ Deciding(t) /\ ~Deciding(t)' /\ pc'[t] = "idle"
      /\ \A u \in Txns \ {t} : pc'[u] = pc[u] /\ level'[u] = level[u] /\ buf'[u] = buf[u] /\ reads'[u] = reads[u]
      /\ \A h \in Handles \ {t} : start'[h] = start[h]
  BY <1>1 DEF Deciding, TypeOK
<1>3. Txns \subseteq Handles /\ t \notin Views
  BY HandlesAssumption DEF Handles
<1>4. AbsBuf[t] = buf[t] /\ AbsReads[t] = reads[t] /\ AbsMode[t] = level[t] /\ AbsStart[t] = start[t]
  BY <1>2, <1>3 DEF AbsBuf, AbsReads, AbsMode, AbsStart
<1>5. AbsOutcome' = [AbsOutcome EXCEPT ![t] = "conflict"]
  BY <1>1, <1>2 DEF AbsOutcome, TypeOK
<1>6. Abstract!Finished(t, "conflict") /\ AbsMode[t] # "idle"
  BY <1>2, <1>5, StepFinished
<1>7. /\ level[t] \in {"RepeatableRead", "Serializable"}
      /\ \E v \in (start[t] + 1) .. Len(log) :
           log[v].legacy \/ log[v].wrote \cap keys(t) # {}
           \/ (level[t] = "Serializable" /\ log[v].wrote \cap reads[t] # {})
  <2>1. /\ start[t] \in Nat /\ last_legacy_version \in 0 .. Len(log) /\ Len(log) \in Nat
        /\ DOMAIN history \subseteq 1 .. Len(log)
    BY <1>3 DEF TypeOK
  <2>2. CASE legacy_during(t)
    <3>1. last_legacy_version \in (start[t] + 1) .. Len(log) /\ last_legacy_version > 0
      BY <2>1, <2>2 DEF legacy_during
    <3>2. log[last_legacy_version].legacy
      BY <3>1 DEF Freshness, ConflictsAreReal
    <3> QED BY <2>2, <3>1, <3>2 DEF legacy_during, checks_write_write
  <2>3. CASE ww_conflict(t) \/ rw_conflict(t)
    <3>1. PICK v \in DOMAIN history : /\ v > start[t]
                                     /\ \/ history[v] \cap keys(t) # {}
                                        \/ level[t] = "Serializable" /\ history[v] \cap reads[t] # {}
      BY <2>3 DEF ww_conflict, rw_conflict, checks_read_write
    <3>2. v \in (start[t] + 1) .. Len(log) /\ history[v] = log[v].wrote
      BY <2>1, <3>1 DEF Freshness, ConflictsAreReal
    <3>3. level[t] \in {"RepeatableRead", "Serializable"}
      BY <2>3 DEF ww_conflict, rw_conflict, checks_read_write, checks_write_write
    <3> QED BY <3>1, <3>2, <3>3
  <2> QED BY <1>1, <2>2, <2>3 DEF in_conflict
<1>8. Abstract!RealConflict(t)
  BY <1>4, <1>7 DEF Abstract!RealConflict, Abstract!Snapshotted, Abstract!Written, keys
<1> QED BY <1>1, <1>6, <1>8 DEF Abstract!Conflict

\* Dropping an open transaction (TransactionHandle::drop) is an Abort.
LEMMA StepAbort ==
  ASSUME TypeOK, NEW t \in Txns, drop_txn(t) PROVE Abstract!Abort(t)
<1>1. /\ pc[t] = "open" /\ pc' = [pc EXCEPT ![t] = "idle"] /\ outcome' = [outcome EXCEPT ![t] = "aborted"]
      /\ level' = [level EXCEPT ![t] = "RepeatableRead"] /\ buf' = [buf EXCEPT ![t] = NoWrites]
      /\ reads' = [reads EXCEPT ![t] = {}] /\ start' = [start EXCEPT ![t] = 0] /\ log' = log
  BY DEF drop_txn, consumed, retire
<1>2. /\ Deciding(t) /\ ~Deciding(t)' /\ pc'[t] = "idle"
      /\ \A u \in Txns \ {t} : pc'[u] = pc[u] /\ level'[u] = level[u] /\ buf'[u] = buf[u] /\ reads'[u] = reads[u]
      /\ \A h \in Handles \ {t} : start'[h] = start[h]
  BY <1>1 DEF Deciding, TypeOK
<1>3. AbsOutcome' = [AbsOutcome EXCEPT ![t] = "aborted"]
  BY <1>1, <1>2 DEF AbsOutcome, TypeOK
<1> QED BY <1>1, <1>2, <1>3, StepFinished DEF Abstract!Abort

\* A reader's pin.
LEMMA StepPin ==
  ASSUME TypeOK, Freshness, NEW v \in Views, NEW n \in 1 .. current.version, pin(v, n)
  PROVE  Abstract!Pin(v, n)
<1>1. /\ v \in Handles /\ v \notin registered /\ start' = [start EXCEPT ![v] = n]
      /\ UNCHANGED <<pc, level, buf, reads, outcome, log>> /\ Len(log) = current.version
  BY DEF pin, Handles, TypeOK
<1>2. AbsMode' = AbsMode /\ AbsOutcome' = AbsOutcome /\ AbsReads' = AbsReads
  BY <1>1 DEF AbsMode, AbsOutcome, AbsReads, Deciding
<1>3. AbsBuf' = AbsBuf
  BY <1>1 DEF AbsBuf, Deciding, NoWrites
<1>4. AbsStart[v] = 0 /\ AbsStart' = [AbsStart EXCEPT ![v] = n]
  <2>1. start[v] = 0 /\ start'[v] = n /\ \A h \in Handles : h # v => start'[h] = start[h]
    BY <1>1 DEF TypeOK, Freshness, UnusedIsClean
  <2>2. \A h \in Handles : Deciding(h)' <=> Deciding(h)
    BY <1>1 DEF Deciding
  <2> QED BY <1>1, <2>1, <2>2 DEF AbsStart
<1> QED BY <1>1, <1>2, <1>3, <1>4 DEF Abstract!Pin

\* Dropping a pinned view is an Unpin.
LEMMA StepUnpin ==
  ASSUME TypeOK, NEW v \in Views, drop_view(v) PROVE Abstract!Unpin(v)
<1>1. /\ v \in Handles /\ v \in registered /\ start' = [start EXCEPT ![v] = 0]
      /\ UNCHANGED <<pc, level, buf, reads, outcome, log>>
  BY DEF drop_view, retire, Handles
<1>2. AbsMode' = AbsMode /\ AbsOutcome' = AbsOutcome /\ AbsReads' = AbsReads
  BY <1>1 DEF AbsMode, AbsOutcome, AbsReads, Deciding
<1>3. AbsBuf' = AbsBuf
  BY <1>1 DEF AbsBuf, Deciding, NoWrites
<1>4. AbsStart[v] # 0 /\ AbsStart' = [AbsStart EXCEPT ![v] = 0]
  <2>1. start[v] # 0 /\ start'[v] = 0 /\ \A h \in Handles : h # v => start'[h] = start[h]
    BY <1>1 DEF TypeOK
  <2>2. \A h \in Handles : Deciding(h)' <=> Deciding(h)
    BY <1>1 DEF Deciding
  <2> QED BY <1>1, <2>1, <2>2 DEF AbsStart
<1> QED BY <1>1, <1>2, <1>3, <1>4 DEF Abstract!Unpin

\* Every step of the code is a step of the promise, or one its callers cannot see.
LEMMA StepRefines ==
  ASSUME ~UpdateMayFail, TypeOK, Validation, Freshness, [Next]_vars
  PROVE  [Abstract!Next]_(Abstract!vars)
<1>a. \A u \in Txns : pc[u] \in {"idle", "open", "locked", "publish", "record", "finish"}
  BY DEF TypeOK
<1>1. ASSUME NEW t \in Txns, NEW l \in Levels, begin_with(t, l) PROVE Abstract!Next
  BY <1>1, StepBegin, DataAssumption DEF Abstract!Next, Abstract!Level, Level
<1>2. ASSUME NEW t \in Txns, NEW k \in Keys, insert(t, k) \/ delete(t, k) PROVE Abstract!Next
  BY <1>2, StepWrite DEF Abstract!Next, insert, delete
<1>3. ASSUME NEW t \in Txns, NEW k \in Keys, read(t, k) PROVE Abstract!Next
  BY <1>3, StepRead DEF Abstract!Next
<1>4. ASSUME NEW t \in Txns, commit_publish(t) \/ commit_conflict(t) \/ drop_txn(t) PROVE Abstract!Next
  BY <1>4, StepCommit, StepConflict, StepAbort DEF Abstract!Next
<1>5. ASSUME NEW t \in Txns, commit_lock(t) \/ commit_apply(t) \/ commit_record(t)
      PROVE  UNCHANGED Abstract!vars
  <2>1. /\ UNCHANGED <<log, level, start, buf, reads, outcome>>
        /\ \/ pc[t] = "open" /\ pc' = [pc EXCEPT ![t] = "locked"]
           \/ pc[t] = "locked" /\ pc' = [pc EXCEPT ![t] = "publish"]
           \/ pc[t] = "record" /\ pc' = [pc EXCEPT ![t] = "finish"]
    BY <1>5 DEF commit_lock, commit_apply, commit_record
  <2>2. \A u \in Txns : /\ Deciding(u)' <=> Deciding(u)
                        /\ pc'[u] \in {"record", "finish"} <=> pc[u] \in {"record", "finish"}
    BY <2>1 DEF Deciding, TypeOK
  <2> QED BY <2>1, <2>2, StepUnseen
<1>6. ASSUME NEW t \in Txns, commit_finish(t) PROVE UNCHANGED Abstract!vars
  <2>1. /\ pc[t] = "finish" /\ pc' = [pc EXCEPT ![t] = "idle"] /\ outcome' = [outcome EXCEPT ![t] = "committed"]
        /\ level' = [level EXCEPT ![t] = "RepeatableRead"] /\ buf' = [buf EXCEPT ![t] = NoWrites]
        /\ reads' = [reads EXCEPT ![t] = {}] /\ start' = [start EXCEPT ![t] = 0] /\ log' = log
    BY <1>6 DEF commit_finish, consumed, retire
  <2>2. /\ ~Deciding(t) /\ ~Deciding(t)' /\ pc'[t] = "idle" /\ outcome'[t] = "committed" /\ t \notin Views
        /\ \A u \in Txns \ {t} : /\ pc'[u] = pc[u] /\ level'[u] = level[u] /\ buf'[u] = buf[u]
                                  /\ reads'[u] = reads[u] /\ outcome'[u] = outcome[u] /\ (Deciding(u)' <=> Deciding(u))
        /\ \A h \in Handles \ {t} : start'[h] = start[h]
    BY <2>1, HandlesAssumption DEF Deciding, TypeOK
  <2>3. AbsMode' = AbsMode
    BY <2>2 DEF AbsMode
  <2>4. AbsOutcome' = AbsOutcome
    BY <2>1, <2>2 DEF AbsOutcome
  <2>5. AbsStart' = AbsStart
    BY <2>2 DEF AbsStart, Handles
  <2>6. AbsBuf' = AbsBuf
    BY <2>2 DEF AbsBuf, NoWrites
  <2>7. AbsReads' = AbsReads
    BY <2>2 DEF AbsReads
  <2> QED BY <2>1, <2>3, <2>4, <2>5, <2>6, <2>7 DEF Abstract!vars
<1>7. ASSUME NEW w \in Legacy, legacy_apply(w) PROVE UNCHANGED Abstract!vars
  BY <1>7, StepUnseen DEF legacy_apply, local, Deciding
<1>8. ASSUME NEW w \in Legacy, legacy_publish(w) PROVE Abstract!Next
  <2>1. /\ log' = Append(log, [data |-> db, chained |-> log[Len(log)].chained, wrote |-> Keys, legacy |-> TRUE])
        /\ UNCHANGED <<pc, level, buf, reads, start, outcome>> /\ db \in SUBSET Keys
    BY <1>8 DEF legacy_publish, publish, local, TypeOK
  <2>2. AbsMode' = AbsMode /\ AbsOutcome' = AbsOutcome /\ AbsReads' = AbsReads /\ AbsStart' = AbsStart
    BY <2>1 DEF AbsMode, AbsOutcome, AbsReads, AbsStart, Deciding
  <2>3. AbsBuf' = AbsBuf
    BY <2>1 DEF AbsBuf, Deciding, NoWrites
  <2>4. Abstract!LegacyWrite(db)
    BY <2>1, <2>2, <2>3 DEF Abstract!LegacyWrite
  <2> QED BY <2>1, <2>4 DEF Abstract!Next
<1>9. ASSUME NEW v \in Views, drop_view(v) PROVE Abstract!Next
  BY <1>9, StepUnpin DEF Abstract!Next
<1>10. ASSUME NEW v \in Views, version_view(v) \/ \E n \in 1 .. MaxVersion : version_view_at(v, n)
       PROVE  Abstract!Next
  <2>1. PICK n \in 1 .. MaxVersion : n \in 1 .. current.version /\ pin(v, n)
    BY <1>10 DEF version_view, version_view_at, TypeOK
  <2> QED BY <2>1, StepPin DEF Abstract!Next
<1>11. CASE UNCHANGED vars
  BY <1>11, StepUnseen DEF vars, shared, local, Deciding
<1> QED
  BY <1>1, <1>2, <1>3, <1>4, <1>5, <1>6, <1>7, <1>8, <1>9, <1>10, <1>11
  DEF Next, commit_step, legacy_step, legacy_fail

\* ConcurrentDb gives its callers snapshot isolation, for any number of handles,
\* keys and versions, if no update fails half way.
THEOREM SnapshotIsolationRefined == ASSUME ~UpdateMayFail PROVE Spec => ImplementsSnapshotIsolation
<1>1. Init => Abstract!Init
  <2> SUFFICES ASSUME Init PROVE Abstract!Init
    OBVIOUS
  <2>1. \A t \in Txns : pc[t] = "idle" /\ ~Deciding(t)
    BY DEF Init, Deciding
  <2>2. AbsMode = [t \in Txns |-> "idle"] /\ AbsOutcome = [t \in Txns |-> "none"] /\ AbsReads = [t \in Txns |-> {}]
    BY <2>1 DEF Init, AbsMode, AbsOutcome, AbsReads
  <2>3. AbsStart = [h \in Txns \cup Views |-> 0]
    BY <2>1 DEF Init, AbsStart, Handles
  <2>4. AbsBuf = [t \in Txns |-> Abstract!NoWrites]
    BY <2>1 DEF AbsBuf, NoWrites, Abstract!NoWrites
  <2> QED BY <2>2, <2>3, <2>4 DEF Init, Abstract!Init
<1>2. TypeOK /\ Validation /\ Freshness /\ [Next]_vars => [Abstract!Next]_(Abstract!vars)
  BY StepRefines
<1> QED BY <1>1, <1>2, FreshnessInvariant, PTL DEF Spec, ImplementsSnapshotIsolation, Abstract!Spec
=============================================================================
