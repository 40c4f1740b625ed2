------------------------- MODULE ShardClusterProofs -------------------------
(***************************************************************************)
(* TLAPS proofs about ShardCluster: what a change of membership moves, and *)
(* that no acknowledged triple is lost or doubled on its way, for any      *)
(* servers, buckets, triples and hash.                                     *)
(***************************************************************************)
EXTENDS ShardCluster, TLAPS

-----------------------------------------------------------------------------
(* Rendezvous hashing.                                                     *)

IsTop(s, M, n) == n \in M /\ \A m \in M : Weight[s][m] <= Weight[s][n]

\* Every group of members has a node of the highest hash. Stated of all groups,
\* so that it is kept when a member leaves.
Ranked(M) == \A s \in Shards : \A S \in SUBSET M : S # {} => \E n \in S : IsTop(s, S, n)

\* The owner is the one node of the highest hash.
LEMMA OwnerIsTop ==
  ASSUME ShardAssumption, NEW s \in Shards, NEW M \in SUBSET Nodes, M # {}, Ranked(M)
  PROVE  IsTop(s, M, owner(s, M)) /\ \A n : IsTop(s, M, n) => n = owner(s, M)
<1>1. \E n \in M : \A m \in M : Weight[s][m] <= Weight[s][n]
  BY DEF Ranked, IsTop
<1>2. IsTop(s, M, owner(s, M))
  BY <1>1 DEF owner, rendezvous_owner, IsTop
<1>3. ASSUME NEW n, IsTop(s, M, n) PROVE n = owner(s, M)
  <2> PICK o : o = owner(s, M)
    OBVIOUS
  <2>1. o \in Nodes /\ n \in Nodes /\ Weight[s][n] <= Weight[s][o] /\ Weight[s][o] <= Weight[s][n]
    BY <1>2, <1>3 DEF IsTop
  <2>2. Weight[s][n] \in Nat /\ Weight[s][o] \in Nat
    BY <2>1 DEF ShardAssumption
  <2>3. Weight[s][n] = Weight[s][o]
    BY <2>1, <2>2
  <2> QED BY <2>1, <2>3 DEF ShardAssumption
<1> QED BY <1>2, <1>3

\* A group that a node joins still has a node of the highest hash.
LEMMA RankedAdd ==
  ASSUME ShardAssumption, NEW M \in SUBSET Nodes, NEW n \in Nodes, Ranked(M)
  PROVE  Ranked(M \cup {n})
<1> SUFFICES ASSUME NEW s \in Shards, NEW S \in SUBSET (M \cup {n}), S # {}
             PROVE  \E o \in S : IsTop(s, S, o)
  BY DEF Ranked
<1>0. \A m \in S : Weight[s][m] \in Nat
  BY DEF ShardAssumption
<1>1. CASE S \subseteq M
  BY <1>1 DEF Ranked
<1>2. CASE S = {n}
  BY <1>0, <1>2 DEF IsTop
<1>3. CASE n \in S /\ S # {n}
  <2> DEFINE R == S \ {n}
  <2>1. R \in SUBSET M /\ R # {}
    BY <1>3
  <2>2. PICK o \in R : IsTop(s, R, o)
    BY <2>1 DEF Ranked
  <2>3. CASE Weight[s][n] <= Weight[s][o]
    BY <2>2, <2>3 DEF IsTop
  <2>4. CASE ~(Weight[s][n] <= Weight[s][o])
    <3>1. \A m \in S : Weight[s][m] <= Weight[s][n]
      BY <1>0, <1>3, <2>2, <2>4 DEF IsTop
    <3> QED BY <1>3, <3>1 DEF IsTop
  <2> QED BY <2>3, <2>4
<1> QED BY <1>1, <1>2, <1>3

\* A node that joins takes buckets from others to itself only.
LEMMA OwnerAfterAdd ==
  ASSUME ShardAssumption, NEW s \in Shards, NEW M \in SUBSET Nodes, M # {}, Ranked(M),
         NEW n \in Nodes, owner(s, M \cup {n}) # owner(s, M)
  PROVE  owner(s, M \cup {n}) = n
<1> DEFINE N == M \cup {n}
<1>1. N # {} /\ Ranked(N) /\ N \in SUBSET Nodes
  BY RankedAdd
<1>2. IsTop(s, N, owner(s, N))
  BY <1>1, OwnerIsTop
<1>3. owner(s, N) \in M => IsTop(s, M, owner(s, N))
  BY <1>2 DEF IsTop
<1>4. owner(s, N) \notin M
  BY <1>3, OwnerIsTop
<1> QED BY <1>2, <1>4 DEF IsTop

\* A node that leaves gives away its own buckets only.
LEMMA OwnerAfterRemove ==
  ASSUME ShardAssumption, NEW s \in Shards, NEW M \in SUBSET Nodes, Ranked(M), NEW n,
         M \ {n} # {}, owner(s, M) # n
  PROVE  owner(s, M \ {n}) = owner(s, M)
<1> DEFINE N == M \ {n}
<1>1. N # {} /\ N \in SUBSET Nodes /\ Ranked(N) /\ M # {}
  BY DEF Ranked
<1>2. IsTop(s, M, owner(s, M))
  BY <1>1, OwnerIsTop
<1>3. IsTop(s, N, owner(s, M))
  BY <1>2 DEF IsTop
<1> QED BY <1>1, <1>3, OwnerIsTop

-----------------------------------------------------------------------------
(* The invariant.                                                          *)

Moves == [shard : Shards, from : Nodes, to : Nodes]
IsMove(m) ==
  /\ m \in Moves /\ m.from # m.to
  /\ m.from \in attached /\ m.to \in members /\ m.to = owner(m.shard, members)

\* Where the operation under way is. Each bucket moves once.
Progress ==
  /\ TypeOK /\ members \subseteq attached /\ Ranked(members) /\ leaving \notin members
  /\ step = "idle" => todo = {} /\ leaving = Nil
  /\ step # "insert" => batch = {}
  /\ \A m \in todo : IsMove(m)
  /\ \A m1, m2 \in todo : m1.shard = m2.shard => m1 = m2
  /\ step = "insert" => /\ IsMove(move) /\ \A m \in todo : m.shard # move.shard
                        /\ \A t \in batch : Bucket[t] = move.shard
  /\ late \subseteq [node : Nodes, insert : SUBSET Triples, purge : SUBSET Shards]
  /\ purged_late \subseteq Shards

\* While a bucket moves, what would be lost by purging its old owner has yet
\* to be inserted.
InTransit ==
  step = "insert" =>
    \A t \in acked :
      Bucket[t] = move.shard /\ Bucket[t] \notin purged_late =>
        t \in batch \/ \E n \in Nodes \ {move.from} : t \in held[n]

\* The servers that hold t while no call fails: the old owner until its bucket
\* has been purged there, the new one from the insertion on.
Moving(t) == step = "insert" /\ move.shard = Bucket[t]
Waiting(t) == {m \in todo : m.shard = Bucket[t]}
At(t, n) ==
  \/ \E m \in Waiting(t) : n = m.from
  \/ Moving(t) /\ (n = move.from \/ (n = move.to /\ t \notin batch))
  \/ Waiting(t) = {} /\ ~Moving(t) /\ n = owner(Bucket[t], members)
Placed ==
  failures = 0 /\ ~emptied =>
    /\ late = {} /\ (members = {} => acked = {}) /\ batch \subseteq acked
    /\ \A n \in Nodes : \A t \in Triples : t \in held[n] <=> t \in acked /\ At(t, n)

Inv == Progress /\ NothingLost /\ InTransit /\ Placed

-----------------------------------------------------------------------------
(* Changes of membership.                                                  *)

\* The new config is in force and the buckets of moved wait for their migration.
LEMMA Reassigned ==
  ASSUME ShardAssumption, Inv, step = "idle", NEW M \in SUBSET Nodes, NEW moved \in SUBSET Shards,
         reassign(M, moved), Ranked(M), M # {} \/ (emptied' /\ moved = {}),
         attached \subseteq attached', M \subseteq attached', attached' \subseteq Nodes,
         leaving' \in Nodes \cup {Nil}, leaving' \notin M,
         moved # {} => members # {},
         \A s \in moved : owner(s, M) # owner(s, members),
         M # {} /\ members # {} => \A s \in Shards \ moved : owner(s, M) = owner(s, members),
         emptied' \in BOOLEAN, ~emptied' => ~emptied,
         UNCHANGED <<held, move, batch, acked, failures, lateVars>>
  PROVE  Inv'
<1>1. /\ TypeOK /\ members \subseteq attached /\ Ranked(members) /\ todo = {} /\ leaving = Nil /\ batch = {}
      /\ late \subseteq [node : Nodes, insert : SUBSET Triples, purge : SUBSET Shards]
      /\ purged_late \subseteq Shards
  BY DEF Inv, Progress
<1>2. /\ epoch' = epoch + 1 /\ members' = M /\ step' = "next"
      /\ todo' = {[shard |-> s, from |-> owner(s, members), to |-> owner(s, M)] : s \in moved}
      /\ held' = held /\ move' = move /\ batch' = batch /\ acked' = acked /\ failures' = failures
      /\ late' = late /\ purged_late' = purged_late
  BY DEF reassign, lateVars
<1>3. \A m : m \in todo' <=> \E s \in moved : m = [shard |-> s, from |-> owner(s, members), to |-> owner(s, M)]
  BY <1>2
<1>4. ASSUME NEW s \in moved PROVE owner(s, members) \in members /\ owner(s, M) \in M
  <2>1. members # {} /\ M # {} /\ members \in SUBSET Nodes
    BY <1>1, <1>4 DEF TypeOK
  <2> QED BY <1>1, <2>1, OwnerIsTop DEF IsTop
<1>5. \A m \in todo' : IsMove(m)' /\ m.shard \in moved /\ m.from = owner(m.shard, members)
  <2> TAKE m \in todo'
  <2>1. PICK s \in moved : m = [shard |-> s, from |-> owner(s, members), to |-> owner(s, M)]
    BY <1>3
  <2>2. owner(s, members) \in members /\ owner(s, M) \in M /\ s \in Shards
    BY <1>4
  <2>3. m \in Moves
    BY <1>1, <2>1, <2>2 DEF Moves, TypeOK
  <2>4. m.shard = s /\ m.from = owner(s, members) /\ m.to = owner(s, M)
    BY <2>1
  <2>5. owner(s, M) = owner(s, members')
    BY <1>2
  <2> QED BY <1>1, <1>2, <2>2, <2>3, <2>4, <2>5 DEF IsMove
<1>6. \A m1, m2 \in todo' : m1.shard = m2.shard => m1 = m2
  BY <1>3
<1>7. \A s \in moved : \E m \in todo' : m.shard = s /\ m.from = owner(s, members)
  <2> TAKE s \in moved
  <2> PICK m : m = [shard |-> s, from |-> owner(s, members), to |-> owner(s, M)]
    OBVIOUS
  <2>1. m \in todo' /\ m.shard = s /\ m.from = owner(s, members)
    BY <1>3
  <2> QED BY <2>1
<1>8. todo' \subseteq Moves
  BY <1>5 DEF IsMove
<1>9. TypeOK'
  BY <1>1, <1>2, <1>8 DEF TypeOK, Moves
<1>10. Progress'
  BY <1>1, <1>2, <1>5, <1>6, <1>9 DEF Progress
<1>11. NothingLost' /\ InTransit'
  BY <1>2 DEF Inv, NothingLost, InTransit
<1>12. Placed'
  <2> SUFFICES ASSUME failures' = 0, ~emptied' PROVE
        /\ late' = {} /\ (members' = {} => acked' = {}) /\ batch' \subseteq acked'
        /\ \A n \in Nodes : \A t \in Triples : t \in held'[n] <=> t \in acked' /\ At(t, n)'
    BY DEF Placed
  <2>1. /\ late = {} /\ (members = {} => acked = {}) /\ M # {}
        /\ \A n \in Nodes : \A t \in Triples : t \in held[n] <=> t \in acked /\ At(t, n)
    BY <1>2 DEF Inv, Placed
  <2>2. ASSUME NEW n \in Nodes, NEW t \in Triples, t \in acked PROVE At(t, n)' <=> At(t, n)
    <3>1. members # {} /\ Bucket[t] \in Shards
      BY <2>1, <2>2 DEF ShardAssumption
    <3>2. At(t, n) <=> n = owner(Bucket[t], members)
      BY <1>1 DEF At, Waiting, Moving
    <3>3. ~Moving(t)'
      BY <1>2 DEF Moving
    <3>4. CASE Bucket[t] \in moved
      <4>1. Waiting(t)' # {} /\ \A m \in Waiting(t)' : m.from = owner(Bucket[t], members)
        BY <1>5, <1>7, <3>4 DEF Waiting
      <4> QED BY <3>2, <3>3, <4>1 DEF At
    <3>5. CASE Bucket[t] \notin moved
      <4>1. Waiting(t)' = {}
        BY <1>5, <3>5 DEF Waiting
      <4>2. owner(Bucket[t], members') = owner(Bucket[t], members)
        BY <1>2, <2>1, <3>1, <3>5
      <4>3. At(t, n)' <=> n = owner(Bucket[t], members')
        BY <3>3, <4>1 DEF At
      <4> QED BY <3>2, <4>2, <4>3
    <3> QED BY <3>4, <3>5
  <2> QED BY <1>1, <1>2, <2>1, <2>2
<1> QED BY <1>10, <1>11, <1>12 DEF Inv

\* add_node of a member changes nothing; of a new node, it moves what the node
\* takes over.
LEMMA add_nodeKeeps ==
  ASSUME ShardAssumption, Inv, NEW n \in Nodes, add_node(n)
  PROVE  Inv'
<1>1. /\ TypeOK /\ members \subseteq attached /\ Ranked(members) /\ todo = {} /\ leaving = Nil /\ batch = {}
      /\ step = "idle"
  BY DEF Inv, Progress, add_node
<1>2. CASE n \in members
  <2>1. UNCHANGED <<epoch, members, attached, held, step, leaving, todo, move, batch, acked, emptied, failures, late, purged_late>>
    <3>1. attached \cup {n} = attached
      BY <1>1, <1>2
    <3> QED BY <1>2, <3>1 DEF add_node, config, lateVars
  <2> QED BY <2>1 DEF Inv, Progress, TypeOK, IsMove, NothingLost, InTransit, Placed, At, Moving, Waiting
<1>3. CASE n \notin members
  <2> DEFINE M == members \cup {n}
             moved == {s \in Shards : members # {} /\ owner(s, members) # owner(s, M)}
  <2>1. reassign(M, moved) /\ attached' = attached \cup {n}
        /\ UNCHANGED <<held, leaving, move, batch, acked, emptied, failures, lateVars>>
    BY <1>3 DEF add_node
  <2>2. M \in SUBSET Nodes /\ M # {} /\ moved \in SUBSET Shards /\ attached \subseteq Nodes /\ emptied \in BOOLEAN
    BY <1>1 DEF TypeOK
  <2>3. Ranked(M)
    BY <1>1, RankedAdd DEF TypeOK
  <2>4. leaving' \in Nodes \cup {Nil} /\ leaving' \notin M
    BY <1>1, <2>1, <2>2 DEF ShardAssumption
  <2>5. /\ moved # {} => members # {}
        /\ \A s \in moved : owner(s, M) # owner(s, members)
        /\ M # {} /\ members # {} => \A s \in Shards \ moved : owner(s, M) = owner(s, members)
    OBVIOUS
  <2>6. attached \subseteq attached' /\ M \subseteq attached' /\ attached' \subseteq Nodes
        /\ emptied' = emptied
    BY <1>1, <2>1, <2>2
  <2>7. UNCHANGED <<held, move, batch, acked, failures, lateVars>>
    BY <2>1
  <2> HIDE DEF M, moved
  <2> QED BY <1>1, <2>1, <2>2, <2>3, <2>4, <2>5, <2>6, <2>7, Reassigned
<1> QED BY <1>2, <1>3

\* remove_node moves the buckets of the node that leaves.
LEMMA remove_nodeKeeps ==
  ASSUME ShardAssumption, Inv, NEW n \in Nodes, remove_node(n)
  PROVE  Inv'
<1>1. /\ TypeOK /\ members \subseteq attached /\ Ranked(members) /\ n \in members /\ step = "idle"
  BY DEF Inv, Progress, remove_node
<1> DEFINE M == members \ {n}
           moved == {s \in Shards : members # {n} /\ owner(s, members) = n}
<1>2. reassign(M, moved) /\ leaving' = n /\ emptied' = (emptied \/ members = {n})
      /\ UNCHANGED <<attached, held, move, batch, acked, failures, lateVars>>
  BY DEF remove_node
<1>3. M \in SUBSET Nodes /\ members \in SUBSET Nodes /\ moved \in SUBSET Shards /\ attached \subseteq Nodes /\ emptied \in BOOLEAN
  BY <1>1 DEF TypeOK
<1>4. Ranked(M)
  BY <1>1 DEF Ranked
<1>5. M # {} \/ (emptied' /\ moved = {})
  BY <1>1, <1>2
<1>6. \A s \in moved : owner(s, M) # owner(s, members)
  <2> TAKE s \in moved
  <2>1. M # {} /\ s \in Shards /\ owner(s, members) = n
    BY <1>1
  <2>2. owner(s, M) \in M
    BY <1>3, <1>4, <2>1, OwnerIsTop DEF IsTop
  <2> QED BY <2>1, <2>2
<1>7. M # {} /\ members # {} => \A s \in Shards \ moved : owner(s, M) = owner(s, members)
  <2> SUFFICES ASSUME M # {}, NEW s \in Shards \ moved PROVE owner(s, M) = owner(s, members)
    OBVIOUS
  <2>1. owner(s, members) # n
    BY <1>1
  <2> QED BY <1>1, <1>3, <2>1, OwnerAfterRemove
<1>8. moved # {} => members # {}
  BY <1>1
<1>9. /\ attached \subseteq attached' /\ M \subseteq attached' /\ attached' \subseteq Nodes
      /\ emptied' \in BOOLEAN /\ (~emptied' => ~emptied)
      /\ leaving' \in Nodes \cup {Nil} /\ leaving' \notin M
  BY <1>1, <1>2, <1>3
<1>10. UNCHANGED <<held, move, batch, acked, failures, lateVars>>
  BY <1>2
<1> HIDE DEF M, moved
<1> QED BY <1>1, <1>2, <1>3, <1>4, <1>5, <1>6, <1>7, <1>8, <1>9, <1>10, Reassigned

-----------------------------------------------------------------------------
(* A migration.                                                            *)

\* What was scanned is what the old owner holds of the bucket.
LEMMA scan_shardKeeps ==
  ASSUME ShardAssumption, Inv, NEW m \in todo, scan_shard(m)
  PROVE  Inv'
<1>1. Progress /\ TypeOK /\ IsMove(m) /\ step = "next" /\ m.from \in Nodes /\ m.shard \in Shards
  BY DEF Inv, Progress, scan_shard, IsMove, Moves
<1>2. /\ todo' = todo \ {m} /\ step' = "insert" /\ move' = m
      /\ batch' = {t \in held[m.from] : Bucket[t] = m.shard}
      /\ UNCHANGED <<epoch, members, attached, held, leaving, acked, emptied, failures, late, purged_late>>
  BY <1>1 DEF scan_shard, config, lateVars, IsMove, bucket_of
<1>3. \A k : IsMove(k)' <=> IsMove(k)
  BY <1>2 DEF IsMove
<1>4. TypeOK'
  <2>1. batch' \subseteq Triples /\ todo' \subseteq todo
    BY <1>1, <1>2 DEF TypeOK
  <2> QED BY <1>1, <1>2, <2>1 DEF TypeOK, IsMove, Moves
<1>5. Progress'
  BY <1>1, <1>2, <1>3, <1>4 DEF Progress
<1>6. NothingLost'
  BY <1>2 DEF Inv, NothingLost
<1>7. InTransit'
  BY <1>2 DEF Inv, NothingLost, InTransit
<1>8. Placed'
  <2> SUFFICES ASSUME failures' = 0, ~emptied' PROVE
        /\ late' = {} /\ (members' = {} => acked' = {}) /\ batch' \subseteq acked'
        /\ \A n \in Nodes : \A t \in Triples : t \in held'[n] <=> t \in acked' /\ At(t, n)'
    BY DEF Placed
  <2>1. /\ late = {} /\ (members = {} => acked = {})
        /\ \A n \in Nodes : \A t \in Triples : t \in held[n] <=> t \in acked /\ At(t, n)
    BY <1>2 DEF Inv, Placed
  <2>2. \A n \in Nodes : held[n] \subseteq Triples
    BY <1>1 DEF TypeOK
  <2>3. batch' \subseteq acked
    BY <1>1, <1>2, <2>1, <2>2
  <2>4. ASSUME NEW n \in Nodes, NEW t \in Triples, t \in acked PROVE At(t, n)' <=> At(t, n)
    <3>1. CASE Bucket[t] = m.shard
      <4>1. Waiting(t) = {m} /\ Waiting(t)' = {}
        BY <1>1, <1>2, <3>1 DEF Waiting, Progress
      <4>2. At(t, n) <=> n = m.from
        BY <1>1, <4>1 DEF At, Moving
      <4>3. m.from = m.from /\ At(t, m.from)
        BY <1>1, <4>1 DEF At
      <4>4. t \in batch'
        BY <1>1, <1>2, <2>1, <2>4, <3>1, <4>3
      <4>5. At(t, n)' <=> n = m.from
        BY <1>2, <3>1, <4>1, <4>4 DEF At, Moving
      <4> QED BY <4>2, <4>5
    <3>2. CASE Bucket[t] # m.shard
      <4>1. Waiting(t)' = Waiting(t)
        BY <1>2, <3>2 DEF Waiting
      <4>2. ~Moving(t) /\ ~Moving(t)'
        BY <1>1, <1>2, <3>2 DEF Moving
      <4> QED BY <1>2, <4>1, <4>2 DEF At
    <3> QED BY <3>1, <3>2
  <2> QED BY <1>2, <2>1, <2>3, <2>4
<1> QED BY <1>5, <1>6, <1>7, <1>8 DEF Inv

\* A scanned triple arrives at the new owner; the old one still has it.
LEMMA insert_oneKeeps ==
  ASSUME ShardAssumption, Inv, NEW t \in Triples, insert_one(t)
  PROVE  Inv'
<1>1. Progress /\ TypeOK /\ IsMove(move) /\ step = "insert" /\ t \in batch /\ Bucket[t] = move.shard
  BY DEF Inv, Progress, insert_one
<1>2. move.to \in Nodes /\ move.from \in Nodes /\ move.to # move.from /\ move.to \in attached
  BY <1>1 DEF IsMove, Moves, Progress
<1>3. /\ held' = [held EXCEPT ![move.to] = @ \cup {t}] /\ batch' = batch \ {t}
      /\ UNCHANGED <<epoch, members, attached, step, leaving, todo, move, acked, emptied, failures, late, purged_late>>
  BY <1>2 DEF insert_one, config, lateVars
<1>4. \A n \in Nodes : held'[n] = IF n = move.to THEN held[n] \cup {t} ELSE held[n]
  BY <1>1, <1>3 DEF TypeOK
<1>5. \A k : IsMove(k)' <=> IsMove(k)
  BY <1>3 DEF IsMove
<1>6. TypeOK'
  <2>1. held' \in [Nodes -> SUBSET Triples]
    BY <1>1, <1>2, <1>3 DEF TypeOK
  <2>2. batch' \subseteq Triples
    BY <1>1, <1>3 DEF TypeOK
  <2> QED BY <1>1, <1>3, <2>1, <2>2 DEF TypeOK
<1>7. Progress'
  BY <1>1, <1>3, <1>5, <1>6 DEF Progress
<1>8. NothingLost'
  BY <1>3, <1>4 DEF Inv, NothingLost
<1>9. InTransit'
  <2> SUFFICES ASSUME NEW u \in acked, Bucket[u] = move.shard, Bucket[u] \notin purged_late
               PROVE  u \in batch' \/ \E n \in Nodes \ {move.from} : u \in held'[n]
    BY <1>3 DEF InTransit
  <2>1. u \in batch \/ \E n \in Nodes \ {move.from} : u \in held[n]
    BY <1>1 DEF Inv, InTransit
  <2>2. CASE u = t
    BY <1>2, <1>4, <2>2
  <2>3. CASE u # t
    BY <1>3, <1>4, <2>1, <2>3
  <2> QED BY <2>2, <2>3
<1>10. Placed'
  <2> SUFFICES ASSUME failures' = 0, ~emptied' PROVE
        /\ late' = {} /\ (members' = {} => acked' = {}) /\ batch' \subseteq acked'
        /\ \A n \in Nodes : \A u \in Triples : u \in held'[n] <=> u \in acked' /\ At(u, n)'
    BY DEF Placed
  <2>1. /\ late = {} /\ (members = {} => acked = {}) /\ batch \subseteq acked
        /\ \A n \in Nodes : \A u \in Triples : u \in held[n] <=> u \in acked /\ At(u, n)
    BY <1>3 DEF Inv, Placed
  <2>2. ASSUME NEW n \in Nodes, NEW u \in Triples
        PROVE  At(u, n)' <=> At(u, n) \/ (u = t /\ n = move.to)
    <3>1. Waiting(u)' = Waiting(u) /\ (Moving(u)' <=> Moving(u))
      BY <1>3 DEF Waiting, Moving
    <3>2. CASE u = t
      <4>1. Moving(u) /\ Waiting(u) = {}
        BY <1>1, <3>2 DEF Waiting, Moving, Progress
      <4> QED BY <1>3, <3>1, <3>2, <4>1 DEF At
    <3>3. CASE u # t
      BY <1>3, <3>1, <3>3 DEF At
    <3> QED BY <3>2, <3>3
  <2>3. ASSUME NEW n \in Nodes, NEW u \in Triples PROVE u \in held'[n] <=> u \in acked /\ At(u, n)'
    <3>1. u \in held'[n] <=> u \in held[n] \/ (u = t /\ n = move.to)
      BY <1>4
    <3>2. t \in acked
      BY <1>1, <2>1
    <3>3. u \in held[n] <=> u \in acked /\ At(u, n)
      BY <2>1
    <3> QED BY <2>2, <3>1, <3>2, <3>3
  <2> QED BY <1>3, <2>1, <2>3
<1> QED BY <1>7, <1>8, <1>9, <1>10 DEF Inv

\* The bucket is deleted where it was: what was there is elsewhere by now.
LEMMA PurgeLosesNothing ==
  ASSUME ShardAssumption, Inv, step = "insert", batch = {}, UNCHANGED <<acked, purged_late>>,
         held' = [held EXCEPT ![move.from] = @ \ bucket_of(move.shard, @)]
  PROVE  /\ NothingLost' /\ held' \in [Nodes -> SUBSET Triples]
         /\ \A n \in Nodes : \A t \in Triples :
              t \in held'[n] <=> t \in held[n] /\ ~(n = move.from /\ Bucket[t] = move.shard)
<1>1. IsMove(move) /\ TypeOK
  BY DEF Inv, Progress
<1>2. move.from \in Nodes
  BY <1>1 DEF IsMove, Moves
<1>3. held' \in [Nodes -> SUBSET Triples]
  BY <1>1, <1>2 DEF TypeOK, bucket_of
<1>4. \A n \in Nodes : \A t \in Triples :
        t \in held'[n] <=> t \in held[n] /\ ~(n = move.from /\ Bucket[t] = move.shard)
  BY <1>1, <1>2 DEF TypeOK, bucket_of
<1>5. ASSUME NEW t \in acked, Bucket[t] \notin purged_late PROVE \E n \in Nodes : t \in held'[n]
  <2>1. t \in Triples
    BY <1>1 DEF TypeOK
  <2>2. CASE Bucket[t] = move.shard
    <3>1. PICK n \in Nodes \ {move.from} : t \in held[n]
      BY <1>5, <2>2 DEF Inv, InTransit
    <3> QED BY <1>4, <2>1, <3>1
  <2>3. CASE Bucket[t] # move.shard
    <3>1. PICK n \in Nodes : t \in held[n]
      BY <1>5 DEF Inv, NothingLost
    <3> QED BY <1>4, <2>1, <2>3, <3>1
  <2> QED BY <2>2, <2>3
<1> QED BY <1>3, <1>4, <1>5 DEF NothingLost

\* The bucket is purged at the old owner once all of it has arrived.
LEMMA purge_shardKeeps ==
  ASSUME ShardAssumption, Inv, purge_shard
  PROVE  Inv'
<1>1. Progress /\ TypeOK /\ IsMove(move) /\ step = "insert" /\ batch = {}
  BY DEF Inv, Progress, purge_shard
<1>2. /\ held' = [held EXCEPT ![move.from] = @ \ bucket_of(move.shard, @)]
      /\ step' = "next" /\ move' = NoMove
      /\ UNCHANGED <<epoch, members, attached, leaving, todo, batch, acked, emptied, failures, late, purged_late>>
  BY DEF purge_shard, config, lateVars
<1>3. /\ NothingLost' /\ held' \in [Nodes -> SUBSET Triples]
      /\ \A n \in Nodes : \A t \in Triples :
           t \in held'[n] <=> t \in held[n] /\ ~(n = move.from /\ Bucket[t] = move.shard)
  BY <1>1, <1>2, PurgeLosesNothing
<1>4. \A k : IsMove(k)' <=> IsMove(k)
  BY <1>2 DEF IsMove
<1>5. TypeOK'
  BY <1>1, <1>2, <1>3 DEF TypeOK
<1>6. Progress'
  BY <1>1, <1>2, <1>4, <1>5 DEF Progress
<1>7. InTransit'
  BY <1>2 DEF InTransit
<1>8. Placed'
  <2> SUFFICES ASSUME failures' = 0, ~emptied' PROVE
        /\ late' = {} /\ (members' = {} => acked' = {}) /\ batch' \subseteq acked'
        /\ \A n \in Nodes : \A t \in Triples : t \in held'[n] <=> t \in acked' /\ At(t, n)'
    BY DEF Placed
  <2>1. /\ late = {} /\ (members = {} => acked = {}) /\ batch \subseteq acked
        /\ \A n \in Nodes : \A t \in Triples : t \in held[n] <=> t \in acked /\ At(t, n)
    BY <1>2 DEF Inv, Placed
  <2>2. ASSUME NEW n \in Nodes, NEW t \in Triples
        PROVE  At(t, n)' <=> At(t, n) /\ ~(n = move.from /\ Bucket[t] = move.shard)
    <3>1. Waiting(t)' = Waiting(t) /\ ~Moving(t)'
      BY <1>2 DEF Waiting, Moving
    <3>2. CASE Bucket[t] = move.shard
      <4>1. Moving(t) /\ Waiting(t) = {}
        BY <1>1, <3>2 DEF Waiting, Moving, Progress
      <4>2. At(t, n) <=> n = move.from \/ n = move.to
        BY <1>1, <4>1 DEF At
      <4>3. At(t, n)' <=> n = owner(Bucket[t], members)
        BY <1>2, <3>1, <4>1 DEF At
      <4>4. move.to = owner(Bucket[t], members) /\ move.from # move.to
        BY <1>1, <3>2 DEF IsMove
      <4> QED BY <3>2, <4>2, <4>3, <4>4
    <3>3. CASE Bucket[t] # move.shard
      <4>1. ~Moving(t)
        BY <3>3 DEF Moving
      <4> QED BY <1>2, <3>1, <3>3, <4>1 DEF At
    <3> QED BY <3>2, <3>3
  <2> QED BY <1>2, <1>3, <2>1, <2>2
<1> QED BY <1>3, <1>6, <1>7, <1>8 DEF Inv

\* The operation returns; the evicted node holds nothing of the members'.
LEMMA finishKeeps ==
  ASSUME ShardAssumption, Inv, finish
  PROVE  Inv'
<1>1. Progress /\ TypeOK /\ step = "next" /\ todo = {}
  BY DEF Inv, Progress, finish
<1>2. /\ step' = "idle" /\ leaving' = Nil /\ attached' = attached \ {leaving}
      /\ UNCHANGED <<epoch, members, held, todo, move, batch, acked, emptied, failures, late, purged_late>>
  BY DEF finish, config, lateVars
<1>3. members \subseteq attached' /\ Nil \notin members
  BY <1>1, <1>2 DEF Progress, TypeOK, ShardAssumption
<1>4. TypeOK'
  BY <1>1, <1>2 DEF TypeOK
<1>5. Progress'
  BY <1>1, <1>2, <1>3, <1>4 DEF Progress
<1>6. NothingLost' /\ InTransit'
  BY <1>2 DEF Inv, NothingLost, InTransit
<1>7. \A n, t : At(t, n)' <=> At(t, n)
  BY <1>1, <1>2 DEF At, Waiting, Moving
<1>8. Placed'
  BY <1>2, <1>7 DEF Inv, Placed
<1> QED BY <1>5, <1>6, <1>8 DEF Inv

-----------------------------------------------------------------------------
(* Failures, routed inserts and late requests.                             *)

\* An operation that a failed call ends leaves everything in place.
LEMMA failKeeps ==
  ASSUME ShardAssumption, Inv, fail
  PROVE  Inv'
<1>1. Progress /\ TypeOK
  BY DEF Inv, Progress
<1>2. /\ step' = "idle" /\ leaving' = Nil /\ todo' = {} /\ move' = NoMove /\ batch' = {}
      /\ failures' = failures + 1
      /\ UNCHANGED <<epoch, members, attached, acked, emptied, late, purged_late>>
  BY DEF fail, config, lateVars
<1>3. held' \in [Nodes -> SUBSET Triples] /\ NothingLost'
  <2>1. CASE UNCHANGED held
    BY <1>1, <1>2, <2>1 DEF Inv, TypeOK, NothingLost
  <2>2. ASSUME NEW t \in batch, step = "insert", held' = [held EXCEPT ![move.to] = @ \cup {t}]
        PROVE  held' \in [Nodes -> SUBSET Triples] /\ NothingLost'
    <3>1. t \in Triples
      BY <1>1 DEF TypeOK
    <3>2. \A n \in Nodes : held[n] \subseteq held'[n]
      BY <1>1, <2>2 DEF TypeOK
    <3>3. held' \in [Nodes -> SUBSET Triples]
      BY <1>1, <2>2, <3>1 DEF TypeOK
    <3> QED BY <1>2, <3>2, <3>3 DEF Inv, NothingLost
  <2>3. CASE step = "insert" /\ batch = {} /\ held' = [held EXCEPT ![move.from] = @ \ bucket_of(move.shard, @)]
    BY <1>2, <2>3, PurgeLosesNothing
  <2> QED BY <2>1, <2>2, <2>3 DEF fail
<1>4. TypeOK' /\ failures' # 0
  BY <1>1, <1>2, <1>3 DEF TypeOK
<1>5. Progress'
  BY <1>1, <1>2, <1>4 DEF Progress, ShardAssumption, TypeOK
<1>6. InTransit' /\ Placed'
  BY <1>2, <1>4 DEF InTransit, Placed
<1> QED BY <1>3, <1>5, <1>6 DEF Inv

\* Only the triples that a server holds are more.
LEMMA HeldGrows ==
  ASSUME ShardAssumption, Inv, step = "idle", NEW n \in Nodes, NEW t \in Triples,
         held' = [held EXCEPT ![n] = @ \cup {t}], acked' = acked \/ acked' = acked \cup {t}, failures' \in Nat,
         UNCHANGED <<epoch, members, attached, step, leaving, todo, move, batch, emptied, late, purged_late>>
  PROVE  Progress' /\ NothingLost' /\ InTransit'
<1>1. Progress /\ TypeOK
  BY DEF Inv, Progress
<1>2. held' \in [Nodes -> SUBSET Triples] /\ \A m \in Nodes : held[m] \subseteq held'[m] /\ t \in held'[n]
  BY <1>1 DEF TypeOK
<1>3. TypeOK'
  BY <1>1, <1>2 DEF TypeOK
<1>4. \A k : IsMove(k)' <=> IsMove(k)
  BY DEF IsMove
<1>5. Progress'
  BY <1>1, <1>3, <1>4 DEF Progress
<1>6. NothingLost'
  BY <1>2 DEF Inv, NothingLost
<1> QED BY <1>5, <1>6 DEF InTransit

\* An insert is acknowledged by the owner of its bucket.
LEMMA insertKeeps ==
  ASSUME ShardAssumption, Inv, NEW t \in Triples, insert(t)
  PROVE  Inv'
<1>1. Progress /\ TypeOK /\ step = "idle" /\ todo = {}
  BY DEF Inv, Progress, insert
<1> PICK o : o = owner(Bucket[t], members)
  OBVIOUS
<1>2. /\ o \in Nodes /\ held' = [held EXCEPT ![o] = @ \cup {t}] /\ acked' = acked \cup {t}
      /\ UNCHANGED <<epoch, members, attached, step, leaving, todo, move, batch, emptied, failures, late, purged_late>>
  BY <1>1 DEF insert, config, lateVars, TypeOK
<1>3. Progress' /\ NothingLost' /\ InTransit'
  BY <1>1, <1>2, HeldGrows DEF TypeOK
<1>4. \A n \in Nodes : \A u \in Triples : u \in held'[n] <=> u \in held[n] \/ (u = t /\ n = o)
  BY <1>1, <1>2 DEF TypeOK
<1>5. \A n, u : /\ At(u, n)' <=> At(u, n)
                /\ At(u, n) <=> n = owner(Bucket[u], members)
  BY <1>1, <1>2 DEF At, Waiting, Moving
<1>6. members # {}
  BY <1>2 DEF owner, ShardAssumption
<1>7. Placed'
  <2> SUFFICES ASSUME failures' = 0, ~emptied' PROVE
        /\ late' = {} /\ (members' = {} => acked' = {}) /\ batch' \subseteq acked'
        /\ \A n \in Nodes : \A u \in Triples : u \in held'[n] <=> u \in acked' /\ At(u, n)'
    BY DEF Placed
  <2>1. /\ late = {} /\ batch \subseteq acked
        /\ \A n \in Nodes : \A u \in Triples : u \in held[n] <=> u \in acked /\ At(u, n)
    BY <1>2 DEF Inv, Placed
  <2>2. ASSUME NEW n \in Nodes, NEW u \in Triples PROVE u \in held'[n] <=> u \in acked' /\ At(u, n)'
    <3>1. CASE u = t
      BY <1>2, <1>4, <1>5, <2>1, <3>1
    <3>2. CASE u # t
      BY <1>2, <1>4, <1>5, <2>1, <3>2
    <3> QED BY <3>1, <3>2
  <2> QED BY <1>2, <1>6, <2>1, <2>2
<1> QED BY <1>3, <1>7 DEF Inv

\* An insert that fails may have arrived all the same.
LEMMA insert_failsKeeps ==
  ASSUME ShardAssumption, Inv, NEW t \in Triples, insert_fails(t)
  PROVE  Inv'
<1>1. Progress /\ TypeOK /\ step = "idle"
  BY DEF Inv, Progress, insert_fails
<1> PICK o : o = owner(Bucket[t], members)
  OBVIOUS
<1>2. /\ o \in Nodes /\ held' = [held EXCEPT ![o] = @ \cup {t}] /\ failures' = failures + 1
      /\ UNCHANGED <<epoch, members, attached, step, leaving, todo, move, batch, acked, emptied, late, purged_late>>
  BY <1>1 DEF insert_fails, config, lateVars, TypeOK
<1>3. failures' \in Nat /\ failures' # 0
  BY <1>1, <1>2 DEF TypeOK
<1>4. Progress' /\ NothingLost' /\ InTransit'
  BY <1>1, <1>2, <1>3, HeldGrows
<1> QED BY <1>3, <1>4 DEF Inv, Placed

\* A call that breaks leaves its request on the way.
LEMMA breaksKeeps ==
  ASSUME ShardAssumption, Inv, breaks
  PROVE  Inv'
<1>1. Progress /\ TypeOK
  BY DEF Inv, Progress
<1> DEFINE Requests == [node : Nodes, insert : SUBSET Triples, purge : SUBSET Shards]
<1>2. \E c \in Requests : break(c)
  <2>1. ASSUME NEW t \in Triples, owner(Bucket[t], members) \in attached,
               break([node |-> owner(Bucket[t], members), insert |-> {t}, purge |-> {}])
        PROVE  \E c \in Requests : break(c)
    BY <1>1, <2>1 DEF TypeOK
  <2>2. ASSUME NEW t \in batch, move.to \in attached, break([node |-> move.to, insert |-> {t}, purge |-> {}])
        PROVE  \E c \in Requests : break(c)
    BY <1>1, <2>2 DEF TypeOK
  <2>3. CASE step = "insert" /\ break([node |-> move.from, insert |-> {}, purge |-> {move.shard}])
    <3>1. move.from \in Nodes /\ move.shard \in Shards
      BY <1>1, <2>3 DEF Progress, IsMove, Moves
    <3> QED BY <2>3, <3>1
  <2> QED BY <2>1, <2>2, <2>3 DEF breaks
<1>3. PICK c \in Requests : break(c)
  BY <1>2
<1>4. /\ late' = late \cup {c} /\ failures' = failures + 1
      /\ UNCHANGED <<epoch, members, attached, held, step, leaving, todo, move, batch, acked, emptied, purged_late>>
  BY <1>3 DEF break, config
<1>5. TypeOK' /\ failures' # 0
  BY <1>1, <1>4 DEF TypeOK
<1>6. \A k : IsMove(k)' <=> IsMove(k)
  BY <1>4 DEF IsMove
<1>7. Progress'
  BY <1>1, <1>3, <1>4, <1>5, <1>6 DEF Progress
<1>8. NothingLost' /\ InTransit' /\ Placed'
  BY <1>4, <1>5 DEF Inv, NothingLost, InTransit, Placed
<1> QED BY <1>7, <1>8 DEF Inv

\* A request that is served late adds a copy, or purges a bucket that is
\* counted as purged from then on.
LEMMA serve_lateKeeps ==
  ASSUME ShardAssumption, Inv, NEW c \in late, serve_late(c)
  PROVE  Inv'
<1>1. Progress /\ TypeOK /\ c.node \in Nodes /\ c.insert \subseteq Triples /\ c.purge \subseteq Shards
  BY DEF Inv, Progress
<1>2. /\ late' = late \ {c} /\ purged_late' = purged_late \cup c.purge
      /\ held' = [held EXCEPT ![c.node] = {t \in @ : Bucket[t] \notin c.purge} \cup c.insert]
      /\ UNCHANGED <<epoch, members, attached, step, leaving, todo, move, batch, acked, emptied, failures>>
  BY DEF serve_late, config
<1>3. held' \in [Nodes -> SUBSET Triples]
  BY <1>1, <1>2 DEF TypeOK
<1>4. \A n \in Nodes : \A t \in held[n] : t \in held'[n] \/ Bucket[t] \in purged_late'
  BY <1>1, <1>2 DEF TypeOK
<1>5. TypeOK'
  BY <1>1, <1>2, <1>3 DEF TypeOK
<1>6. \A k : IsMove(k)' <=> IsMove(k)
  BY <1>2 DEF IsMove
<1>7. Progress'
  BY <1>1, <1>2, <1>5, <1>6 DEF Progress
<1>8. purged_late \subseteq purged_late'
  BY <1>2
<1>9. NothingLost'
  <2> SUFFICES ASSUME NEW t \in acked, Bucket[t] \notin purged_late' PROVE \E n \in Nodes : t \in held'[n]
    BY <1>2 DEF NothingLost
  <2>1. PICK n \in Nodes : t \in held[n]
    BY <1>8 DEF Inv, NothingLost
  <2> QED BY <1>4, <2>1
<1>10. InTransit'
  <2> SUFFICES ASSUME step = "insert", NEW t \in acked, Bucket[t] = move.shard, Bucket[t] \notin purged_late'
               PROVE  t \in batch \/ \E n \in Nodes \ {move.from} : t \in held'[n]
    BY <1>2 DEF InTransit
  <2>1. t \in batch \/ \E n \in Nodes \ {move.from} : t \in held[n]
    BY <1>8 DEF Inv, InTransit
  <2> QED BY <1>4, <2>1
<1>11. Placed'
  BY <1>2 DEF Inv, Placed
<1> QED BY <1>7, <1>9, <1>10, <1>11 DEF Inv

-----------------------------------------------------------------------------
(* The theorems.                                                           *)

\* The invariant holds of the empty cluster.
LEMMA InitHolds ==
  ASSUME ShardAssumption, Init
  PROVE  Inv
<1>1. TypeOK
  BY DEF Init, TypeOK
<1>2. Ranked({})
  BY DEF Ranked
<1>3. Progress
  BY <1>1, <1>2 DEF Init, Progress
<1> QED BY <1>3 DEF Init, Inv, NothingLost, InTransit, Placed

\* Every step keeps the invariant.
LEMMA NextKeeps ==
  ASSUME ShardAssumption, Inv, [Next]_vars
  PROVE  Inv'
<1>1. CASE Next
  BY <1>1, add_nodeKeeps, remove_nodeKeeps, scan_shardKeeps, insert_oneKeeps, insertKeeps, insert_failsKeeps,
     purge_shardKeeps, finishKeeps, failKeeps, breaksKeeps, serve_lateKeeps DEF Next
<1>2. CASE UNCHANGED vars
  BY <1>2 DEF vars, Inv, Progress, TypeOK, IsMove, NothingLost, InTransit, Placed, At, Moving, Waiting
<1> QED BY <1>1, <1>2

\* A step changes the owner of a bucket only to or from the node concerned.
LEMMA NextMovesLittle ==
  ASSUME ShardAssumption, Inv, [Next]_vars, NEW s \in Shards, members # {}, members' # {},
         owner(s, members') # owner(s, members)
  PROVE  owner(s, members') \notin members \/ owner(s, members) \notin members'
<1>1. members \in SUBSET Nodes /\ Ranked(members)
  BY DEF Inv, Progress, TypeOK
<1>2. ASSUME NEW n \in Nodes, members' = members \cup {n}, n \notin members
      PROVE  owner(s, members') \notin members
  BY <1>1, <1>2, OwnerAfterAdd
<1>3. ASSUME NEW n \in Nodes, members' = members \ {n}
      PROVE  owner(s, members) \notin members'
  BY <1>1, <1>3, OwnerAfterRemove
<1>4. \/ members' = members
      \/ \E n \in Nodes : members' = members \cup {n} /\ n \notin members
      \/ \E n \in Nodes : members' = members \ {n}
  <2>1. ASSUME NEW n \in Nodes, add_node(n)
        PROVE  members' = members \/ (members' = members \cup {n} /\ n \notin members)
    BY <2>1 DEF add_node, reassign, config
  <2>2. ASSUME NEW n \in Nodes, remove_node(n) PROVE members' = members \ {n}
    BY <2>2 DEF remove_node, reassign
  <2>3. ASSUME NEW m \in todo, scan_shard(m) PROVE members' = members
    BY <2>3 DEF scan_shard, config
  <2>4. ASSUME NEW t \in Triples, insert_one(t) \/ insert(t) \/ insert_fails(t) PROVE members' = members
    BY <2>4 DEF insert_one, insert, insert_fails, config
  <2>5. CASE purge_shard \/ finish \/ fail
    BY <2>5 DEF purge_shard, finish, fail, config
  <2>6. CASE breaks
    BY <2>6 DEF breaks, break, config
  <2>7. ASSUME NEW c \in late, serve_late(c) PROVE members' = members
    BY <2>7 DEF serve_late, config
  <2>8. CASE UNCHANGED vars
    BY <2>8 DEF vars
  <2> QED BY <2>1, <2>2, <2>3, <2>4, <2>5, <2>6, <2>7, <2>8 DEF Next
<1> QED BY <1>2, <1>3, <1>4

\* Without a failed call the owners hold exactly their buckets.
LEMMA PlacementFollows ==
  ASSUME ShardAssumption, Inv
  PROVE  OwnersHoldExactly
<1>1. Progress /\ TypeOK
  BY DEF Inv, Progress
<1> SUFFICES ASSUME step = "idle", members # {}, failures = 0, ~emptied
             PROVE  /\ \A t \in acked : {n \in attached : t \in held[n]} = {owner(Bucket[t], members)}
                    /\ \A n \in attached : held[n] \subseteq acked
  BY <1>1 DEF OwnersHoldExactly
<1>2. \A n \in Nodes : \A t \in Triples : t \in held[n] <=> t \in acked /\ At(t, n)
  BY DEF Inv, Placed
<1>3. \A n, t : At(t, n) <=> n = owner(Bucket[t], members)
  BY <1>1 DEF Progress, At, Waiting, Moving
<1>4. \A n \in attached : n \in Nodes /\ held[n] \subseteq Triples
  BY <1>1 DEF TypeOK
<1>5. ASSUME NEW t \in acked PROVE {n \in attached : t \in held[n]} = {owner(Bucket[t], members)}
  <2>1. t \in Triples /\ Bucket[t] \in Shards
    BY <1>1 DEF TypeOK, ShardAssumption
  <2>2. owner(Bucket[t], members) \in attached
    <3>1. IsTop(Bucket[t], members, owner(Bucket[t], members))
      BY <1>1, <2>1, OwnerIsTop DEF TypeOK, Progress
    <3> QED BY <1>1, <3>1 DEF IsTop, Progress
  <2>3. \A n \in attached : t \in held[n] <=> n = owner(Bucket[t], members)
    BY <1>2, <1>3, <1>4, <2>1
  <2> QED BY <2>2, <2>3
<1> QED BY <1>2, <1>4, <1>5

\* cluster.rs, ShardCluster: with any number of servers, buckets and failing or
\* late calls, a migration loses no acknowledged triple; without a failed
\* call each triple is with the owner of its bucket and nowhere else once
\* add_node or remove_node returns; and a change of membership moves no
\* bucket between two nodes that stay.
THEOREM MigrationSafety ==
  ASSUME ShardAssumption
  PROVE  Spec => MigrationsAreExact
<1>1. Init => Inv
  BY InitHolds
<1>2. Inv /\ [Next]_vars => Inv'
  BY NextKeeps
<1>3. Inv => NothingLost /\ OwnersHoldExactly
  BY PlacementFollows DEF Inv
<1>4. Inv /\ [Next]_vars =>
        [\A s \in Shards :
           members # {} /\ members' # {} /\ owner(s, members') # owner(s, members) =>
             owner(s, members') \notin members \/ owner(s, members) \notin members']_vars
  BY NextMovesLittle
<1> QED BY <1>1, <1>2, <1>3, <1>4, PTL DEF Spec, MigrationsAreExact, MinimalMovement

=============================================================================
