---------------------------- MODULE ShardCluster ----------------------------
(***************************************************************************)
(* src/cluster.rs: ShardCluster, the coordinator of an elastic sharded     *)
(* store, with the ClusterConfig it routes by. Writes go to the owner of   *)
(* the subject's bucket; reads scatter over every endpoint. A membership   *)
(* change streams the buckets whose owner changed from the old owner to    *)
(* the new one: scan, insert, purge.                                       *)
(*                                                                         *)
(* The endpoints are remote shard servers: any call to one may fail, with  *)
(* or without having taken effect, and the first failure ends the          *)
(* operation where it is. A call whose connection breaks is sent again on  *)
(* a new one, and the server may serve the first request late. A server    *)
(* keeps its triples when the coordinator lets go of it. Operations run on *)
(* the caller's thread, one at a time. A triple is <<sub, pred, obj>>.     *)
(***************************************************************************)
EXTENDS Naturals

CONSTANTS
  Nodes,        \* shard servers
  Shards,       \* buckets
  Triples,
  Bucket,       \* the bucket of each triple's subject: shard_of
  Weight,       \* hash(shard, node): what rendezvous_owner maximizes
  Nil,
  MaxEpoch,     \* bound: membership changes
  MaxFailures   \* bound: calls that fail

ShardAssumption ==
  /\ Nil \notin Nodes \cup Shards
  /\ Bucket \in [Triples -> Shards]
  /\ Weight \in [Shards -> [Nodes -> Nat]]
  /\ \A s \in Shards : \A m, n \in Nodes : Weight[s][m] = Weight[s][n] => m = n
  /\ MaxEpoch \in Nat /\ MaxFailures \in Nat

VARIABLES
  epoch, members,  \* the ClusterConfig; the assignment is computed from members
  attached,        \* nodes the coordinator has an endpoint for
  held,            \* per node: the triples its server holds
  step,            \* "idle", or where the operation under way is
  leaving,         \* the node remove_node is evicting, or Nil
  todo,            \* shards whose migration the operation has yet to start
  move,            \* the migration under way: its shard, from and to
  batch,           \* scanned triples it has yet to insert
  acked,           \* history variable: triples whose insert returned Ok
  emptied,         \* history variable: whether the last member was ever evicted
  failures,        \* calls that failed
  late,            \* requests sent on a connection that broke and not served yet
  purged_late      \* history variable: buckets some server purged late

vars == <<epoch, members, attached, held, step, leaving, todo, move, batch, acked, emptied, failures, late, purged_late>>
lateVars == <<late, purged_late>>
config == <<epoch, members>>
NoMove == [shard |-> Nil, from |-> Nil, to |-> Nil]

\* The owner of shard s among members M (not empty): the highest hash wins.
rendezvous_owner(s, M) == CHOOSE n \in M : \A m \in M : Weight[s][m] <= Weight[s][n]
owner(s, M) == IF M = {} THEN Nil ELSE rendezvous_owner(s, M)
bucket_of(s, S) == {t \in S : Bucket[t] = s}

Init ==
  /\ epoch = 0 /\ members = {} /\ attached = {}
  /\ held = [n \in Nodes |-> {}]
  /\ step = "idle" /\ leaving = Nil /\ todo = {} /\ move = NoMove /\ batch = {}
  /\ acked = {} /\ emptied = FALSE /\ failures = 0
  /\ late = {} /\ purged_late = {}

-----------------------------------------------------------------------------
\* Reassign to members M, and queue the shards whose owner that changes.
reassign(M, moved) ==
  /\ epoch' = epoch + 1 /\ members' = M
  /\ step' = "next"
  /\ todo' = {[shard |-> s, from |-> owner(s, members), to |-> owner(s, M)] : s \in moved}

\* add_node(): the endpoint is put in place first, for a member too. The one given
\* for a member is taken to lead to the server it had: nothing is moved to another.
add_node(n) ==
  /\ step = "idle"
  /\ attached' = attached \cup {n}
  /\ \/ /\ n \in members
        /\ UNCHANGED <<config, step, todo>>
     \/ /\ n \notin members /\ epoch < MaxEpoch
        /\ reassign(members \cup {n},
                    {s \in Shards : /\ members # {}
                                    /\ owner(s, members) # owner(s, members \cup {n})})
  /\ UNCHANGED <<held, leaving, move, batch, acked, emptied, failures, lateVars>>

\* remove_node(): the shards the node owned go to the survivors, if any.
remove_node(n) ==
  /\ step = "idle" /\ n \in members /\ epoch < MaxEpoch
  /\ reassign(members \ {n},
              {s \in Shards : members # {n} /\ owner(s, members) = n})
  /\ leaving' = n /\ emptied' = (emptied \/ members = {n})
  /\ UNCHANGED <<attached, held, move, batch, acked, failures, lateVars>>

\* migrate_shard(): read the bucket ...
scan_shard(m) ==
  /\ step = "next" /\ m \in todo
  /\ todo' = todo \ {m}
  /\ IF m.from \in attached
     THEN step' = "insert" /\ move' = m /\ batch' = bucket_of(m.shard, held[m.from])
     ELSE UNCHANGED <<step, move, batch>>
  /\ UNCHANGED <<config, attached, held, leaving, acked, emptied, failures, lateVars>>
\* ... insert it at its new owner, if that has an endpoint ...
insert_one(t) ==
  /\ step = "insert" /\ t \in batch
  /\ held' = IF move.to \in attached THEN [held EXCEPT ![move.to] = @ \cup {t}] ELSE held
  /\ batch' = batch \ {t}
  /\ UNCHANGED <<config, attached, step, leaving, todo, move, acked, emptied, failures, lateVars>>
\* ... and delete it where it was.
\* Faulty: the bucket is deleted before it has been inserted.
purge_early ==
  /\ step = "insert"
  /\ held' = [held EXCEPT ![move.from] = @ \ bucket_of(move.shard, @)]
  /\ step' = IF batch = {} THEN "next" ELSE step
  /\ move' = IF batch = {} THEN NoMove ELSE move
  /\ UNCHANGED <<config, attached, leaving, todo, batch, acked, emptied, failures, lateVars>>
purge_shard ==
  /\ step = "insert" /\ batch = {}
  /\ held' = [held EXCEPT ![move.from] = @ \ bucket_of(move.shard, @)]
  /\ step' = "next" /\ move' = NoMove
  /\ UNCHANGED <<config, attached, leaving, todo, batch, acked, emptied, failures, lateVars>>

\* The operation returns Ok; an evicted node's endpoint is dropped.
finish ==
  /\ step = "next" /\ todo = {}
  /\ step' = "idle" /\ leaving' = Nil
  /\ attached' = attached \ {leaving}
  /\ UNCHANGED <<config, held, todo, move, batch, acked, emptied, failures, lateVars>>

\* A call fails and the operation returns Err: the scan, one insert (done or
\* not) or the purge (done or not). What was done and the new config stay.
fail ==
  /\ failures < MaxFailures /\ failures' = failures + 1
  /\ \/ step = "next" /\ todo # {} /\ UNCHANGED held
     \/ step = "insert" /\ UNCHANGED held
     \/ /\ step = "insert" /\ move.to \in attached
        /\ \E t \in batch : held' = [held EXCEPT ![move.to] = @ \cup {t}]
     \/ /\ step = "insert" /\ batch = {}
        /\ held' = [held EXCEPT ![move.from] = @ \ bucket_of(move.shard, @)]
  /\ step' = "idle" /\ leaving' = Nil /\ todo' = {} /\ move' = NoMove /\ batch' = {}
  /\ UNCHANGED <<config, attached, acked, emptied, lateVars>>

\* insert(): route a triple to the owner of its bucket.
insert(t) ==
  /\ step = "idle" /\ owner(Bucket[t], members) \in attached
  /\ held' = [held EXCEPT ![owner(Bucket[t], members)] = @ \cup {t}]
  /\ acked' = acked \cup {t}
  /\ UNCHANGED <<config, attached, step, leaving, todo, move, batch, emptied, failures, lateVars>>

\* The same call fails; the server may have stored the triple.
insert_fails(t) ==
  /\ step = "idle" /\ owner(Bucket[t], members) \in attached
  /\ failures < MaxFailures /\ failures' = failures + 1
  /\ held' = [held EXCEPT ![owner(Bucket[t], members)] = @ \cup {t}]
  /\ UNCHANGED <<config, attached, step, leaving, todo, move, batch, acked, emptied, lateVars>>

\* A round trip of a routed insert, or of an insert or purge of the migration,
\* breaks; the call goes on with the next attempt.
break(c) ==
  /\ failures < MaxFailures /\ failures' = failures + 1
  /\ late' = late \cup {c}
  /\ UNCHANGED <<config, attached, held, step, leaving, todo, move, batch, acked, emptied, purged_late>>
breaks ==
  \/ \E t \in Triples : /\ step = "idle" /\ owner(Bucket[t], members) \in attached
                       /\ break([node |-> owner(Bucket[t], members), insert |-> {t}, purge |-> {}])
  \/ \E t \in batch : /\ step = "insert" /\ move.to \in attached
                     /\ break([node |-> move.to, insert |-> {t}, purge |-> {}])
  \/ /\ step = "insert" /\ batch = {}
     /\ break([node |-> move.from, insert |-> {}, purge |-> {move.shard}])
serve_late(c) ==
  /\ late' = late \ {c} /\ purged_late' = purged_late \cup c.purge
  /\ held' = [held EXCEPT ![c.node] = {t \in @ : Bucket[t] \notin c.purge} \cup c.insert]
  /\ UNCHANGED <<config, attached, step, leaving, todo, move, batch, acked, emptied, failures>>

Next ==
  \/ \E n \in Nodes : add_node(n) \/ remove_node(n)
  \/ \E m \in todo : scan_shard(m)
  \/ \E t \in Triples : insert_one(t) \/ insert(t) \/ insert_fails(t)
  \/ purge_shard \/ finish \/ fail \/ breaks
  \/ \E c \in late : serve_late(c)

Spec == Init /\ [][Next]_vars

\* The stores a read gathers.
readable == [n \in attached |-> held[n]]

-----------------------------------------------------------------------------
(* Properties.                                                             *)

\* Types.
TypeOK ==
  /\ epoch \in Nat /\ members \subseteq Nodes /\ attached \subseteq Nodes
  /\ held \in [Nodes -> SUBSET Triples]
  /\ step \in {"idle", "next", "insert"} /\ leaving \in Nodes \cup {Nil}
  /\ todo \subseteq [shard : Shards, from : Nodes, to : Nodes]
  /\ move \in [shard : Shards, from : Nodes, to : Nodes] \cup {NoMove}
  /\ batch \subseteq Triples /\ acked \subseteq Triples
  /\ emptied \in BOOLEAN /\ failures \in Nat

\* migrate_shard inserts before it purges: wherever an operation fails, and
\* whatever it leaves behind, every acknowledged triple is on some server,
\* unless a purge of its bucket was served late (a bucket that came back to a
\* server in the meantime is then deleted again).
NothingLost == \A t \in acked : Bucket[t] \in purged_late \/ \E n \in Nodes : t \in held[n]

\* add_node, remove_node: as long as no call fails and some member is left,
\* every acknowledged triple is on the server that owns its bucket, and on no
\* other, and the servers hold nothing else. (After a failed call a triple need
\* not even be readable: the new config is in place before the buckets have
\* moved, and remove_node of an old owner then drops the endpoint of what was
\* never migrated.)
OwnersHoldExactly ==
  /\ TypeOK
  /\ step = "idle" /\ members # {} /\ failures = 0 /\ ~emptied =>
       /\ \A t \in acked : {n \in attached : t \in held[n]} = {owner(Bucket[t], members)}
       /\ \A n \in attached : held[n] \subseteq acked

\* Rendezvous hashing: a membership change moves a bucket only to the node
\* that joins or away from the one that leaves.
MinimalMovement ==
  [][\A s \in Shards :
       members # {} /\ members' # {} /\ owner(s, members') # owner(s, members) =>
         owner(s, members') \notin members \/ owner(s, members) \notin members']_vars

\* A migration loses nothing and, without a failed call, leaves every triple
\* with the owner of its bucket alone; only the buckets of the member that came
\* or went change their owner.
MigrationsAreExact == [](NothingLost /\ OwnersHoldExactly) /\ MinimalMovement
=============================================================================
