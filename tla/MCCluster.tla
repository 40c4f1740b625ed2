----------------------------- MODULE MCCluster -----------------------------
(***************************************************************************)
(* The sharded and replicated stores, each on an instance of its own: a    *)
(* behaviour is one of a replica group, of a shard cluster that migrates   *)
(* buckets, of a store with a remote shard, or one message on the wire.    *)
(***************************************************************************)
EXTENDS ReplicaGroup

CONSTANTS r0, r1, r2, n1, n2, n3, s1, s2

VARIABLES part,
          \* ShardCluster
          epoch, members, attached, held, step, leaving, todo, move, batch, acked, emptied, failures, late, purged_late,
          \* RemoteShards
          stores, conn, wires, pc, req, at, attempt, got, dropped, before, stored, added, breaks,
          \* Rpc
          message

shardVars == <<epoch, members, attached, held, step, leaving, todo, move, batch, acked, emptied, failures, late, purged_late>>
remoteVars == <<stores, conn, wires, pc, req, at, attempt, got, dropped, before, stored, added, breaks>>

ReplicaIds == [n \in {r0, r1, r2} |-> CASE n = r0 -> 0 [] n = r1 -> 1 [] n = r2 -> 2]
GroupTriples == {<<1, 1, 2>>}
OtherTriples == {<<2, 1, 2>>}

\* Two triples share a bucket; each bucket ranks the servers its own way.
ClusterTriples == {<<1, 1, 2>>, <<1, 2, 1>>, <<2, 1, 2>>}
Routing == [t \in ClusterTriples |-> IF t[1] = 2 THEN s2 ELSE s1]
Hash == [s \in {s1, s2} |->
           IF s = s1 THEN [n \in {n1, n2, n3} |-> CASE n = n1 -> 1 [] n = n2 -> 2 [] n = n3 -> 3]
           ELSE [n \in {n1, n2, n3} |-> CASE n = n1 -> 5 [] n = n2 -> 4 [] n = n3 -> 6]]
Elastic == INSTANCE ShardCluster WITH
  Nodes <- {n1, n2, n3}, Shards <- {s1, s2}, Triples <- ClusterTriples, Bucket <- Routing, Weight <- Hash,
  MaxEpoch <- 4, MaxFailures <- 2

\* Shard 1 is local, shard 2 remote.
RemoteQueries == {[kind |-> "SoByP", pred |-> 1], [kind |-> "TripleCount"], [kind |-> "Exists", sub |-> 2, pred |-> 2, obj |-> 1]}
Remote == INSTANCE RemoteShards WITH
  Shards <- {1, 2}, Remote <- {2}, Triples <- {<<1, 1, 2>>, <<2, 1, 2>>, <<2, 2, 1>>}, shard_of <- [i \in 1..2 |-> i],
  Queries <- RemoteQueries, MaxFailures <- 2, acked <- stored, failures <- breaks

\* A base that holds every tag.
Wire == INSTANCE Rpc WITH BASE <- 24, U32 <- 2, U64 <- 3, MAX_FRAME <- 30, Addrs <- {<<1, 2>>, <<3>>}

\* The assumptions of the instances, for these constants.
ASSUME InstanceAssumptions == Elastic!ShardAssumption /\ Remote!RemoteAssumption

ClusterInit ==
  /\ Init /\ Elastic!Init /\ Remote!Init
  /\ \/ part \in {"group", "shards"} /\ message = Nil /\ stores = [i \in {1, 2} |-> {}]
     \/ part = "remote" /\ message = Nil
     \/ /\ part = "request" /\ stores = [i \in {1, 2} |-> {}] /\ message \in Wire!Requests
     \/ /\ part = "response" /\ stores = [i \in {1, 2} |-> {}] /\ message \in Wire!Responses
ClusterNext ==
  /\ UNCHANGED <<part, message>>
  /\ \/ part = "group" /\ Next /\ UNCHANGED <<shardVars, remoteVars>>
     \/ part = "shards" /\ Elastic!Next /\ UNCHANGED <<vars, remoteVars>>
     \/ part = "remote" /\ Remote!Next /\ UNCHANGED <<vars, shardVars>>
ClusterSpec == ClusterInit /\ [][ClusterNext]_<<part, message, vars, shardVars, remoteVars>>

-----------------------------------------------------------------------------
\* A group's leader serves everything committed, and an insert counted as newly
\* committed is, if a quorum is up.
CommittedIsServed == part = "group" => LeaderServesAllCommitted /\ InsertedIsCommitted
\* Replicas are replays of the committed log.
GroupReplays == part = "group" => ReplicasAreReplays
\* Two election rounds are enough, and deliver's guard is never what ends it.
ElectionsAreShort == part = "group" => SecondElectionWins /\ GuardIsNeverReached
\* An in-process group elects a leader whenever a quorum is up, and serves what
\* its log says (elect, deliver, leader_store).
GroupServesItsLog == ElectionsAreShort /\ GroupReplays /\ CommittedIsServed
\* A migration loses nothing and, without a failed call, leaves every triple
\* with the owner of its bucket alone; only the buckets of the member that came
\* or went change their owner.
MigrationsAreExact ==
  [](Elastic!NothingLost /\ Elastic!OwnersHoldExactly) /\ Elastic!MinimalMovement
\* Between changes of membership, as long as no call failed and some member was
\* always left, a read gathered from the servers is that of one store.
ElasticReadsAgree ==
  part = "shards" /\ step = "idle" /\ members # {} /\ failures = 0 /\ ~emptied =>
    SameAsSingle(Elastic!readable, acked, Ids, Preds)
\* Reads and routed inserts over local and remote shards are those of one store,
\* with connections that break and requests that are repeated or served late.
RemoteShardsAgree ==
  part = "remote" => Remote!AnswersAreCurrent /\ Remote!RoutedInsertsAreExact /\ Remote!ScatterAgrees
\* Requests and responses are read as they were written, or not at all.
MessagesAreRead ==
  /\ part = "request" => Wire!RequestIsRead(message)
  /\ part = "response" => Wire!ResponseIsRead(message)
\* A call on a remote shard is written, sent, served and read as a call on a
\* local one would be served (RemoteShard::call, Request, Response), also when
\* buckets have moved between the servers.
RemoteCallsAgree == RemoteShardsAgree /\ MessagesAreRead /\ ElasticReadsAgree

=============================================================================
