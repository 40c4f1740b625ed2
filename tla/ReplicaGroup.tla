---------------------------- MODULE ReplicaGroup ----------------------------
(***************************************************************************)
(* src/cluster.rs: ReplicaGroup, one shard bucket replicated by the        *)
(* RaftState machines of its replicas, and the writes ShardedRaftCluster   *)
(* routes to it (every bucket has a group of its own, so one is modelled). *)
(*                                                                         *)
(* Everything runs on the caller's thread: an operation emits messages,    *)
(* deliver() works through them one round trip at a time, feeding replies  *)
(* back, then sync_apply() applies and compacts. An operation starts only  *)
(* when the last one is done.                                              *)
(***************************************************************************)
EXTENDS RaftState, Integers, Scatter

CONSTANTS
  Rank,               \* the numeric replica ids: they order the candidates
  Triples, Ids, Preds,
  OtherBucket,        \* the triples the group of another bucket serves
  compact_threshold,  \* applied entries kept past the snapshot; 0: keep all
  Impatient,          \* bound: replicas whose election timeout a tick may reach
  MaxTerm,            \* bound: no election past this term
  MaxIndex,           \* bound: no write past this log index
  MaxDeliveries       \* the messages one operation may take at these bounds

ASSUME GroupAssumption ==
  /\ Rank \in [Nodes -> Nat] /\ \A m, n \in Nodes : Rank[m] = Rank[n] => m = n
  /\ compact_threshold \in Nat /\ MaxTerm \in Nat /\ MaxIndex \in Nat
  /\ Impatient \subseteq Nodes /\ MaxDeliveries \in Nat

VARIABLES
  st,         \* per replica: its RaftState
  store,      \* per replica: its triple store
  down,       \* replicas that are failed
  phase,      \* "idle", or inside deliver() or the loop of elect()
  src,        \* the replica whose messages are being delivered
  q,          \* the messages deliver() has yet to take
  guard,      \* the messages deliver() has taken
  campaigns,  \* elections the elect() under way has started
  returned,   \* what the operation just run returned, if a write
  committed   \* history variable: the entries committed so far

vars == <<st, store, down, phase, src, q, guard, campaigns, returned, committed>>

Nothing == [op |-> "none", triple |-> Nil, result |-> "none"]

Init ==
  /\ st = [n \in Nodes |-> new(n)]
  /\ store = [n \in Nodes |-> {}]
  /\ down = {} /\ phase = "idle" /\ src = Nil /\ q = << >> /\ guard = 0 /\ campaigns = 0
  /\ returned = Nothing /\ committed = << >>

\* The history after a replica has moved to state s.
extended(s) ==
  IF s.commit_index <= Len(committed) THEN committed
  ELSE committed \o SubSeq(s.log, Len(committed) - s.base_index + 1,
                           s.commit_index - s.base_index)

-----------------------------------------------------------------------------
\* The up replica that leads in the highest term, or Nil.
leader ==
  LET leading == {n \in Nodes \ down : st[n].role = "Leader"}
  IN  IF leading = {} THEN Nil
      ELSE CHOOSE n \in leading : \A m \in leading : st[m].current_term <= st[n].current_term

\* What a read sees: the store of the leader, else of the first up replica.
readable_store ==
  IF leader # Nil THEN store[leader]
  ELSE IF Nodes \ down = {} THEN {}
  ELSE store[CHOOSE n \in Nodes \ down : \A m \in Nodes \ down : Rank[n] <= Rank[m]]

\* The stores a read of the ShardedRaftCluster gathers, one of each bucket.
readable_stores == <<readable_store, OtherBucket>>

\* Replica n moves to s and its messages are to be delivered.
run(n, s, outs) ==
  /\ st' = [st EXCEPT ![n] = s]
  /\ committed' = extended(s)
  /\ src' = n /\ q' = outs /\ guard' = 0

\* tick(): the election or heartbeat timeout of an up replica is reached.
tick(n) ==
  /\ phase = "idle" /\ n \notin down
  /\ st[n].role # "Leader" => n \in Impatient /\ st[n].current_term < MaxTerm
  /\ phase' = "deliver"
  /\ run(n, timeout(st[n]), timeout_outs(timeout(st[n])))
  /\ returned' = Nothing /\ UNCHANGED <<store, down, campaigns>>

\* The most up-to-date up replica; ties go to the lowest id.
candidate ==
  CHOOSE n \in Nodes \ down :
    \A m \in (Nodes \ down) \ {n} :
      \/ last_log_term(st[n]) > last_log_term(st[m])
      \/ /\ last_log_term(st[n]) = last_log_term(st[m])
         /\ \/ last_log_index(st[n]) > last_log_index(st[m])
            \/ last_log_index(st[n]) = last_log_index(st[m]) /\ Rank[n] < Rank[m]

\* ensure_leader(): with no leader, elect() ticks the candidate, and only it,
\* until it leads. Without a quorum of up replicas elect() panics.
ensure_leader ==
  /\ phase = "idle" /\ leader = Nil
  /\ Cardinality(Nodes \ down) >= majority
  /\ \A n \in Nodes : st[n].current_term < MaxTerm - 1
  /\ phase' = "elect" /\ campaigns' = 1
  /\ run(candidate, timeout(st[candidate]), timeout_outs(timeout(st[candidate])))
  /\ returned' = Nothing /\ UNCHANGED <<store, down>>
elect_again ==
  /\ phase = "elect" /\ q = << >> /\ src = Nil /\ leader = Nil
  /\ campaigns' = campaigns + 1
  /\ run(candidate, timeout(st[candidate]), timeout_outs(timeout(st[candidate])))
  /\ UNCHANGED <<store, down, phase, returned>>
elected ==
  /\ phase = "elect" /\ q = << >> /\ src = Nil /\ leader # Nil
  /\ phase' = "idle" /\ campaigns' = 0
  /\ UNCHANGED <<st, store, down, src, q, guard, returned, committed>>

\* propose(): the leader appends and replicates.
propose_and_deliver(op) ==
  /\ phase' = "deliver"
  /\ LET s == propose(st[leader], op) IN run(leader, s, replicate(s))

insert(t) ==
  /\ phase = "idle" /\ UNCHANGED <<store, down, campaigns>>
  /\ \/ /\ t \in readable_store
        /\ returned' = [op |-> "insert", triple |-> t, result |-> "Some(false)"]
        /\ UNCHANGED <<st, phase, src, q, guard, committed>>
     \/ /\ t \notin readable_store /\ leader = Nil
        /\ returned' = [op |-> "insert", triple |-> t, result |-> "None"]
        /\ UNCHANGED <<st, phase, src, q, guard, committed>>
     \/ /\ t \notin readable_store /\ leader # Nil
        /\ last_log_index(st[leader]) < MaxIndex
        /\ returned' = [op |-> "insert", triple |-> t, result |-> "Some(true)"]
        /\ propose_and_deliver([kind |-> "Insert", triple |-> t])

\* Faulty: without a leader the probe reads a follower.
remove_any(t) ==
  /\ phase = "idle" /\ t \notin readable_store
  /\ returned' = [op |-> "remove", triple |-> t, result |-> "Some(false)"]
  /\ UNCHANGED <<st, store, down, phase, src, q, guard, campaigns, committed>>
remove(t) ==
  /\ phase = "idle" /\ UNCHANGED <<store, down, campaigns>>
  /\ \/ /\ leader = Nil
        /\ returned' = [op |-> "remove", triple |-> t, result |-> "None"]
        /\ UNCHANGED <<st, phase, src, q, guard, committed>>
     \/ /\ leader # Nil /\ t \notin readable_store
        /\ returned' = [op |-> "remove", triple |-> t, result |-> "Some(false)"]
        /\ UNCHANGED <<st, phase, src, q, guard, committed>>
     \/ /\ leader # Nil /\ t \in readable_store
        /\ last_log_index(st[leader]) < MaxIndex
        /\ returned' = [op |-> "remove", triple |-> t, result |-> "Some(true)"]
        /\ propose_and_deliver([kind |-> "Delete", triple |-> t])

\* set_down(): a failed replica keeps its state; a restored one steps down.
set_down(n, failed) ==
  /\ phase = "idle" /\ (n \in down) # failed
  /\ down' = IF failed THEN down \cup {n} ELSE down \ {n}
  /\ st' = IF failed THEN st ELSE [st EXCEPT ![n] = note_revived(@)]
  /\ returned' = Nothing
  /\ UNCHANGED <<store, phase, src, q, guard, campaigns, committed>>

-----------------------------------------------------------------------------
\* deliver(): one message, its reply and the messages that follow from it.
deliver_one ==
  /\ q # << >> /\ guard' = guard + 1
  /\ LET m == Head(q)
         h == handle(st[m.to], m)
         r == handle_reply(st[src], m.to, h.reply)
     IN  IF m.to \in down \/ src \in down
         THEN q' = Tail(q) /\ UNCHANGED <<st, committed>>
         ELSE /\ st' = [st EXCEPT ![m.to] = h.state, ![src] = r.state]
              /\ committed' = extended(r.state)
              /\ q' = Tail(q) \o r.outs
  /\ UNCHANGED <<store, down, phase, src, campaigns, returned>>

\* Faulty: the snapshot is the store before this batch is applied.
fold_stale(n, applied) ==
  LET s == drain_apply(st[n])
  IN  IF /\ compact_threshold > 0 /\ n \notin down
         /\ s.last_applied - s.base_index > compact_threshold
      THEN compact(s, s.last_applied, store[n]) ELSE s
\* maybe_compact(), of a replica that has drained its committed entries.
fold(n, applied) ==
  LET s == drain_apply(st[n])
  IN  IF /\ compact_threshold > 0 /\ n \notin down
         /\ s.last_applied - s.base_index > compact_threshold
      THEN compact(s, s.last_applied, applied) ELSE s

\* sync_apply(): the queue is empty; every replica applies what it committed.
sync_apply ==
  /\ q = << >> /\ src # Nil
  /\ LET applied(n) == FoldLeft(act, store[n], drained(st[n]))
     IN  /\ store' = [n \in Nodes |-> applied(n)]
         /\ st' = [n \in Nodes |-> fold(n, applied(n))]
  /\ src' = Nil /\ guard' = 0
  /\ phase' = IF phase = "deliver" THEN "idle" ELSE phase
  /\ UNCHANGED <<down, q, campaigns, returned, committed>>

Next ==
  \/ deliver_one \/ sync_apply \/ elect_again \/ elected
  \/ ensure_leader
  \/ \E n \in Nodes : tick(n) \/ \E failed \in BOOLEAN : set_down(n, failed)
  \/ \E t \in Triples : insert(t) \/ remove(t)

Spec == Init /\ [][Next]_vars

-----------------------------------------------------------------------------
(* Properties.                                                             *)

\* Types, and how one replica's indices are ordered.
TypeOK ==
  /\ \A n \in Nodes :
       /\ st[n].id = n /\ st[n].role \in Role /\ st[n].current_term \in 0 .. MaxTerm
       /\ st[n].base_index <= st[n].last_applied
       /\ st[n].last_applied <= st[n].commit_index
       /\ st[n].commit_index <= last_log_index(st[n])
       /\ st[n].role = "Leader" =>
            \A p \in peers(st[n]) : st[n].next_index[p] \in 1 .. last_log_index(st[n]) + 1
  /\ store \in [Nodes -> SUBSET Triples]
  /\ down \subseteq Nodes /\ phase \in {"idle", "deliver", "elect"}
  /\ src \in Nodes \cup {Nil} /\ guard \in Nat /\ campaigns \in Nat
  /\ phase = "idle" => src = Nil /\ q = << >> /\ campaigns = 0

\* The store the first i committed entries lead to.
Replay(i) ==
  FoldLeft(LAMBDA s, e : act(s, e.op), {}, SubSeq(committed, 1, i))

\* sync_apply, maybe_compact, handle_install_snapshot: whether a replica
\* caught up by log or by snapshot, its store and its snapshot are the
\* committed prefix it claims to have applied or folded.
ReplicasAreReplays ==
  TypeOK /\ \A n \in Nodes :
    /\ st[n].pending_reset = << >> => store[n] = Replay(st[n].last_applied)
    /\ st[n].snapshot = Replay(st[n].base_index)
    /\ \A i \in st[n].base_index + 1 .. st[n].commit_index :
         st[n].log[i - st[n].base_index] = committed[i]

\* become_leader's no-op, ensure_leader: whenever the group has a leader, the
\* store it serves reads and presence checks from is everything committed, and
\* the reads that gather the buckets are those of one store.
LeaderServesAllCommitted ==
  phase = "idle" /\ leader # Nil =>
    /\ store[leader] = Replay(Len(committed))
    /\ SameAsSingle(readable_stores, Replay(Len(committed)) \cup OtherBucket, Ids, Preds)

\* ensure_leader ("always wins the quorum"): with a quorum up, its candidate
\* needs at most a second election, to get past a term it had not seen.
SecondElectionWins == campaigns <= 2

\* deliver: the exchange an operation sets off ends by itself, after at most
\* MaxDeliveries messages: its guard against spinning is never what ends it.
GuardIsNeverReached == guard <= MaxDeliveries

\* ShardedRaftCluster::remove ("a silently-lost delete the caller never
\* retries" is ruled out) and ::insert ("the check against the leader's
\* committed store"): a triple that remove calls absent is not in the committed
\* state, and one that insert calls present is, if a leader was probed. (With no
\* leader insert probes the first up replica, which may be behind.)
ProbesAreCurrent ==
  [][returned' # returned /\ returned'.result = "Some(false)" =>
       IF returned'.op = "remove" THEN returned'.triple \notin Replay(Len(committed))
       ELSE leader # Nil => returned'.triple \in Replay(Len(committed))]_vars

\* ShardedRaftCluster::insert_all counts each insert that answers Some(true) as
\* newly committed: so it is, if a quorum was up. (Without one the leader still
\* accepts the entry, and it is counted although it may never be committed.)
InsertedIsCommitted ==
  /\ phase = "idle" /\ returned.op = "insert" /\ returned.result = "Some(true)"
  /\ Cardinality(Nodes \ down) >= majority
  => \E i \in DOMAIN committed : committed[i].op = [kind |-> "Insert", triple |-> returned.triple]
=============================================================================
