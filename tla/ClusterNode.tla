----------------------------- MODULE ClusterNode -----------------------------
(***************************************************************************)
(* src/cluster.rs: ClusterNode, one Raft group over TCP. The threads of a  *)
(* node are its driver (tick), one per connection (handle_request) and     *)
(* those of its clients (propose). They share the node's RaftState under   *)
(* its mutex and push messages by synchronous RPC outside it: the driver   *)
(* and a client each work through a queue of their own, and the clients    *)
(* mutex lets one round trip of a node be in flight at a time.             *)
(*                                                                         *)
(* A round trip that times out may have reached its peer, may reach it     *)
(* later (the old connection's thread is still reading), and is retried    *)
(* once. The transport never compacts, so it sends no snapshot: see        *)
(* ReplicaGroup for those.                                                 *)
(***************************************************************************)
EXTENDS RaftState

CONSTANTS
  Ops,           \* Ops[n]: mutations clients submit to node n
  Campaigns,     \* bound: <<term, node>> for the elections that may be started
  Mortal,        \* bound: nodes that kill() may stop
  Threads,       \* threads of a node that send: "driver", and "client" if clients
                 \* write while the driver is not asleep
  MaxLog,        \* bound: no client mutation past this log length
  MaxLate,       \* bound: round trips that time out
  MaxLateAtKill  \* bound: no kill() after more of them

ASSUME BoundsAssumption ==
  /\ Campaigns \subseteq (Nat \X Nodes) /\ Mortal \subseteq Nodes
  /\ DOMAIN Ops = Nodes /\ "driver" \in Threads
  /\ \A n \in Nodes : \A op \in Ops[n] : op.kind \in {"Insert", "Delete", "AddNode", "RemoveNode"}
  /\ MaxLog \in Nat /\ MaxLate \in Nat /\ MaxLateAtKill \in Nat

ClientThread == IF "client" \in Threads THEN "client" ELSE "driver"
AllOps == UNION {Ops[n] : n \in Nodes}
Triples == {op.triple : op \in {o \in AllOps : o.kind \in {"Insert", "Delete"}}}
Members == {op.id : op \in {o \in AllOps : o.kind \in {"AddNode", "RemoveNode"}}}

VARIABLES
  st,         \* per node: its RaftState
  store,      \* per node: its replicated triple store
  config,     \* per node: its replicated ClusterConfig
  applying,   \* per node: drained and not yet applied; apply_lock is held
  alive,      \* per node: the kill/revive switch
  proposed,   \* nodes whose client thread is between propose and replicate_now
  queue,      \* per node and thread: messages dispatch_outgoing has yet to send
  flight,     \* per node and thread: an answer that is not handled yet
  late,       \* requests given up on, that a peer may yet handle
  elected,    \* history variable: <<term, node>> of every election won
  committed   \* history variable: the longest prefix any node committed

raft == <<st, elected, committed>>
machine == <<store, config, applying>>
threads == <<proposed, queue, flight, late>>
vars == <<raft, machine, alive, threads>>

Init ==
  /\ st = [n \in Nodes |-> new(n)]
  /\ store = [n \in Nodes |-> {}]
  /\ config = [n \in Nodes |-> [epoch |-> 0, members |-> {}]]
  /\ applying = [n \in Nodes |-> << >>]
  /\ alive = [n \in Nodes |-> TRUE]
  /\ proposed = {}
  /\ queue = [n \in Nodes |-> [t \in Threads |-> << >>]]
  /\ flight = [n \in Nodes |-> [t \in Threads |-> Nil]]
  /\ late = {}
  /\ elected = {} /\ committed = << >>

\* A thread runs apply_actions() before it sends again or answers: it goes on
\* when what its node had committed is applied. (It may also wait here for a
\* later batch of another thread, which changes nothing a sender reads.)
Applied(n) == applying[n] = << >> /\ drained(st[n]) = << >>

\* Node n moves to state s; the history variables follow.
becomes(n, s) ==
  /\ st' = [st EXCEPT ![n] = s]
  /\ elected' = IF s.role = "Leader" THEN elected \cup {<<s.current_term, n>>} ELSE elected
  /\ committed' = IF s.commit_index > Len(committed)
                  THEN SubSeq(s.log, 1, s.commit_index) ELSE committed

-----------------------------------------------------------------------------
(* The threads that send.                                                  *)

\* run_driver: a tick finds the election or heartbeat timeout reached.
tick(n) ==
  /\ alive[n] /\ queue[n]["driver"] = << >>
  /\ ClientThread = "driver" => n \notin proposed
  /\ st[n].role # "Leader" => <<st[n].current_term + 1, n>> \in Campaigns
  /\ becomes(n, timeout(st[n]))
  /\ queue' = [queue EXCEPT ![n]["driver"] = timeout_outs(timeout(st[n]))]
  /\ UNCHANGED <<machine, alive, proposed, flight, late>>

\* propose(): the leader appends (elsewhere the client gets a redirect) ...
client_write(n, op) ==
  /\ n \notin proposed /\ queue[n][ClientThread] = << >>
  /\ st[n].role = "Leader" /\ Len(st[n].log) < MaxLog
  /\ becomes(n, propose(st[n], op))
  /\ proposed' = proposed \cup {n}
  /\ UNCHANGED <<machine, alive, queue, flight, late>>
\* ... and takes the state lock again to replicate, if it still leads.
replicate_now(n) ==
  /\ n \in proposed
  /\ proposed' = proposed \ {n}
  /\ queue' = [queue EXCEPT ![n][ClientThread] =
                 IF st[n].role = "Leader" THEN replicate(st[n]) ELSE << >>]
  /\ UNCHANGED <<raft, machine, alive, flight, late>>

\* handle_request(): the peer handles the message of the round trip. The clients
\* mutex of the node is free again when the answer is there, and another thread
\* may send before it is handled.
handle_request(n, t) ==
  /\ flight[n][t] = Nil /\ queue[n][t] # << >>
  /\ alive[n] /\ Applied(n)
  /\ LET m == Head(queue[n][t])
         h == handle(st[m.to], m)
     IN  /\ alive[m.to]
         /\ becomes(m.to, h.state)
         /\ flight' = [flight EXCEPT ![n][t] = [to |-> m.to, reply |-> h.reply]]
  /\ UNCHANGED <<machine, alive, proposed, queue, late>>

\* dispatch_outgoing(): the reply is fed back, and the queue extended. The
\* thread looked at alive before it sent and does not look again.
receive_reply(n, t) ==
  /\ flight[n][t] # Nil /\ Applied(flight[n][t].to)
  /\ LET f == flight[n][t]
         h == handle_reply(st[n], f.to, f.reply)
     IN  /\ becomes(n, h.state)
         /\ queue' = [queue EXCEPT ![n][t] = Tail(@) \o h.outs]
  /\ flight' = [flight EXCEPT ![n][t] = Nil]
  /\ UNCHANGED <<machine, alive, proposed, late>>

\* send_msg() fails on a dead peer, both times, and the message is dropped.
unreachable(n, t) ==
  /\ flight[n][t] = Nil /\ queue[n][t] # << >>
  /\ ~alive[Head(queue[n][t]).to]
  /\ queue' = [queue EXCEPT ![n][t] = Tail(@)]
  /\ UNCHANGED <<raft, machine, alive, proposed, flight, late>>

\* The read timeout expires before or after the peer handled the request; the
\* first time it is sent again, the second it is dropped. The peer may handle
\* the request of the abandoned connection at any later time.
time_out(n, t, again) ==
  /\ queue[n][t] # << >>
  /\ Cardinality(late) < MaxLate
  /\ late' = late \cup {Head(queue[n][t])}
  /\ flight' = [flight EXCEPT ![n][t] = Nil]
  /\ queue' = [queue EXCEPT ![n][t] = IF again THEN @ ELSE Tail(@)]
  /\ UNCHANGED <<raft, machine, alive, proposed>>
handle_late(m) ==
  /\ alive[m.to]
  /\ becomes(m.to, handle(st[m.to], m).state)
  /\ UNCHANGED <<machine, alive, threads>>

\* A thread of a killed node gives up its queue before the next send.
abandon(n, t) ==
  /\ ~alive[n] /\ queue[n][t] # << >> /\ flight[n][t] = Nil
  /\ queue' = [queue EXCEPT ![n][t] = << >>]
  /\ UNCHANGED <<raft, machine, alive, proposed, flight, late>>

-----------------------------------------------------------------------------
(* The state machine every thread applies committed entries to.            *)

\* Faulty: without apply_lock a second thread drains and overtakes the first.
drain_unlocked(n) ==
  /\ drained(st[n]) # << >>
  /\ applying' = [applying EXCEPT ![n] = drained(st[n]) \o @]
  /\ st' = [st EXCEPT ![n] = drain_apply(@)]
  /\ UNCHANGED <<elected, committed, store, config, alive, threads>>
\* apply_actions(): take apply_lock and drain under the state lock ...
drain(n) ==
  /\ applying[n] = << >> /\ drained(st[n]) # << >>
  /\ applying' = [applying EXCEPT ![n] = drained(st[n])]
  /\ st' = [st EXCEPT ![n] = drain_apply(@)]
  /\ UNCHANGED <<elected, committed, store, config, alive, threads>>

\* ClusterConfig::apply: a change of membership bumps the epoch.
reconfigure(c, op) ==
  CASE op.kind = "AddNode" /\ op.id \notin c.members ->
         [epoch |-> c.epoch + 1, members |-> c.members \cup {op.id}]
    [] op.kind = "RemoveNode" /\ op.id \in c.members ->
         [epoch |-> c.epoch + 1, members |-> c.members \ {op.id}]
    [] OTHER -> c

\* ... then write the actions to the store or the config, one lock at a time.
apply_one(n) ==
  /\ applying[n] # << >>
  /\ store' = [store EXCEPT ![n] = act(@, Head(applying[n]))]
  /\ config' = [config EXCEPT ![n] = reconfigure(@, Head(applying[n]))]
  /\ applying' = [applying EXCEPT ![n] = Tail(@)]
  /\ UNCHANGED <<raft, alive, threads>>

kill(n) ==
  /\ n \in Mortal /\ alive[n] /\ Cardinality(late) <= MaxLateAtKill
  /\ alive' = [alive EXCEPT ![n] = FALSE]
  /\ UNCHANGED <<raft, machine, threads>>
revive(n) ==
  /\ ~alive[n]
  /\ alive' = [alive EXCEPT ![n] = TRUE]
  /\ st' = [st EXCEPT ![n] = note_revived(@)]
  /\ UNCHANGED <<elected, committed, machine, threads>>

Sending ==
  \E n \in Nodes :
    \/ tick(n) \/ replicate_now(n)
    \/ \E op \in Ops[n] : client_write(n, op)
    \/ \E t \in Threads : handle_request(n, t) \/ receive_reply(n, t) \/ unreachable(n, t) \/ abandon(n, t)
    \/ \E t \in Threads, again \in BOOLEAN : time_out(n, t, again)
Next ==
  \/ Sending
  \/ \E m \in late : handle_late(m)
  \/ \E n \in Nodes : drain(n) \/ apply_one(n) \/ kill(n) \/ revive(n)

\* Clients send writes and reads. Any request but the Raft ones goes to the
\* plain shard dispatch, so a PurgeShard request would empty a bucket of this
\* one replica outside the log; the specification has no such client.
Spec == Init /\ [][Next]_vars

-----------------------------------------------------------------------------
(* Properties.                                                             *)
Terms == {c[1] : c \in Campaigns}
Entries == [term : Terms, op : AllOps \cup {Noop}]

\* Types, and how one node's indices are ordered.
TypeOK ==
  /\ \A n \in Nodes :
       /\ st[n].id = n /\ st[n].role \in Role /\ st[n].current_term \in {0} \cup Terms
       /\ st[n].voted_for \in Nodes \cup {Nil} /\ st[n].leader_id \in Nodes \cup {Nil}
       /\ st[n].log \in Seq(Entries) /\ st[n].base_index = 0
       /\ 0 <= st[n].last_applied /\ st[n].last_applied <= st[n].commit_index
       /\ st[n].commit_index <= Len(st[n].log)
       /\ st[n].votes_granted \subseteq Nodes
       /\ st[n].role = "Leader" =>
            \A p \in peers(st[n]) : st[n].next_index[p] \in 1 .. Len(st[n].log) + 1
       /\ \A t \in Threads : \A i \in DOMAIN queue[n][t] :
            queue[n][t][i].from = n /\ queue[n][t][i].to \in peers(st[n])
  /\ store \in [Nodes -> SUBSET Triples]
  /\ config \in [Nodes -> [epoch : Nat, members : SUBSET Members]]
  /\ alive \in [Nodes -> BOOLEAN] /\ proposed \subseteq Nodes

\* Split-brain prevention (observe_term, handle_request_vote): no two nodes
\* ever win the election of one term.
ElectionSafety == \A e, f \in elected : e[1] = f[1] => e = f

\* The log-consistency check of handle_append_entries: two logs that agree on
\* the term of an index agree on everything up to it.
LogMatching ==
  /\ TypeOK
  /\ \A m, n \in Nodes :
       \A i \in DOMAIN st[m].log \cap DOMAIN st[n].log :
         st[m].log[i].term = st[n].log[i].term =>
           SubSeq(st[m].log, 1, i) = SubSeq(st[n].log, 1, i)

\* Leader completeness (the vote's up-to-date check, advance_commit's
\* current-term rule): the newest leader holds every committed entry.
NewestLeaderIsComplete ==
  \A n \in Nodes :
    st[n].role = "Leader" /\ (\A e \in elected : e[1] <= st[n].current_term) =>
      IsPrefix(committed, st[n].log)

\* Raft's safety argument in RaftState: one leader a term, logs that agree up
\* to any common entry, and leaders that hold all that was committed.
RaftIsSafe == ElectionSafety /\ LogMatching /\ NewestLeaderIsComplete

\* The store and the config that a prefix of the log leads to.
Replay(ops) ==
  LET f[i \in 0 .. Len(ops)] ==
        IF i = 0 THEN [store |-> {}, config |-> [epoch |-> 0, members |-> {}]]
        ELSE [store |-> act(f[i - 1].store, ops[i].op),
              config |-> reconfigure(f[i - 1].config, ops[i].op)]
  IN  f[Len(ops)]

\* apply_actions: at every moment a node serves exactly the state of a prefix
\* of the committed log, so nodes that applied as much agree on both the
\* triples and the membership.
ReplicasAreReplays ==
  \A n \in Nodes :
    [store |-> store[n], config |-> config[n]] =
      Replay(SubSeq(committed, 1, st[n].last_applied - Len(applying[n])))

\* A committed entry is never truncated, and commit_index never goes back,
\* whatever stale request or reply a node handles.
CommitIsFinal ==
  [][\A n \in Nodes :
       /\ st'[n].commit_index >= st[n].commit_index
       /\ IsPrefix(SubSeq(st[n].log, 1, st[n].commit_index), st'[n].log)]_vars

-----------------------------------------------------------------------------
(* The instance.                                                           *)

\* n1 leads, n2 follows it, then both want term 3.
Contested == {<<1, "n1">>, <<2, "n2">>, <<3, "n1">>, <<3, "n2">>}

\* n1's clients insert a triple, n2's add a member.
Writes ==
  [n \in Nodes |-> CASE n = "n1" -> {[kind |-> "Insert", triple |-> "t1"]}
                     [] n = "n2" -> {[kind |-> "AddNode", id |-> "m1"]}
                     [] OTHER -> {}]
=============================================================================
