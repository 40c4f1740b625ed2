------------------------------ MODULE RaftState ------------------------------
(***************************************************************************)
(* src/cluster.rs: RaftState, the pure replication state machine of one    *)
(* node. As in the code it is a value with no clock and no transport: an   *)
(* input maps a state to the next one, the messages to send and the store  *)
(* actions to apply. The drivers (ClusterNode, ReplicaGroup) own the       *)
(* interleaving.                                                           *)
(*                                                                         *)
(* The election and heartbeat timers are left to the drivers: a randomized *)
(* timeout may expire at any tick. A triple store is the set of triples in *)
(* it; a snapshot is such a set.                                           *)
(***************************************************************************)
EXTENDS Naturals, Sequences, FiniteSets, SequencesExt

CONSTANTS
  Nodes,   \* node ids of the (fixed) replication group
  Nil      \* no node: an Option<NodeId> that is None

ASSUME NodesAssumption == IsFiniteSet(Nodes) /\ Nodes # {} /\ Nil \notin Nodes

Role == {"Follower", "Candidate", "Leader"}
Noop == [kind |-> "Noop"]

new(n) ==
  [id |-> n, role |-> "Follower", current_term |-> 0, voted_for |-> Nil,
   leader_id |-> Nil, log |-> << >>, base_index |-> 0, base_term |-> 0,
   snapshot |-> {}, commit_index |-> 0, last_applied |-> 0,
   votes_granted |-> {}, next_index |-> [p \in Nodes |-> 1],
   match_index |-> [p \in Nodes |-> 0], pending_reset |-> << >>]

peers(s) == Nodes \ {s.id}
peer_list(s) == SetToSeq(peers(s))
majority == Cardinality(Nodes) \div 2 + 1
last_log_index(s) == s.base_index + Len(s.log)
last_log_term(s) == IF s.log = << >> THEN s.base_term ELSE s.log[Len(s.log)].term
term_at(s, i) ==
  CASE i = 0 -> 0
    [] i > s.base_index /\ i <= last_log_index(s) -> s.log[i - s.base_index].term
    [] OTHER -> s.base_term

observe_term(s, term) ==
  IF term > s.current_term
  THEN [s EXCEPT !.current_term = term, !.voted_for = Nil, !.role = "Follower",
                 !.leader_id = Nil, !.votes_granted = {}]
  ELSE s

-----------------------------------------------------------------------------
(* Replication.                                                            *)
append_entries(s, p) ==
  [type |-> "AppendEntries", from |-> s.id, to |-> p, term |-> s.current_term,
   prev_log_index |-> s.next_index[p] - 1,
   prev_log_term |-> term_at(s, s.next_index[p] - 1),
   leader_commit |-> s.commit_index,
   entries |-> SubSeq(s.log, s.next_index[p] - s.base_index, Len(s.log))]
install_snapshot(s, p) ==
  [type |-> "InstallSnapshot", from |-> s.id, to |-> p, term |-> s.current_term,
   last_included_index |-> s.base_index, last_included_term |-> s.base_term,
   triples |-> s.snapshot]
replicate_to(s, p) ==
  IF s.next_index[p] <= s.base_index THEN install_snapshot(s, p) ELSE append_entries(s, p)
replicate(s) == [i \in DOMAIN peer_list(s) |-> replicate_to(s, peer_list(s)[i])]

\* The indices past commit_index that a majority holds, of the current term.
agreed(s) ==
  {n \in s.commit_index + 1 .. last_log_index(s) :
     /\ term_at(s, n) = s.current_term
     /\ Cardinality({p \in peers(s) : s.match_index[p] >= n}) + 1 >= majority}
advance_commit(s) ==
  [s EXCEPT !.commit_index =
     IF agreed(s) = {} THEN @ ELSE CHOOSE n \in agreed(s) : \A m \in agreed(s) : m <= n]

\* Leader only: append a client mutation; a group of one commits at once.
propose(s, op) ==
  LET t == [s EXCEPT !.log = Append(@, [term |-> s.current_term, op |-> op])]
  IN  IF peers(s) = {} THEN advance_commit(t) ELSE t

-----------------------------------------------------------------------------
(* Elections.                                                              *)
become_leader(s) ==
  LET log == IF last_log_index(s) > s.commit_index
             THEN Append(s.log, [term |-> s.current_term, op |-> Noop])
             ELSE s.log
  IN  [s EXCEPT !.role = "Leader", !.leader_id = s.id, !.log = log,
                !.next_index = [p \in Nodes |-> s.base_index + Len(log) + 1],
                !.match_index = [p \in Nodes |-> 0]]

start_election(s) ==
  LET t == [s EXCEPT !.current_term = @ + 1, !.role = "Candidate", !.voted_for = s.id,
                     !.votes_granted = {s.id}, !.leader_id = Nil]
  IN  IF majority = 1 THEN become_leader(t) ELSE t
request_vote(s, p) ==
  [type |-> "RequestVote", from |-> s.id, to |-> p, term |-> s.current_term,
   last_log_index |-> last_log_index(s), last_log_term |-> last_log_term(s)]

\* tick() past the timeout: the state, and what it sends from that state.
timeout(s) == IF s.role = "Leader" THEN s ELSE start_election(s)
timeout_outs(s) ==
  IF s.role = "Leader" THEN replicate(s)
  ELSE [i \in DOMAIN peer_list(s) |-> request_vote(s, peer_list(s)[i])]

-----------------------------------------------------------------------------
(* Requests: handle() returns the receiver's next state and its reply.     *)
answer(s, reply) == [state |-> s, reply |-> reply]
VoteReply(s, granted) == [type |-> "Vote", term |-> s.current_term, granted |-> granted]
AppendReply(s, success, m) ==
  [type |-> "Append", term |-> s.current_term, success |-> success, match_index |-> m]
SnapshotReply(s) == [type |-> "Snapshot", term |-> s.current_term]

up_to_date(s, m) ==
  \/ m.last_log_term > last_log_term(s)
  \/ m.last_log_term = last_log_term(s) /\ m.last_log_index >= last_log_index(s)

handle_request_vote(s, m) ==
  LET t == observe_term(s, m.term)
      granted == t.voted_for \in {Nil, m.from} /\ up_to_date(t, m)
  IN  IF m.term < s.current_term THEN answer(s, VoteReply(s, FALSE))
      ELSE IF granted
           THEN answer([t EXCEPT !.voted_for = m.from, !.role = "Follower"], VoteReply(t, TRUE))
           ELSE answer(t, VoteReply(t, FALSE))

\* The log-consistency check: the receiver holds the entry before the new ones.
\* Faulty: any entry at that index will do.
consistent_length(s, m) == m.prev_log_index <= last_log_index(s)
consistent(s, m) ==
  /\ m.prev_log_index <= last_log_index(s)
  /\ m.prev_log_index > s.base_index => term_at(s, m.prev_log_index) = m.prev_log_term

\* The entries of m past the snapshot that are missing, or of another term.
fresh(s, m) ==
  LET index(i) == m.prev_log_index + i
  IN  {i \in 1 .. Len(m.entries) :
         /\ index(i) > s.base_index
         /\ index(i) > last_log_index(s) \/ term_at(s, index(i)) # m.entries[i].term}
\* The log after the entries of m: replaced from the first fresh one on.
merge(s, m) ==
  LET c == CHOOSE i \in fresh(s, m) : \A j \in fresh(s, m) : i <= j
  IN  IF fresh(s, m) = {} THEN s.log
      ELSE SubSeq(s.log, 1, m.prev_log_index + c - 1 - s.base_index) \o SubSeq(m.entries, c, Len(m.entries))

\* Faulty: the leader's commit index is taken even when it is older.
follower_commit_any(s, m, last) ==
  IF m.leader_commit < last THEN m.leader_commit ELSE last
\* The commit index a follower takes over, last being its last log index.
follower_commit(s, m, last) ==
  IF m.leader_commit <= s.commit_index THEN s.commit_index
  ELSE IF m.leader_commit < last THEN m.leader_commit ELSE last

handle_append_entries(s, m) ==
  LET t == [observe_term(s, m.term) EXCEPT !.role = "Follower", !.leader_id = m.from]
      u == [t EXCEPT !.log = merge(t, m)]
      hint == IF m.prev_log_index > last_log_index(t) THEN last_log_index(t)
              ELSE m.prev_log_index - 1
  IN  IF m.term < s.current_term THEN answer(s, AppendReply(s, FALSE, 0))
      ELSE IF ~consistent(t, m) THEN answer(t, AppendReply(t, FALSE, hint))
      ELSE answer([u EXCEPT !.commit_index = follower_commit(s, m, last_log_index(u))],
                  AppendReply(t, TRUE, m.prev_log_index + Len(m.entries)))

handle_install_snapshot(s, m) ==
  LET t == [observe_term(s, m.term) EXCEPT !.role = "Follower", !.leader_id = m.from]
      u == [t EXCEPT !.base_index = m.last_included_index, !.base_term = m.last_included_term,
                     !.log = << >>, !.snapshot = m.triples, !.pending_reset = <<m.triples>>,
                     !.commit_index = m.last_included_index,
                     !.last_applied = m.last_included_index]
  IN  IF m.term < s.current_term THEN answer(s, SnapshotReply(s))
      ELSE IF m.last_included_index > s.commit_index THEN answer(u, SnapshotReply(u))
      ELSE answer(t, SnapshotReply(t))

handle(s, m) ==
  CASE m.type = "RequestVote" -> handle_request_vote(s, m)
    [] m.type = "AppendEntries" -> handle_append_entries(s, m)
    [] m.type = "InstallSnapshot" -> handle_install_snapshot(s, m)

-----------------------------------------------------------------------------
(* Replies: handle_reply() returns the sender's next state and messages.   *)
sends(s, outs) == [state |-> s, outs |-> outs]

handle_vote(s, from, r) ==
  LET t == [s EXCEPT !.votes_granted = @ \cup {from}]
  IN  IF s.role # "Candidate" \/ r.term < s.current_term \/ ~r.granted THEN sends(s, << >>)
      ELSE IF Cardinality(t.votes_granted) >= majority
           THEN sends(become_leader(t), replicate(become_leader(t)))
           ELSE sends(t, << >>)

\* A log mismatch: back up next_index.
back(s, from, r) ==
  LET hint == r.match_index + 1
      fewer == IF s.next_index[from] > 2 THEN s.next_index[from] - 1 ELSE 1
  IN  [s EXCEPT !.next_index[from] = IF hint < fewer THEN hint ELSE fewer]

handle_append_ack(s, from, r) ==
  LET acked == advance_commit([s EXCEPT !.match_index[from] = r.match_index,
                                        !.next_index[from] = r.match_index + 1])
      more == IF acked.next_index[from] <= last_log_index(acked) THEN <<replicate_to(acked, from)>>
              ELSE IF acked.commit_index > s.commit_index THEN replicate(acked)
              ELSE << >>
  IN  IF s.role # "Leader" \/ r.term < s.current_term THEN sends(s, << >>)
      ELSE IF r.success THEN sends(acked, more)
      ELSE sends(back(s, from, r), <<replicate_to(back(s, from, r), from)>>)

handle_snapshot_ack(s, from) ==
  LET t == [s EXCEPT !.match_index[from] = s.base_index, !.next_index[from] = s.base_index + 1]
  IN  IF s.role # "Leader" THEN sends(s, << >>) ELSE sends(t, <<replicate_to(t, from)>>)

handle_reply(s, from, r) ==
  IF r.term > s.current_term THEN sends(observe_term(s, r.term), << >>)
  ELSE CASE r.type = "Vote" -> handle_vote(s, from, r)
         [] r.type = "Append" -> handle_append_ack(s, from, r)
         [] r.type = "Snapshot" -> handle_snapshot_ack(s, from)

-----------------------------------------------------------------------------
(* The owner's side: committed mutations, compaction, revival.             *)

\* drain_apply(): a pending snapshot reset first, then the committed entries
\* past last_applied that the log still holds.
drained(s) ==
  LET first == s.last_applied - s.base_index + 1
  IN  [i \in 1 .. Len(s.pending_reset) |-> [kind |-> "Reset", triples |-> s.pending_reset[i]]]
        \o [i \in 1 .. s.commit_index - s.last_applied |-> s.log[first + i - 1].op]
drain_apply(s) == [s EXCEPT !.pending_reset = << >>, !.last_applied = s.commit_index]

\* The effect of one store action on a triple store.
act(store, a) ==
  CASE a.kind = "Insert" -> store \cup {a.triple}
    [] a.kind = "Delete" -> store \ {a.triple}
    [] a.kind = "Reset" -> a.triples
    [] OTHER -> store

compact(s, up_to, triples) ==
  IF up_to <= s.base_index \/ up_to > s.commit_index THEN s
  ELSE [s EXCEPT !.log = SubSeq(@, up_to - s.base_index + 1, Len(@)), !.base_index = up_to,
                 !.base_term = term_at(s, up_to), !.snapshot = triples]

note_revived(s) == [s EXCEPT !.role = IF @ = "Leader" THEN "Follower" ELSE @]
=============================================================================
