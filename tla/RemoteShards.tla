---------------------------- MODULE RemoteShards ----------------------------
(***************************************************************************)
(* src/cluster.rs: NetworkShardedStore, whose shards are local stores or   *)
(* RemoteShard clients of ShardNode servers, and the connections between   *)
(* them. A RemoteShard keeps one connection and repeats a call once, on a  *)
(* new connection, when a round trip fails. The server has a thread for    *)
(* each connection: a request sent on a connection the client has given up *)
(* may still be served, later. Another client of a server may insert too.  *)
(***************************************************************************)
EXTENDS Scatter, TLC

CONSTANTS Shards,        \* 1..n
          Remote,        \* the shards that are remote
          Triples, Ids, Preds,
          shard_of,      \* the shard of each subject
          Queries,       \* the reads that are called
          MaxFailures    \* bound: round trips and connects that fail

RemoteAssumption == Remote \subseteq Shards /\ shard_of \in [Ids -> Shards] /\ MaxFailures \in Nat

VARIABLES
  stores,    \* per shard: its triples
  conn,      \* per shard: the connection its RemoteShard holds, 0 for none
  wires,     \* connections made: [shard, requests, responses], the queues of each direction
  pc,        \* "returned", "ask" (the next shard), "wait" (for a response)
  req,       \* the request under way
  at,        \* the shard asked now
  attempt,   \* 0 or 1
  got,       \* the answers so far, or that of the insert
  dropped,   \* whether some shard gave an error
  before,    \* history: all triples when the request began
  acked,     \* history: triples whose insert returned Ok
  added,     \* history: how often the insert of a triple returned Ok(true)
  failures
callVars == <<pc, req, at, attempt, got, dropped, before>>
remoteVars == <<stores, conn, wires, callVars, acked, added, failures>>

All == UNION Range(stores)
Insert(t) == [kind |-> "Insert", triple |-> t]

Init ==
  /\ stores \in {from_triples(Shards, S, shard_of) : S \in {{}, Triples}}
  /\ conn = [i \in Shards |-> 0] /\ wires = << >>
  /\ pc = "returned" /\ req = [kind |-> "None"] /\ at = 1 /\ attempt = 0 /\ got = << >> /\ dropped = FALSE /\ before = {}
  /\ acked = {} /\ added = [t \in Triples |-> 0] /\ failures = 0

-----------------------------------------------------------------------------
\* A read asks every shard in turn, an insert the one of its subject.
begin(r) ==
  /\ pc = "returned"
  /\ pc' = "ask" /\ req' = r /\ attempt' = 0 /\ got' = << >> /\ dropped' = FALSE /\ before' = All
  /\ at' = IF r.kind = "Insert" THEN shard_of[r.triple[1]] ELSE 1
  /\ UNCHANGED <<stores, conn, wires, acked, added, failures>>

\* What a shard does with a request: its new store and its response.
Served(store, r) ==
  IF r.kind = "Insert" THEN [store |-> store \cup {r.triple}, resp |-> [kind |-> "Bool", val |-> r.triple \notin store]]
  ELSE [store |-> store, resp |-> dispatch(store, r)]
\* The response a request must have (into_bool, into_ids...).
into(r) ==
  CASE r.kind \in {"Exists", "Insert"} -> "Bool"
    [] r.kind \in {"TripleCount", "PredCard"} -> "Count"
    [] r.kind \in {"PoByS", "PsByO", "SoByP"} -> "Pairs"
    [] OTHER -> "Ids"

\* The shard asked has answered: the next one, or the call returns.
answered(resp) ==
  LET ok == resp.kind = into(req)
      insert == req.kind = "Insert"
  IN  /\ got' = IF ok THEN (at :> resp.val) @@ got ELSE got
      /\ dropped' = (dropped \/ ~ok)
      /\ acked' = IF insert /\ ok THEN acked \cup {req.triple} ELSE acked
      /\ added' = IF insert /\ ok THEN IF resp.val THEN [added EXCEPT ![req.triple] = @ + 1] ELSE added ELSE added
      /\ attempt' = 0
      /\ IF insert \/ at + 1 \notin Shards THEN pc' = "returned" /\ at' = at ELSE pc' = "ask" /\ at' = at + 1
      /\ UNCHANGED <<req, before>>
Failed == [kind |-> "Error"]

ask_local ==
  /\ pc = "ask" /\ at \notin Remote
  /\ stores' = [stores EXCEPT ![at] = Served(@, req).store]
  /\ answered(Served(stores[at], req).resp)
  /\ UNCHANGED <<conn, wires, failures>>
connect ==
  /\ pc = "ask" /\ at \in Remote /\ conn[at] = 0
  /\ wires' = Append(wires, [shard |-> at, requests |-> << >>, responses |-> << >>])
  /\ conn' = [conn EXCEPT ![at] = Len(wires) + 1]
  /\ UNCHANGED <<stores, callVars, acked, added, failures>>
\* The server cannot be reached: the error is returned at once.
connect_fails ==
  /\ pc = "ask" /\ at \in Remote /\ conn[at] = 0
  /\ failures < MaxFailures /\ failures' = failures + 1
  /\ answered(Failed)
  /\ UNCHANGED <<stores, conn, wires>>
send ==
  /\ pc = "ask" /\ at \in Remote /\ conn[at] # 0
  /\ wires' = [wires EXCEPT ![conn[at]].requests = Append(@, req)]
  /\ pc' = "wait"
  /\ UNCHANGED <<stores, conn, req, at, attempt, got, dropped, before, acked, added, failures>>
\* A thread of the server: the next request of its connection. The response to
\* a client that is gone is lost.
serve_connection(c) ==
  /\ wires[c].requests # << >>
  /\ LET i == wires[c].shard
         s == Served(stores[i], Head(wires[c].requests))
     IN  /\ stores' = [stores EXCEPT ![i] = s.store]
         /\ wires' = [wires EXCEPT ![c].requests = Tail(@),
                                   ![c].responses = IF conn[i] = c THEN Append(@, s.resp) ELSE << >>]
  /\ UNCHANGED <<conn, callVars, acked, added, failures>>
receive ==
  /\ pc = "wait" /\ wires[conn[at]].responses # << >>
  /\ answered(Head(wires[conn[at]].responses))
  /\ wires' = [wires EXCEPT ![conn[at]].responses = Tail(@)]
  /\ UNCHANGED <<stores, conn, failures>>
\* Faulty: the connection is kept after an error.
broken_kept(i) == UNCHANGED <<conn, wires>>
\* The connection is dropped, with what was coming.
broken(i) ==
  /\ conn' = [conn EXCEPT ![i] = 0]
  /\ wires' = [wires EXCEPT ![conn[i]].responses = << >>]
\* The round trip fails: once more on a new connection, then the error.
round_trip_fails ==
  /\ pc = "wait" /\ failures < MaxFailures /\ failures' = failures + 1
  /\ broken(at)
  /\ IF attempt = 0
     THEN pc' = "ask" /\ attempt' = 1 /\ UNCHANGED <<req, at, got, dropped, before, acked, added>>
     ELSE answered(Failed)
  /\ UNCHANGED stores
\* Another client routes a triple to a server.
other_insert(t) ==
  /\ shard_of[t[1]] \in Remote /\ t \notin stores[shard_of[t[1]]]
  /\ stores' = [stores EXCEPT ![shard_of[t[1]]] = @ \cup {t}]
  /\ UNCHANGED <<conn, wires, callVars, acked, added, failures>>

Next ==
  \/ \E r \in Queries : begin(r)
  \/ \E t \in Triples : begin(Insert(t)) \/ other_insert(t)
  \/ ask_local \/ connect \/ connect_fails \/ send \/ receive \/ round_trip_fails
  \/ \E c \in DOMAIN wires : serve_connection(c)

-----------------------------------------------------------------------------
Below(r, x, y) ==
  CASE r.kind = "Exists" -> x => y
    [] r.kind \in {"TripleCount", "PredCard"} -> x <= y
    [] OTHER -> x \subseteq y
\* A read that returns tells only what is stored by then and, if no shard was
\* dropped from it, all that was stored when it began: an answer is never that
\* of another request, however often connections broke.
AnswersAreCurrent ==
  pc = "returned" /\ req \in Queries =>
    LET answer == gathered(req, got)
    IN  /\ Below(req, answer, dispatch(All, req).val)
        /\ ~dropped => Below(req, dispatch(before, req).val, answer)
\* A triple whose insert returned Ok is on the shard of its subject, triples are
\* on no other, and Ok(true) is returned once at most, for calls that were
\* repeated or served late too.
RoutedInsertsAreExact ==
  /\ \A t \in acked : t \in stores[shard_of[t[1]]]
  /\ \A i \in Shards : \A t \in stores[i] : shard_of[t[1]] = i
  /\ \A t \in Triples : added[t] <= 1
\* Whatever is on the shards, a read that gathers them all is that of one store.
ScatterAgrees == SameAsSingle(stores, All, Ids, Preds)
=============================================================================
