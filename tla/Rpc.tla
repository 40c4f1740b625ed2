-------------------------------- MODULE Rpc --------------------------------
(***************************************************************************)
(* src/rpc.rs: the byte format of the requests and responses of the shard  *)
(* and Raft protocols, and their frames; with the conversions between Raft *)
(* messages and requests of src/cluster.rs. A message is a record of its   *)
(* kind and its fields. A byte is a number below BASE, and an integer has  *)
(* U32 or U64 of them, the highest first (256, 4 and 8 in the code).       *)
(* A reader stands at a position; a failed read is Bad.                    *)
(***************************************************************************)
EXTENDS Integers, Sequences, SequencesExt, FiniteSets, TLC

CONSTANTS BASE, U32, U64, MAX_FRAME,
          Addrs                  \* the byte strings that are socket addresses

Bad == [pos |-> -1]
word(v, n) == [i \in 1..n |-> (v \div BASE ^ (n - i)) % BASE]
number(bytes) == FoldLeft(LAMBDA acc, b : acc * BASE + b, 0, bytes)

\* LogOp: the tag is the position, the fields follow. What is read after a tag is
\* written down apart from what is written, here and for messages: the code has
\* a match of its own for each.
OpFields == <<
  [kind |-> "Insert", fields |-> <<<<"sub", "u32">>, <<"pred", "u32">>, <<"obj", "u32">>>>],
  [kind |-> "Delete", fields |-> <<<<"sub", "u32">>, <<"pred", "u32">>, <<"obj", "u32">>>>],
  [kind |-> "AddNode", fields |-> <<<<"id", "u64">>, <<"addr", "addr">>>>],
  [kind |-> "RemoveNode", fields |-> <<<<"id", "u64">>>>],
  [kind |-> "Noop", fields |-> << >>]>>
\* The fields of the elements of a list.
Elements ==
  [ids |-> <<<<"id", "u32">>>>, pairs |-> <<<<"a", "u32">>, <<"b", "u32">>>>,
   triples |-> <<<<"sub", "u32">>, <<"pred", "u32">>, <<"obj", "u32">>>>,
   entries |-> <<<<"term", "u64">>, <<"op", "op">>>>,
   members |-> <<<<"id", "u64">>, <<"addr", "addr">>>>, owners |-> <<<<"owner", "u64">>>>]

TagOf(table, kind) == CHOOSE i \in DOMAIN table : table[i].kind = kind
RECURSIVE put(_, _)
put_fields(fields, m) == FlattenSeq([i \in DOMAIN fields |-> put(fields[i][2], m[fields[i][1]])])
put_tagged(table, m) == <<TagOf(table, m.kind)>> \o put_fields(table[TagOf(table, m.kind)].fields, m)
put_list(kind, list) == word(Len(list), U32) \o FlattenSeq([i \in DOMAIN list |-> put_fields(Elements[kind], list[i])])
put_str(s) == word(Len(s), U32) \o s
put_i64(v) == word(v % BASE ^ U64, U64)
put_op(op) == put_tagged(OpFields, op)
put(kind, v) ==
  CASE kind = "u8" -> <<v>>
    [] kind = "bool" -> <<IF v THEN 1 ELSE 0>>
    [] kind = "u32" -> word(v, U32)
    [] kind = "u64" -> word(v, U64)
    [] kind = "i64" -> put_i64(v)
    [] kind \in {"str", "addr"} -> put_str(v)
    [] kind = "op" -> put_op(v)
    [] kind \in DOMAIN Elements -> put_list(kind, v)

\* Reader. take: bytes that are not all there are an error.
take(buf, pos, n) ==
  IF pos + n - 1 <= Len(buf) THEN [val |-> SubSeq(buf, pos, pos + n - 1), pos |-> pos + n] ELSE Bad
IsBad(r) == r.pos = -1
Read(r, F(_)) == IF IsBad(r) THEN Bad ELSE [val |-> F(r.val), pos |-> r.pos]
RECURSIVE read(_, _, _)
RECURSIVE read_fields(_, _, _, _)
read_fields(fields, buf, pos, m) ==
  IF fields = << >> THEN [val |-> m, pos |-> pos]
  ELSE LET r == read(Head(fields)[2], buf, pos)
       IN  IF IsBad(r) THEN Bad ELSE read_fields(Tail(fields), buf, r.pos, (Head(fields)[1] :> r.val) @@ m)
read_tagged(table, buf, pos) ==
  LET t == take(buf, pos, 1)
  IN  IF IsBad(t) THEN Bad
      ELSE IF t.val[1] \notin DOMAIN table THEN Bad
      ELSE read_fields(table[t.val[1]].fields, buf, t.pos, [kind |-> table[t.val[1]].kind])
RECURSIVE read_list(_, _, _, _, _)
read_list(kind, buf, pos, n, out) ==
  IF n = 0 THEN [val |-> out, pos |-> pos]
  ELSE LET r == read_fields(Elements[kind], buf, pos, << >>)
       IN  IF IsBad(r) THEN Bad ELSE read_list(kind, buf, r.pos, n - 1, Append(out, r.val))
string(buf, pos) == LET n == take(buf, pos, U32) IN IF IsBad(n) THEN Bad ELSE take(buf, n.pos, number(n.val))
socket_addr(r) == IF IsBad(r) THEN Bad ELSE IF r.val \in Addrs THEN r ELSE Bad
Signed(v) == IF 2 * v >= BASE ^ U64 THEN v - BASE ^ U64 ELSE v
OpReads == <<
  [kind |-> "Insert", fields |-> <<<<"sub", "u32">>, <<"pred", "u32">>, <<"obj", "u32">>>>],
  [kind |-> "Delete", fields |-> <<<<"sub", "u32">>, <<"pred", "u32">>, <<"obj", "u32">>>>],
  [kind |-> "AddNode", fields |-> <<<<"id", "u64">>, <<"addr", "addr">>>>],
  [kind |-> "RemoveNode", fields |-> <<<<"id", "u64">>>>],
  [kind |-> "Noop", fields |-> << >>]>>
op(buf, pos) == read_tagged(OpReads, buf, pos)
read(kind, buf, pos) ==
  CASE kind = "u8" -> Read(take(buf, pos, 1), LAMBDA b : b[1])
    [] kind = "bool" -> Read(take(buf, pos, 1), LAMBDA b : b[1] # 0)
    [] kind = "u32" -> Read(take(buf, pos, U32), number)
    [] kind = "u64" -> Read(take(buf, pos, U64), number)
    [] kind = "i64" -> Read(take(buf, pos, U64), LAMBDA b : Signed(number(b)))
    [] kind = "str" -> string(buf, pos)
    [] kind = "addr" -> socket_addr(string(buf, pos))
    [] kind = "op" -> op(buf, pos)
    [] kind \in DOMAIN Elements ->
         LET n == take(buf, pos, U32) IN IF IsBad(n) THEN Bad ELSE read_list(kind, buf, n.pos, number(n.val), << >>)

-----------------------------------------------------------------------------
\* Requests and responses: the fields encode writes, by tag.

Spo == <<<<"sub", "u32">>, <<"pred", "u32">>, <<"obj", "u32">>>>
Request == <<
  [kind |-> "Exists", fields |-> Spo],
  [kind |-> "PoByS", fields |-> <<<<"sub", "u32">>>>],
  [kind |-> "OBySp", fields |-> <<<<"sub", "u32">>, <<"pred", "u32">>>>],
  [kind |-> "PBySo", fields |-> <<<<"sub", "u32">>, <<"obj", "u32">>>>],
  [kind |-> "PsByO", fields |-> <<<<"obj", "u32">>>>],
  [kind |-> "SByPo", fields |-> <<<<"pred", "u32">>, <<"obj", "u32">>>>],
  [kind |-> "SoByP", fields |-> <<<<"pred", "u32">>>>],
  [kind |-> "SubsByP", fields |-> <<<<"pred", "u32">>>>],
  [kind |-> "ObjsByP", fields |-> <<<<"pred", "u32">>>>],
  [kind |-> "SubjectKeys", fields |-> << >>],
  [kind |-> "ObjectKeys", fields |-> << >>],
  [kind |-> "Predicates", fields |-> << >>],
  [kind |-> "TripleCount", fields |-> << >>],
  [kind |-> "PredCard", fields |-> <<<<"pred", "u32">>>>],
  [kind |-> "Insert", fields |-> Spo],
  [kind |-> "RequestVote", fields |-> <<<<"term", "u64">>, <<"candidate_id", "u64">>,
                                        <<"last_log_index", "u64">>, <<"last_log_term", "u64">>>>],
  [kind |-> "AppendEntries", fields |-> <<<<"term", "u64">>, <<"leader_id", "u64">>, <<"prev_log_index", "u64">>,
                                          <<"prev_log_term", "u64">>, <<"leader_commit", "u64">>, <<"entries", "entries">>>>],
  [kind |-> "InstallSnapshot", fields |-> <<<<"term", "u64">>, <<"leader_id", "u64">>, <<"last_included_index", "u64">>,
                                            <<"last_included_term", "u64">>, <<"triples", "triples">>>>],
  [kind |-> "ClientWrite", fields |-> <<<<"op", "op">>>>],
  [kind |-> "ClusterStatus", fields |-> << >>],
  [kind |-> "GetConfig", fields |-> << >>],
  [kind |-> "ScanShard", fields |-> <<<<"shard", "u32">>, <<"num_shards", "u32">>>>],
  [kind |-> "PurgeShard", fields |-> <<<<"shard", "u32">>, <<"num_shards", "u32">>>>]>>
Response == <<
  [kind |-> "Bool", fields |-> <<<<"val", "bool">>>>],
  [kind |-> "Count", fields |-> <<<<"val", "u64">>>>],
  [kind |-> "Ids", fields |-> <<<<"val", "ids">>>>],
  [kind |-> "Pairs", fields |-> <<<<"val", "pairs">>>>],
  [kind |-> "Error", fields |-> <<<<"msg", "str">>>>],
  [kind |-> "Vote", fields |-> <<<<"term", "u64">>, <<"granted", "bool">>>>],
  [kind |-> "AppendAck", fields |-> <<<<"term", "u64">>, <<"success", "bool">>, <<"match_index", "u64">>>>],
  [kind |-> "SnapshotAck", fields |-> <<<<"term", "u64">>>>],
  [kind |-> "WriteAck", fields |-> <<<<"ok", "bool">>, <<"leader_hint", "i64">>, <<"index", "u64">>>>],
  [kind |-> "Status", fields |-> <<<<"term", "u64">>, <<"role", "u8">>, <<"leader_hint", "i64">>,
                                   <<"commit_index", "u64">>, <<"last_log_index", "u64">>>>],
  [kind |-> "Triples", fields |-> <<<<"val", "triples">>>>],
  [kind |-> "Config", fields |-> <<<<"epoch", "u64">>, <<"num_shards", "u32">>, <<"members", "members">>,
                                   <<"assignment", "owners">>>>]>>

\* The fields decode reads, by tag.
U32s(names) == [i \in DOMAIN names |-> <<names[i], "u32">>]
U64s(names) == [i \in DOMAIN names |-> <<names[i], "u64">>]
RequestReads == <<
  [kind |-> "Exists", fields |-> U32s(<<"sub", "pred", "obj">>)],
  [kind |-> "PoByS", fields |-> U32s(<<"sub">>)],
  [kind |-> "OBySp", fields |-> U32s(<<"sub", "pred">>)],
  [kind |-> "PBySo", fields |-> U32s(<<"sub", "obj">>)],
  [kind |-> "PsByO", fields |-> U32s(<<"obj">>)],
  [kind |-> "SByPo", fields |-> U32s(<<"pred", "obj">>)],
  [kind |-> "SoByP", fields |-> U32s(<<"pred">>)],
  [kind |-> "SubsByP", fields |-> U32s(<<"pred">>)],
  [kind |-> "ObjsByP", fields |-> U32s(<<"pred">>)],
  [kind |-> "SubjectKeys", fields |-> << >>],
  [kind |-> "ObjectKeys", fields |-> << >>],
  [kind |-> "Predicates", fields |-> << >>],
  [kind |-> "TripleCount", fields |-> << >>],
  [kind |-> "PredCard", fields |-> U32s(<<"pred">>)],
  [kind |-> "Insert", fields |-> U32s(<<"sub", "pred", "obj">>)],
  [kind |-> "RequestVote", fields |-> U64s(<<"term", "candidate_id", "last_log_index", "last_log_term">>)],
  [kind |-> "AppendEntries",
   fields |-> U64s(<<"term", "leader_id", "prev_log_index", "prev_log_term", "leader_commit">>) \o <<<<"entries", "entries">>>>],
  [kind |-> "InstallSnapshot",
   fields |-> U64s(<<"term", "leader_id", "last_included_index", "last_included_term">>) \o <<<<"triples", "triples">>>>],
  [kind |-> "ClientWrite", fields |-> <<<<"op", "op">>>>],
  [kind |-> "ClusterStatus", fields |-> << >>],
  [kind |-> "GetConfig", fields |-> << >>],
  [kind |-> "ScanShard", fields |-> U32s(<<"shard", "num_shards">>)],
  [kind |-> "PurgeShard", fields |-> U32s(<<"shard", "num_shards">>)]>>
ResponseReads == <<
  [kind |-> "Bool", fields |-> <<<<"val", "bool">>>>],
  [kind |-> "Count", fields |-> U64s(<<"val">>)],
  [kind |-> "Ids", fields |-> <<<<"val", "ids">>>>],
  [kind |-> "Pairs", fields |-> <<<<"val", "pairs">>>>],
  [kind |-> "Error", fields |-> <<<<"msg", "str">>>>],
  [kind |-> "Vote", fields |-> U64s(<<"term">>) \o <<<<"granted", "bool">>>>],
  [kind |-> "AppendAck", fields |-> U64s(<<"term">>) \o <<<<"success", "bool">>, <<"match_index", "u64">>>>],
  [kind |-> "SnapshotAck", fields |-> U64s(<<"term">>)],
  [kind |-> "WriteAck", fields |-> <<<<"ok", "bool">>, <<"leader_hint", "i64">>, <<"index", "u64">>>>],
  [kind |-> "Status", fields |-> <<<<"term", "u64">>, <<"role", "u8">>, <<"leader_hint", "i64">>>>
                                   \o U64s(<<"commit_index", "last_log_index">>)],
  [kind |-> "Triples", fields |-> <<<<"val", "triples">>>>],
  [kind |-> "Config", fields |-> <<<<"epoch", "u64">>, <<"num_shards", "u32">>, <<"members", "members">>,
                                   <<"assignment", "owners">>>>]>>

encode_request(m) == put_tagged(Request, m)
decode_request(bytes) == read_tagged(RequestReads, bytes, 1)
encode_response(m) == put_tagged(Response, m)
decode_response(bytes) == read_tagged(ResponseReads, bytes, 1)

\* Frames: the length, then the payload.
write_message(payload) == IF Len(payload) > MAX_FRAME THEN << >> ELSE word(Len(payload), U32) \o payload
read_message(stream) ==
  LET n == take(stream, 1, U32)
  IN  IF IsBad(n) THEN Bad ELSE IF number(n.val) > MAX_FRAME THEN Bad ELSE take(stream, n.pos, number(n.val))

-----------------------------------------------------------------------------
\* Raft replies on the wire (Raft requests have the fields of their messages).

reply_to_response(r) ==
  CASE r.kind = "Vote" -> r
    [] r.kind = "Append" -> [r EXCEPT !.kind = "AppendAck"]
    [] r.kind = "Snapshot" -> [r EXCEPT !.kind = "SnapshotAck"]
response_to_reply(resp) ==
  CASE resp.kind = "Vote" -> resp
    [] resp.kind = "AppendAck" -> [resp EXCEPT !.kind = "Append"]
    [] resp.kind = "SnapshotAck" -> [resp EXCEPT !.kind = "Snapshot"]
    [] OTHER -> Bad

-----------------------------------------------------------------------------
\* The messages that are checked: every kind, with small and with the largest
\* numbers and lists of up to two elements.

Ends(n) == {1, BASE ^ n - 1}
Ops == {[kind |-> "Insert", sub |-> 1, pred |-> 0, obj |-> BASE ^ U32 - 1], [kind |-> "Delete", sub |-> 0, pred |-> 1, obj |-> 2],
        [kind |-> "RemoveNode", id |-> BASE ^ U64 - 1], [kind |-> "Noop"]}
       \cup {[kind |-> "AddNode", id |-> 1, addr |-> a] : a \in Addrs}
UpTo2(S) == {<< >>} \cup {<<x>> : x \in S} \cup {<<x, y>> : x, y \in S}
Sample(kind) ==
  CASE kind = "u8" -> {0, 2}
    [] kind = "bool" -> BOOLEAN
    [] kind = "u32" -> Ends(U32)
    [] kind = "u64" -> Ends(U64)
    [] kind = "i64" -> {-1, 0, 5}
    [] kind = "str" -> {<< >>, <<BASE - 1, 0>>}
    [] kind = "addr" -> Addrs
    [] kind = "op" -> Ops
    [] kind = "ids" -> UpTo2({[id |-> x] : x \in Ends(U32)})
    [] kind = "pairs" -> UpTo2({[a |-> x, b |-> 1] : x \in Ends(U32)})
    [] kind = "triples" -> UpTo2({[sub |-> 1, pred |-> x, obj |-> 2] : x \in Ends(U32)})
    [] kind = "entries" -> UpTo2({[term |-> 1, op |-> o] : o \in Ops})
    [] kind = "members" -> UpTo2({[id |-> 1, addr |-> a] : a \in Addrs})
    [] kind = "owners" -> UpTo2({[owner |-> x] : x \in Ends(U64)})
RECURSIVE Filled(_, _)
Filled(fields, ms) ==
  IF fields = << >> THEN ms
  ELSE Filled(Tail(fields), {(Head(fields)[1] :> v) @@ m : v \in Sample(Head(fields)[2]), m \in ms})
Samples(table) == UNION {Filled(table[i].fields, {[kind |-> table[i].kind]}) : i \in DOMAIN table}
Requests == Samples(Request)
Responses == Samples(Response)

\* A message is read as it was written, and a frame cut short anywhere is an
\* error, never another message.
RequestIsRead(m) ==
  LET bytes == encode_request(m)
  IN  /\ decode_request(bytes) = [val |-> m, pos |-> Len(bytes) + 1]
      /\ \A n \in 0..(Len(bytes) - 1) : IsBad(decode_request(SubSeq(bytes, 1, n)))
      /\ Len(bytes) <= MAX_FRAME =>
           \A rest \in {<< >>, <<1>>} : read_message(write_message(bytes) \o rest).val = bytes
ResponseIsRead(m) ==
  LET bytes == encode_response(m)
  IN  /\ decode_response(bytes) = [val |-> m, pos |-> Len(bytes) + 1]
      /\ \A n \in 0..(Len(bytes) - 1) : IsBad(decode_response(SubSeq(bytes, 1, n)))
      /\ response_to_reply(m) # Bad => reply_to_response(response_to_reply(m)) = m
=============================================================================
