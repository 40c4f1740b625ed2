----------------------------- MODULE ValueFiles -----------------------------
(***************************************************************************)
(* The value structures of src/kvstore that share one paged file:          *)
(* overflow chains (overflow.rs), the integer-keyed array (ivarray.rs),    *)
(* the string-keyed array on top of it (isarray.rs) and the value lists    *)
(* (vlist.rs and the records of store.rs), each with its byte format; and  *)
(* beside them the in-memory index of dictionary strings, by GRAM          *)
(* consecutive bytes and by order (string_index.rs).                       *)
(*                                                                         *)
(* A file is [pages, free_head, roots]. A page just allocated is Blank; a  *)
(* page is otherwise a table of page ids, a directory of slots, a chain    *)
(* page, or a free page, which holds the link to the next free one where a *)
(* chain page holds the link to its successor.                             *)
(***************************************************************************)
EXTENDS Integers, Sequences, SequencesExt, FiniteSets, FiniteSetsExt, Functions, Bitwise, TLC

CONSTANTS
  SLOTS_PER_DIR, PT_FANOUT,     \* entries of a directory page and of a table page
  INLINE_CAP,                   \* the longest value kept in a slot
  MAX_INLINE_VLIST_BYTES,       \* the longest value list kept in a record
  CHAIN_PAYLOAD,                \* payload bytes of a chain page
  BITS, WIDTH,                  \* payload bits of a varint byte, bits of an id (7 and 32)
  NUM_BUCKETS, FNV_BASIS, FNV_PRIME,
  IntKeys, StrKeys, Values, Lists,  \* what is stored
  None,
  MaxChanges,                   \* bound: operations
  GRAM,                         \* 3 in the code
  Strings, StringIds, Needles   \* what is indexed, a string being a sequence of bytes, and searched

VARIABLES file,
          record,               \* the value of one group in the tree sp2o_vlist, or None
          ints, strs, list,     \* history: what was put in and not deleted
          changes,              \* operations so far (bound)
          by_id,                \* id -> string
          trigrams,             \* gram -> ids that were posted under it
          ordered               \* ids in the order of their strings
valueVars == <<file, record, ints, strs, list, changes>>
indexVars == <<by_id, trigrams, ordered>>

Roots == {"iv", "is"}

-----------------------------------------------------------------------------
\* Pages, with alloc and free of the pager.

Blank == << >>
NewFile == [pages |-> << >>, free_head |-> 0, roots |-> [r \in Roots |-> 0]]
alloc(f) ==
  IF f.free_head = 0
  THEN [file |-> [f EXCEPT !.pages = Append(@, Blank)], page |-> Len(f.pages) + 1]
  ELSE [file |-> [f EXCEPT !.pages[f.free_head] = Blank, !.free_head = f.pages[f.free_head].next], page |-> f.free_head]
free(f, p) == [f EXCEPT !.pages[p] = [next |-> f.free_head, bytes |-> << >>], !.free_head = p]
write_page(f, p, content) == [f EXCEPT !.pages[p] = content]
At(page, i) == IF i \in DOMAIN page THEN page[i] ELSE 0

-----------------------------------------------------------------------------
\* Overflow chains.

Least(x, y) == IF x <= y THEN x ELSE y
RECURSIVE alloc_chain(_, _, _)
alloc_chain(f, n, ids) ==
  IF n = 0 THEN [file |-> f, ids |-> ids]
  ELSE LET a == alloc(f) IN alloc_chain(a.file, n - 1, Append(ids, a.page))
write_chain(f, data) ==
  LET npages == Max({1, (Len(data) + CHAIN_PAYLOAD - 1) \div CHAIN_PAYLOAD})
      a == alloc_chain(f, npages, << >>)
      content(i) == [next |-> IF i < npages THEN a.ids[i + 1] ELSE 0,
                     bytes |-> SubSeq(data, (i - 1) * CHAIN_PAYLOAD + 1, Least(i * CHAIN_PAYLOAD, Len(data)))]
  IN  [file |-> FoldLeft(LAMBDA g, i : write_page(g, a.ids[i], content(i)), a.file, [i \in 1..npages |-> i]),
       page |-> a.ids[1]]
RECURSIVE read_chain(_, _, _)
read_chain(f, head, len) ==
  IF head = 0 \/ len <= 0 THEN << >>
  ELSE LET page == f.pages[head]
       IN  SubSeq(page.bytes, 1, Least(len, CHAIN_PAYLOAD)) \o read_chain(f, page.next, len - CHAIN_PAYLOAD)
RECURSIVE free_chain(_, _)
\* Faulty: only the first page of the chain is given back.
free_chain_head(f, head) == IF head = 0 THEN f ELSE free(f, head)
\* The link is read before free overwrites it.
free_chain(f, head) == IF head = 0 THEN f ELSE LET next == f.pages[head].next IN free_chain(free(f, head), next)

-----------------------------------------------------------------------------
\* IvArray: two levels of tables, directories of slots.

Fits(key) == key \div SLOTS_PER_DIR < PT_FANOUT * PT_FANOUT
locate(key) ==
  LET dir_idx == key \div SLOTS_PER_DIR
  IN  [l0i |-> dir_idx \div PT_FANOUT, l1i |-> dir_idx % PT_FANOUT, si |-> key % SLOTS_PER_DIR]
\* The directory of a key, 0 if some level is not allocated.
dir_page(f, root, key) ==
  LET at == locate(key)
      l0 == f.roots[root]
      l1 == IF l0 = 0 THEN 0 ELSE At(f.pages[l0], at.l0i)
  IN  IF l1 = 0 THEN 0 ELSE At(f.pages[l1], at.l1i)
Slot(f, dir, key) ==
  LET page == f.pages[dir]
      si == locate(key).si
  IN  IF si \in DOMAIN page THEN page[si] ELSE [tag |-> "empty"]
iv_get(f, root, key) ==
  LET dir == dir_page(f, root, key)
      slot == Slot(f, dir, key)
  IN  CASE dir = 0 -> None
        [] dir # 0 /\ slot.tag = "empty" -> None
        [] dir # 0 /\ slot.tag = "inline" -> slot.val
        [] dir # 0 /\ slot.tag = "overflow" -> read_chain(f, slot.head, slot.len)

\* The page at entry i of a table, allocated if there is none.
ensure(f, table, i) ==
  IF At(f.pages[table], i) # 0 THEN [file |-> f, page |-> At(f.pages[table], i)]
  ELSE LET a == alloc(f)
       IN  [file |-> write_page(a.file, table, (i :> a.page) @@ a.file.pages[table]), page |-> a.page]
ensure_root(f, root) ==
  IF f.roots[root] # 0 THEN [file |-> f, page |-> f.roots[root]]
  ELSE LET a == alloc(f) IN [file |-> [a.file EXCEPT !.roots[root] = a.page], page |-> a.page]
\* A slot's chain is given back before its value is written.
iv_insert(f, root, key, val) ==
  LET at == locate(key)
      e0 == ensure_root(f, root)
      e1 == ensure(e0.file, e0.page, at.l0i)
      e2 == ensure(e1.file, e1.page, at.l1i)
      dir == e2.page
      old == Slot(e2.file, dir, key)
      freed == IF old.tag = "overflow" THEN free_chain(e2.file, old.head) ELSE e2.file
      w == write_chain(freed, val)
      put(g, slot) == write_page(g, dir, (at.si :> slot) @@ g.pages[dir])
  IN  IF Len(val) > INLINE_CAP THEN put(w.file, [tag |-> "overflow", len |-> Len(val), head |-> w.page])
      ELSE put(freed, [tag |-> "inline", val |-> val])
iv_delete(f, root, key) ==
  LET dir == dir_page(f, root, key)
      slot == Slot(f, dir, key)
      freed == IF slot.tag = "overflow" THEN free_chain(f, slot.head) ELSE f
  IN  IF dir = 0 \/ slot.tag = "empty" THEN f
      ELSE write_page(freed, dir, (locate(key).si :> [tag |-> "empty"]) @@ freed.pages[dir])

-----------------------------------------------------------------------------
\* Varints: BITS bits a byte, least first, with a continuation flag. A byte at
\* the last shift has only the bits that are left of WIDTH.

More == 2 ^ BITS
LastShift == BITS * ((WIDTH - 1) \div BITS)
RECURSIVE write_varint(_)
write_varint(v) == IF v < More THEN <<v>> ELSE <<(v % More) + More>> \o write_varint(v \div More)
RECURSIVE varint_from(_, _, _, _)
varint_from(bytes, pos, shift, result) ==
  IF pos > Len(bytes) THEN None
  ELSE IF shift >= WIDTH \/ (shift = LastShift /\ bytes[pos] >= 2 ^ (WIDTH - LastShift)) THEN None
  ELSE LET sum == result + (bytes[pos] % More) * 2 ^ shift
       IN  IF bytes[pos] < More THEN [val |-> sum, pos |-> pos + 1] ELSE varint_from(bytes, pos + 1, shift + BITS, sum)
read_varint(bytes, pos) == varint_from(bytes, pos, 0, 0)

\* The number of ids, then the distance of each from the one before.
encode_u32s(ids) ==
  write_varint(Len(ids)) \o FlattenSeq([i \in DOMAIN ids |-> write_varint(IF i = 1 THEN ids[1] ELSE ids[i] - ids[i - 1])])
RECURSIVE decode_from(_, _, _, _)
decode_from(bytes, pos, n, out) ==
  IF n = 0 THEN out
  ELSE LET d == read_varint(bytes, pos)
           id == d.val + (IF out = << >> THEN 0 ELSE Last(out))
       IN  IF d = None THEN None ELSE IF id >= 2 ^ WIDTH THEN None
           ELSE decode_from(bytes, d.pos, n - 1, Append(out, id))
decode_u32s(bytes) ==
  LET n == read_varint(bytes, 1) IN IF n = None THEN None ELSE decode_from(bytes, n.pos, n.val, << >>)

\* The records of the tree of value lists.
encode_vlist_record(f, enc) ==
  IF Len(enc) <= MAX_INLINE_VLIST_BYTES THEN [file |-> f, rec |-> [tag |-> "inline", val |-> enc]]
  ELSE LET w == write_chain(f, enc) IN [file |-> w.file, rec |-> [tag |-> "overflow", len |-> Len(enc), head |-> w.page]]
materialize_vlist(f, rec) == IF rec.tag = "inline" THEN rec.val ELSE read_chain(f, rec.head, rec.len)
drop_record(f, rec) == IF rec # None THEN IF rec.tag = "overflow" THEN free_chain(f, rec.head) ELSE f ELSE f

-----------------------------------------------------------------------------
\* IsArray: a bucket is one value, the sequence of its entries.

fnv1a(key) == FoldLeft(LAMBDA h, b : ((h ^^ b) * FNV_PRIME) % 2 ^ WIDTH, FNV_BASIS, key)
bucket_of(key) == fnv1a(key) % NUM_BUCKETS
RECURSIVE entries_from(_, _)
entries_from(payload, pos) ==
  IF pos > Len(payload) THEN << >>
  ELSE LET k == read_varint(payload, pos)
           v == read_varint(payload, k.pos + k.val)
       IN  <<[key |-> SubSeq(payload, k.pos, k.pos + k.val - 1), val |-> SubSeq(payload, v.pos, v.pos + v.val - 1)]>>
             \o entries_from(payload, v.pos + v.val)
entries(payload) == entries_from(payload, 1)
push_entry(out, e) == out \o write_varint(Len(e.key)) \o e.key \o write_varint(Len(e.val)) \o e.val
Packed(es) == FoldLeft(push_entry, << >>, es)
Others(payload, key) == SelectSeq(entries(payload), LAMBDA e : e.key # key)
find_entry(payload, key) ==
  LET found == SelectSeq(entries(payload), LAMBDA e : e.key = key) IN IF found = << >> THEN None ELSE found[1].val
upsert_entry(payload, key, val) == Packed(Append(Others(payload, key), [key |-> key, val |-> val]))
remove_entry(payload, key) == Packed(Others(payload, key))

is_get(f, key) ==
  LET payload == iv_get(f, "is", bucket_of(key)) IN IF payload = None THEN None ELSE find_entry(payload, key)
is_insert(f, key, val) ==
  LET b == bucket_of(key)
      payload == iv_get(f, "is", b)
  IN  iv_insert(f, "is", b, upsert_entry(IF payload = None THEN << >> ELSE payload, key, val))
is_delete(f, key) ==
  LET b == bucket_of(key)
      payload == iv_get(f, "is", b)
      rest == remove_entry(payload, key)
  IN  IF payload = None THEN f
      ELSE IF find_entry(payload, key) = None THEN f
      ELSE IF rest = << >> THEN iv_delete(f, "is", b) ELSE iv_insert(f, "is", b, rest)

-----------------------------------------------------------------------------
ValuesInit ==
  /\ file = NewFile /\ record = None
  /\ ints = [k \in IntKeys |-> None] /\ strs = [k \in StrKeys |-> None] /\ list = None
  /\ changes = 0

\* A key beyond the tables is refused.
insert_int(k, v) ==
  /\ file' = IF Fits(k) THEN iv_insert(file, "iv", k, v) ELSE file
  /\ ints' = IF Fits(k) THEN [ints EXCEPT ![k] = v] ELSE ints
  /\ UNCHANGED <<record, strs, list>>
delete_int(k) ==
  /\ file' = IF Fits(k) THEN iv_delete(file, "iv", k) ELSE file
  /\ ints' = [ints EXCEPT ![k] = None]
  /\ UNCHANGED <<record, strs, list>>
insert_str(k, v) ==
  /\ file' = is_insert(file, k, v) /\ strs' = [strs EXCEPT ![k] = v]
  /\ UNCHANGED <<record, ints, list>>
delete_str(k) ==
  /\ file' = is_delete(file, k) /\ strs' = [strs EXCEPT ![k] = None]
  /\ UNCHANGED <<record, ints, list>>
\* compact, for one group: the record of the last time goes first.
compact(l) ==
  LET e == encode_vlist_record(drop_record(file, record), encode_u32s(l))
  IN  /\ file' = e.file /\ record' = e.rec /\ list' = l
      /\ UNCHANGED <<ints, strs>>

ValuesNext ==
  /\ changes < MaxChanges /\ changes' = changes + 1
  /\ \/ \E k \in IntKeys : delete_int(k) \/ \E v \in Values : insert_int(k, v)
     \/ \E k \in StrKeys : delete_str(k) \/ \E v \in Values : insert_str(k, v)
     \/ \E l \in Lists : compact(l)

-----------------------------------------------------------------------------
\* Every key of the arrays has the bytes last put under it and the value list of
\* a group decodes to its ids, however chains were given back and taken again.
ValuesAgree ==
  /\ \A k \in IntKeys : Fits(k) => iv_get(file, "iv", k) = ints[k]
  /\ \A k \in StrKeys : is_get(file, k) = strs[k]
  /\ record # None => decode_u32s(materialize_vlist(file, record)) = list

RECURSIVE Chain(_)
Chain(head) == IF head = 0 THEN << >> ELSE <<head>> \o Chain(file.pages[head].next)
Below(page) == SetToSeq({page[i] : i \in DOMAIN page})
ChainsOf(dir) ==
  FlattenSeq([i \in 1..SLOTS_PER_DIR |->
    IF i - 1 \in DOMAIN dir THEN IF dir[i - 1].tag = "overflow" THEN Chain(dir[i - 1].head) ELSE << >> ELSE << >>])
Used(root) ==
  LET l0 == IF file.roots[root] = 0 THEN << >> ELSE <<file.roots[root]>>
      under(ids) == FlattenSeq([i \in DOMAIN ids |-> Below(file.pages[ids[i]])])
      l1 == under(l0)
      dirs == under(l1)
  IN  l0 \o l1 \o dirs \o FlattenSeq([i \in DOMAIN dirs |-> ChainsOf(file.pages[dirs[i]])])
\* Each page belongs to one structure and one place in it, or is free once.
ValuePagesAreOwned ==
  LET all == Used("iv") \o Used("is") \o Chain(file.free_head)
               \o (IF record # None THEN IF record.tag = "overflow" THEN Chain(record.head) ELSE << >> ELSE << >>)
  IN  IsInjective(all) /\ ToSet(all) = 1..Len(file.pages)

-----------------------------------------------------------------------------
\* The string index.

IndexInit == by_id = << >> /\ trigrams = << >> /\ ordered = << >>

windows(s) == {SubSeq(s, i, i + GRAM - 1) : i \in 1..(Len(s) - GRAM + 1)}
\* The order of byte strings.
Before(s, t) ==
  \/ Len(s) < Len(t) /\ SubSeq(t, 1, Len(s)) = s
  \/ \E i \in 1..Len(s) : i <= Len(t) /\ s[i] < t[i] /\ SubSeq(s, 1, i - 1) = SubSeq(t, 1, i - 1)
\* index_grams: postings are added, never taken away.
index_grams(grams, id, s) ==
  [g \in DOMAIN grams \cup windows(s) |->
     (IF g \in DOMAIN grams THEN grams[g] ELSE {}) \cup (IF g \in windows(s) THEN {id} ELSE {})]
sort_ordered(ids, strings) ==
  SortSeq(ids, LAMBDA a, b : Before(strings[a], strings[b]) \/ (strings[a] = strings[b] /\ a < b))
\* The first place at which the strings are no longer before s.
partition_point(ids, strings, s) == 1 + Cardinality({i \in DOMAIN ids : Before(strings[ids[i]], s)})

insert(id, s) ==
  /\ trigrams' = index_grams(trigrams, id, s)
  /\ by_id' = (id :> s) @@ by_id
  /\ ordered' = IF id \in DOMAIN by_id THEN sort_ordered(ordered, by_id')
                ELSE InsertAt(ordered, partition_point(ordered, by_id', s), id)
\* build, from pairs with different ids: the order is made once, at the end.
build(pairs) ==
  LET ids == SetToSeq(DOMAIN pairs)
  IN  /\ trigrams' = FoldLeft(LAMBDA grams, id : index_grams(grams, id, pairs[id]), << >>, ids)
      /\ by_id' = pairs
      /\ ordered' = sort_ordered(ids, pairs)
IndexNext ==
  \/ \E id \in StringIds, s \in Strings : insert(id, s)
  \/ \E ids \in SUBSET StringIds : \E pairs \in [ids -> Strings] : build(pairs)

-----------------------------------------------------------------------------
\* Lookups.

all_ids == DOMAIN by_id
contains_candidates(needle) ==
  IF Len(needle) < GRAM THEN all_ids
  ELSE IF ~ windows(needle) \subseteq DOMAIN trigrams THEN {}
  ELSE {id \in UNION Range(trigrams) : \A g \in windows(needle) : id \in trigrams[g]}
Holds(s, needle) == \E i \in 0..(Len(s) - Len(needle)) : SubSeq(s, i + 1, i + Len(needle)) = needle
search_contains(needle) == {id \in contains_candidates(needle) : id \in DOMAIN by_id /\ Holds(by_id[id], needle)}
\* The scan starts at the first string not before the prefix and ends at the
\* first one that does not start with it.
prefix(p) ==
  LET lo == partition_point(ordered, by_id, p)
      starts(i) == IsPrefix(p, by_id[ordered[i]])
  IN  {ordered[i] : i \in {j \in lo..Len(ordered) : \A k \in lo..j : starts(k)}}

-----------------------------------------------------------------------------
\* The index agrees with a scan of the strings it holds, whatever strings an id
\* had before: candidates leave out no match, and both searches are exact.
IndexAgrees ==
  \A n \in Needles :
    LET matches == {id \in DOMAIN by_id : Holds(by_id[id], n)}
    IN  /\ matches \subseteq contains_candidates(n)
        /\ search_contains(n) = matches
        /\ prefix(n) = {id \in DOMAIN by_id : IsPrefix(n, by_id[id])}
=============================================================================
