------------------------------ MODULE BPlusTree ------------------------------
(***************************************************************************)
(* The disk B+ tree of src/kvstore/bptree.rs: a map from variable-length   *)
(* keys to variable-length values held in pager pages.  A page is a parsed *)
(* Node; byte strings are reduced to their order (keys are numbers in the  *)
(* order of the byte strings) and their lengths, which is all the tree     *)
(* looks at.  Every size is the serialized size the code computes, in      *)
(* bytes.                                                                  *)
(*                                                                         *)
(* pages and root are the tree; contents is the map a caller believes to   *)
(* have stored; panicked names the operation during which serialize ran    *)
(* past its page buffer, which ends the process that called it.  The tree  *)
(* operations are sequential: every caller holds the pager's write lock.   *)
(***************************************************************************)
EXTENDS Integers, Sequences, FiniteSets, SequencesExt

CONSTANTS
    Keys,           \* the keys, numbered in byte-string order
    Values,         \* the values
    KeyLen,         \* KeyLen[k]: bytes of key k
    ValLen,         \* ValLen[v]: bytes of value v
    PAGE_SIZE,      \* bytes of a page
    MaxPages        \* bound: pages the pager can hand out

KeysAssumption == Keys \subseteq Nat \ {0} /\ IsFiniteSet(Keys)
SizesAssumption ==
  /\ KeyLen \in [Keys -> Nat] /\ ValLen \in [Values -> Nat]
  /\ PAGE_SIZE \in Nat /\ MaxPages \in Nat

VARIABLES pages, root, contents, panicked

vars == <<pages, root, contents, panicked>>

Null == 0                        \* PageId 0: no page
NoNode == [is_leaf |-> TRUE, link |-> Null, keys |-> <<>>,
           vals |-> <<>>, children |-> <<>>]
Unused == [NoNode EXCEPT !.link = -1]     \* a page the pager has not handed out
PageIds == 1..MaxPages

UNDERFLOW_BYTES == PAGE_SIZE \div 4
HEADER == 7                      \* is_leaf + link + count

-----------------------------------------------------------------------------
(* Node: sizes, routing and the full child vector.                         *)

\* boundary_bytes: the serialized size of entry i
boundary_bytes(node, i) ==
    IF node.is_leaf THEN 2 + KeyLen[node.keys[i]] + 2 + ValLen[node.vals[i]]
                    ELSE 2 + KeyLen[node.keys[i]] + 4

size(node) ==
    FoldLeftDomain(LAMBDA n, i: n + boundary_bytes(node, i), HEADER, node.keys)

\* partition_point(|k| k <= key), resp. (|k| k < key), on sorted keys
CountLE(keys, key) == Cardinality({i \in DOMAIN keys : keys[i] <= key})
CountLT(keys, key) == Cardinality({i \in DOMAIN keys : keys[i] < key})

children_vec(node) == <<node.link>> \o node.children
set_children_vec(node, all) ==
    [node EXCEPT !.link = Head(all), !.children = Tail(all)]

child_for(node, key) == children_vec(node)[CountLE(node.keys, key) + 1]

\* binary_search: whether the leaf holds the key
Holds(node, key) == \E i \in DOMAIN node.keys : node.keys[i] = key

-----------------------------------------------------------------------------
(* The tree in the middle of an operation is [pages, panic]: the pages as  *)
(* written so far, and whether a serialize has run past its buffer, after  *)
(* which nothing more is written.                                          *)

\* pager.write_page(id, node.serialize())
write_page(t, id, node) ==
    IF t.panic \/ size(node) > PAGE_SIZE
    THEN [t EXCEPT !.panic = TRUE]
    ELSE [t EXCEPT !.pages[id] = node]

\* pager.alloc(): which of the unused pages is the pager's business
alloc(t) == CHOOSE id \in PageIds :
                /\ t.pages[id] = Unused
                /\ \A j \in PageIds : t.pages[j] = Unused => id <= j

free(t, id) == IF t.panic THEN t ELSE [t EXCEPT !.pages[id] = Unused]

NoSplit == <<>>
Done(t) == [t |-> t, split |-> NoSplit, ok |-> TRUE]
Promote(t, sep, right) == [t |-> t, split |-> <<sep, right>>, ok |-> TRUE]

\* split_leaf: the upper half, by number of keys, moves to a new right leaf
split_leaf(t, page, node) ==
    LET mid == Len(node.keys) \div 2
        n == Len(node.keys)
        right_id == alloc(t)
        right == [node EXCEPT !.keys = SubSeq(@, mid + 1, n),
                              !.vals = SubSeq(@, mid + 1, n)]
        left == [node EXCEPT !.keys = SubSeq(@, 1, mid),
                             !.vals = SubSeq(@, 1, mid),
                             !.link = right_id]
    IN Promote(write_page(write_page(t, right_id, right), page, left),
               right.keys[1], right_id)

\* split_internal: the median separator moves up
split_internal(t, page, node) ==
    IF Len(node.keys) < 2 THEN [t |-> t, split |-> NoSplit, ok |-> FALSE]
    ELSE LET n == Len(node.keys)
             mid == n \div 2
             right_id == alloc(t)
             right == [node EXCEPT !.link = node.children[mid + 1],
                                   !.keys = SubSeq(@, mid + 2, n),
                                   !.children = SubSeq(@, mid + 2, n)]
             left == [node EXCEPT !.keys = SubSeq(@, 1, mid),
                                  !.children = SubSeq(@, 1, mid)]
         IN Promote(write_page(write_page(t, right_id, right), page, left),
                    node.keys[mid + 1], right_id)

\* The leaf with key bound to val
Put(node, key, val) ==
    LET i == CountLT(node.keys, key) + 1
    IN IF Holds(node, key)
       THEN [node EXCEPT !.vals[i] = val]
       ELSE [node EXCEPT !.keys = InsertAt(@, i, key),
                         !.vals = InsertAt(@, i, val)]

RECURSIVE insert_rec(_, _, _, _)
insert_rec(t, page, key, val) ==
    LET node == t.pages[page] IN
    IF node.is_leaf THEN
        LET put == Put(node, key, val)
        IN IF size(put) <= PAGE_SIZE THEN Done(write_page(t, page, put))
                                     ELSE split_leaf(t, page, put)
    ELSE
        LET pos == CountLE(node.keys, key) + 1
            r == insert_rec(t, child_for(node, key), key, val)
            grown == [node EXCEPT !.keys = InsertAt(@, pos, r.split[1]),
                                  !.children = InsertAt(@, pos, r.split[2])]
        IN IF ~r.ok \/ r.t.panic \/ r.split = NoSplit THEN r
           ELSE IF size(grown) <= PAGE_SIZE
                THEN Done(write_page(r.t, page, grown))
                ELSE split_internal(r.t, page, grown)

-----------------------------------------------------------------------------
(* delete_rec and the repair of an underfull child.  An index ci counts    *)
(* the parent's children from 0, as in the code; Kid is the child there.   *)

Kid(t, parent, i) == t.pages[children_vec(parent)[i + 1]]
KidPage(parent, i) == children_vec(parent)[i + 1]

\* A leaf, resp. an internal node, without its first or its last entry
DropFirst(node) ==
    IF node.is_leaf
    THEN [node EXCEPT !.keys = Tail(@), !.vals = Tail(@)]
    ELSE [set_children_vec(node, Tail(children_vec(node))) EXCEPT !.keys = Tail(@)]
DropLast(node) ==
    IF node.is_leaf
    THEN [node EXCEPT !.keys = Front(@), !.vals = Front(@)]
    ELSE [set_children_vec(node, Front(children_vec(node))) EXCEPT !.keys = Front(@)]

borrow_from_left(t, parent, page, ci) ==
    LET left == Kid(t, parent, ci - 1)
        child == Kid(t, parent, ci)
        sep == parent.keys[ci]
        filled == IF child.is_leaf
                  THEN [child EXCEPT !.keys = <<Last(left.keys)>> \o @,
                                     !.vals = <<Last(left.vals)>> \o @]
                  ELSE set_children_vec([child EXCEPT !.keys = <<sep>> \o @],
                           <<Last(children_vec(left))>> \o children_vec(child))
        t1 == write_page(t, KidPage(parent, ci - 1), DropLast(left))
        t2 == write_page(t1, KidPage(parent, ci), filled)
    IN write_page(t2, page, [parent EXCEPT !.keys[ci] = Last(left.keys)])

borrow_from_right(t, parent, page, ci) ==
    LET right == Kid(t, parent, ci + 1)
        child == Kid(t, parent, ci)
        sep == parent.keys[ci + 1]
        filled == IF child.is_leaf
                  THEN [child EXCEPT !.keys = Append(@, Head(right.keys)),
                                     !.vals = Append(@, Head(right.vals))]
                  ELSE set_children_vec([child EXCEPT !.keys = Append(@, sep)],
                           Append(children_vec(child), Head(children_vec(right))))
        rest == DropFirst(right)
        newSep == IF child.is_leaf THEN Head(rest.keys) ELSE Head(right.keys)
        t1 == write_page(t, KidPage(parent, ci), filled)
        t2 == write_page(t1, KidPage(parent, ci + 1), rest)
    IN write_page(t2, page, [parent EXCEPT !.keys[ci + 1] = newSep])

\* The node that holds both of two siblings, sep between them
Joined(left, sep, right) ==
    IF left.is_leaf
    THEN [left EXCEPT !.keys = @ \o right.keys, !.vals = @ \o right.vals,
                      !.link = right.link]
    ELSE set_children_vec([left EXCEPT !.keys = Append(@, sep) \o right.keys],
                          children_vec(left) \o children_vec(right))

\* merge_into_left and merge_right_into: child i + 1 goes into child i
merge(t, parent, page, i) ==
    LET t1 == write_page(t, KidPage(parent, i),
                  Joined(Kid(t, parent, i), parent.keys[i + 1],
                         Kid(t, parent, i + 1)))
        t2 == free(t1, KidPage(parent, i + 1))
    IN write_page(t2, page, [parent EXCEPT !.keys = RemoveAt(@, i + 1),
                                           !.children = RemoveAt(@, i + 1)])

\* Whether the sibling can spare entry e and the child take it
CanBorrow(sibling, e, child, sep) ==
    /\ Len(sibling.keys) >= 2
    /\ size(sibling) - boundary_bytes(sibling, e) >= UNDERFLOW_BYTES
    /\ size(child) + (IF child.is_leaf THEN boundary_bytes(sibling, e)
                                       ELSE 6 + KeyLen[sep]) <= PAGE_SIZE

CanMerge(left, sep, right) ==
    size(left) + size(right) + (IF left.is_leaf THEN -HEADER
                                                ELSE KeyLen[sep] - 1) <= PAGE_SIZE

\* rebalance: the first feasible of borrow left, borrow right, merge left,
\* merge right; otherwise the child stays underfull
rebalance(t, parent, page, ci) ==
    LET child == Kid(t, parent, ci)
        n == Len(children_vec(parent))
        left == Kid(t, parent, ci - 1)
        right == Kid(t, parent, ci + 1)
    IN IF ci > 0 /\ CanBorrow(left, Len(left.keys), child, parent.keys[ci])
       THEN borrow_from_left(t, parent, page, ci)
       ELSE IF ci + 1 < n /\ CanBorrow(right, 1, child, parent.keys[ci + 1])
       THEN borrow_from_right(t, parent, page, ci)
       ELSE IF ci > 0 /\ CanMerge(left, parent.keys[ci], child)
       THEN merge(t, parent, page, ci - 1)
       ELSE IF ci + 1 < n /\ CanMerge(child, parent.keys[ci + 1], right)
       THEN merge(t, parent, page, ci)
       ELSE t

RECURSIVE delete_rec(_, _, _)
delete_rec(t, page, key) ==
    LET node == t.pages[page] IN
    IF node.is_leaf THEN
        LET i == CountLT(node.keys, key) + 1
        IN IF Holds(node, key)
           THEN [t |-> write_page(t, page, [node EXCEPT !.keys = RemoveAt(@, i),
                                                        !.vals = RemoveAt(@, i)]),
                 removed |-> TRUE]
           ELSE [t |-> t, removed |-> FALSE]
    ELSE
        LET ci == CountLE(node.keys, key)
            r == delete_rec(t, KidPage(node, ci), key)
        IN IF /\ r.removed /\ ~r.t.panic
              /\ size(r.t.pages[KidPage(node, ci)]) < UNDERFLOW_BYTES
           THEN [r EXCEPT !.t = rebalance(r.t, node, page, ci)]
           ELSE r

-----------------------------------------------------------------------------
(* The operations of BTree.                                                *)

Tree == [pages |-> pages, panic |-> FALSE]

RECURSIVE Height(_)
Height(page) == IF pages[page].is_leaf THEN 0 ELSE 1 + Height(pages[page].link)

\* Bound: an insert allocates at most one page per level and a new root
RoomToInsert ==
    Cardinality({p \in PageIds : pages[p] = Unused})
        >= IF root = Null THEN 1 ELSE Height(root) + 2

TooLarge(key, val) == HEADER + 2 + KeyLen[key] + 2 + ValLen[val] > PAGE_SIZE

NewRoot(r) ==
    LET id == alloc(r.t)
    IN [id |-> id,
        t |-> write_page(r.t, id,
                 [is_leaf |-> FALSE, link |-> root, keys |-> <<r.split[1]>>,
                  vals |-> <<>>, children |-> <<r.split[2]>>])]

\* insert: the first key makes a root leaf; a root that splits gets a parent
insert(key, val) ==
    /\ panicked = "no" /\ RoomToInsert
    /\ ~TooLarge(key, val)
    /\ IF root = Null THEN
          LET id == alloc(Tree)
          IN /\ pages' = [pages EXCEPT ![id] =
                             [NoNode EXCEPT !.keys = <<key>>, !.vals = <<val>>]]
             /\ root' = id
             /\ contents' = [k \in DOMAIN contents \cup {key} |->
                                IF k = key THEN val ELSE contents[k]]
             /\ UNCHANGED panicked
       ELSE
          LET r == insert_rec(Tree, root, key, val)
              top == IF r.ok /\ ~r.t.panic /\ r.split # NoSplit
                     THEN NewRoot(r) ELSE [id |-> root, t |-> r.t]
          IN /\ pages' = top.t.pages
             /\ root' = IF top.t.panic THEN root ELSE top.id
             /\ panicked' = IF top.t.panic THEN "insert" ELSE panicked
             /\ contents' = IF r.ok /\ ~top.t.panic
                            THEN [k \in DOMAIN contents \cup {key} |->
                                     IF k = key THEN val ELSE contents[k]]
                            ELSE contents

\* delete: afterwards an empty root leaf, or a root left with one child, goes
delete(key) ==
    /\ panicked = "no" /\ root # Null
    /\ LET r == delete_rec(Tree, root, key)
           node == r.t.pages[root]
           shrink == r.removed /\ ~r.t.panic /\ node.keys = <<>>
       IN /\ r.removed
          /\ pages' = IF shrink THEN free(r.t, root).pages ELSE r.t.pages
          /\ root' = IF shrink THEN (IF node.is_leaf THEN Null ELSE node.link)
                               ELSE root
          /\ panicked' = IF r.t.panic THEN "delete" ELSE panicked
          /\ contents' = IF r.t.panic THEN contents
                         ELSE [k \in DOMAIN contents \ {key} |-> contents[k]]

Init ==
    /\ pages = [p \in PageIds |-> Unused]
    /\ root = Null
    /\ contents = <<>>
    /\ panicked = "no"

Next == \/ \E k \in Keys, v \in Values : insert(k, v)
        \/ \E k \in Keys : delete(k)

Spec == Init /\ [][Next]_vars

-----------------------------------------------------------------------------
(* Reads: get, and the prefix reads.  A prefix is an interval lo..hi of    *)
(* keys, the ones that start with it; exact says that the prefix is itself *)
(* the key lo, so that lo compares equal to it rather than above it.       *)

RECURSIVE get_from(_, _)
get_from(page, key) ==
    LET node == pages[page]
    IN IF ~node.is_leaf THEN get_from(child_for(node, key), key)
       ELSE IF Holds(node, key)
       THEN <<node.vals[CountLT(node.keys, key) + 1]>>
       ELSE <<>>

get(key) == IF root = Null THEN <<>> ELSE get_from(root, key)

KeyPrefixes == {[lo |-> l, hi |-> h, exact |-> e] :
                l \in Keys, h \in Keys, e \in BOOLEAN}

\* The number of keys <= the prefix itself, resp. below it
CountLEPrefix(keys, p) ==
    CountLT(keys, p.lo) + IF p.exact /\ (\E i \in DOMAIN keys : keys[i] = p.lo)
                          THEN 1 ELSE 0

RECURSIVE find_leaf_ge(_, _)
find_leaf_ge(page, p) ==
    LET node == pages[page]
    IN IF node.is_leaf THEN <<page, CountLT(node.keys, p.lo) + 1>>
       ELSE find_leaf_ge(children_vec(node)[CountLEPrefix(node.keys, p) + 1], p)

StartsWith(k, p) == p.lo <= k /\ k <= p.hi

\* scan_prefix from entry idx of a leaf on: the keys in the order visited
RECURSIVE scan_from(_, _, _)
scan_from(page, idx, p) ==
    LET node == pages[page]
    IN IF idx > Len(node.keys)
       THEN IF node.link = Null THEN <<>> ELSE scan_from(node.link, 1, p)
       ELSE IF StartsWith(node.keys[idx], p)
       THEN <<node.keys[idx]>> \o scan_from(page, idx + 1, p)
       ELSE IF node.keys[idx] > p.lo THEN <<>> ELSE scan_from(page, idx + 1, p)

scan_prefix(p) ==
    IF root = Null THEN <<>>
    ELSE LET at == find_leaf_ge(root, p) IN scan_from(at[1], at[2], p)

\* count_prefix walks the same run and only counts
count_prefix(p) == Len(scan_prefix(p))

\* prefix_exists looks at the first key at or after the prefix only
RECURSIVE exists_from(_, _, _)
exists_from(page, idx, p) ==
    LET node == pages[page]
    IN IF idx <= Len(node.keys) THEN StartsWith(node.keys[idx], p)
       ELSE node.link # Null /\ exists_from(node.link, 1, p)

prefix_exists(p) ==
    root # Null /\ LET at == find_leaf_ge(root, p) IN exists_from(at[1], at[2], p)

-----------------------------------------------------------------------------
(* Properties, of the states an operation that returned has left behind.   *)

TypeOK ==
    /\ \A p \in PageIds :
          LET n == pages[p]
          IN /\ n.is_leaf \in BOOLEAN /\ n.link \in PageIds \cup {Null, -1}
             /\ n.keys \in Seq(Keys)
             /\ IF n.is_leaf THEN n.vals \in Seq(Values) /\ n.children = <<>>
                             ELSE n.vals = <<>> /\ n.children \in Seq(PageIds)
             /\ Len(n.vals) + Len(n.children) = Len(n.keys)
    /\ root \in PageIds \cup {Null}
    /\ DOMAIN contents \subseteq Keys
    /\ panicked \in {"no", "insert", "delete"}

\* The pages under a page, left to right, a parent before its children
RECURSIVE Walk(_)
Walk(page) ==
    <<page>> \o (IF pages[page].is_leaf THEN <<>>
                 ELSE FlattenSeq([i \in DOMAIN children_vec(pages[page]) |->
                                     Walk(children_vec(pages[page])[i])]))

TreePages == IF root = Null THEN <<>> ELSE Walk(root)

\* The leaves met by following link from a leaf
RECURSIVE Chain(_)
Chain(page) ==
    <<page>> \o (IF pages[page].link = Null THEN <<>> ELSE Chain(pages[page].link))

\* The keys strictly increase and lie in lo..hi-1
Between(keys, lo, hi) ==
    /\ \A i \in DOMAIN keys : lo <= keys[i] /\ keys[i] < hi
    /\ \A i, j \in DOMAIN keys : i < j => keys[i] < keys[j]

\* Every key under a child is at or above the separator before the child and
\* below the one after it, and all leaves are at the same depth
RECURSIVE Bounded(_, _, _, _)
Bounded(page, lo, hi, depth) ==
    LET n == pages[page]
        b == <<lo>> \o n.keys \o <<hi>>
    IN /\ Between(n.keys, lo, hi)
       /\ IF n.is_leaf THEN depth = 0
          ELSE \A i \in DOMAIN children_vec(n) :
                  Bounded(children_vec(n)[i], b[i], b[i + 1], depth - 1)

\* After any sequence of inserts and deletes the tree is a well-formed search
\* tree: separators bound the keys on both sides, every leaf has the same
\* depth, the leaf-link chain visits exactly the tree's leaves in key order,
\* and deletes leave no leaf empty ("The leaf-link chain and every separator
\* stay consistent", "Empty leaves ... are merged away"). No split, borrow or
\* merge writes a node larger than a page if all keys have one length: a split
\* halves by count and a borrow does not project the parent's new separator,
\* so keys of very different lengths can run past the buffer.
WellFormed ==
    /\ TypeOK
    /\ (\A j, k \in Keys : KeyLen[j] = KeyLen[k]) => panicked = "no"
    /\ (panicked = "no" /\ root # Null) =>
        /\ Bounded(root, 0, 1 + Max(Keys), Height(root))
        /\ LET leaves == SelectSeq(TreePages, LAMBDA p: pages[p].is_leaf)
           IN  /\ Chain(leaves[1]) = leaves
               /\ \A i \in DOMAIN leaves : pages[leaves[i]].keys # <<>>

\* get, scan_prefix, count_prefix and prefix_exists return what was stored:
\* the map of all inserts and deletes so far, the prefix reads in key order.
ReadsAgree ==
    panicked = "no" =>
        /\ \A k \in Keys :
              get(k) = IF k \in DOMAIN contents THEN <<contents[k]>> ELSE <<>>
        /\ \A p \in KeyPrefixes : p.lo <= p.hi =>
              LET want == {k \in DOMAIN contents : StartsWith(k, p)}
              IN /\ scan_prefix(p) = SetToSortSeq(want, <)
                 /\ count_prefix(p) = Cardinality(want)
                 /\ prefix_exists(p) = (want # {})

\* Every page taken from the pager is in the tree exactly once: merges and
\* root shrinks return the pages they empty, and nothing frees a page the
\* tree still uses.
NoPageLeaksOrIsShared ==
    panicked = "no" =>
        /\ Range(TreePages) = {p \in PageIds : pages[p] # Unused}
        /\ Cardinality(Range(TreePages)) = Len(TreePages)
=============================================================================
