-------------------------- MODULE TripleStoreProofs --------------------------
(***************************************************************************)
(* TLAPS proofs about TripleStore, for every set of ids and predicates.    *)
(***************************************************************************)
EXTENDS TripleStore, FiniteSetTheorems, TLAPS

(* The lists of a map, empty ones excluded. *)
NonEmpty(m) == \A k \in DOMAIN m : m[k] # {}

(* The inductive invariant.  CountIsExact is not inductive alone: insert   *)
(* and remove read s2po only, so the other maps must agree with it, and    *)
(* the counter is stepped only when s2po changes.                          *)
Inv == TypeOK /\ IndexesAgree /\ NoEmptyLists /\ CountIsExact

-----------------------------------------------------------------------------
(* Lemmas on adjacency maps. *)

(* sorted_insert on an entry adds one pair to one key's list. *)
LEMMA AdjPut ==
  ASSUME NEW m, NEW k, NEW v, NEW x
  PROVE  Adj(Put(m, k, v), x) = IF x = k THEN Adj(m, k) \cup {v} ELSE Adj(m, x)
  BY DEF Adj, Put

(* sorted_insert keeps a map well-formed and leaves no empty list. *)
LEMMA PutIsMap ==
  ASSUME NEW m, NEW Keys, NEW Values, NEW k \in Keys, NEW v \in Values,
         IsMap(m, Keys, Values), NonEmpty(m)
  PROVE  IsMap(Put(m, k, v), Keys, Values) /\ NonEmpty(Put(m, k, v))
  BY DEF Put, Adj, IsMap, NonEmpty

(* sorted_remove followed by prune_empty removes one pair from one key's   *)
(* list, whether or not the key goes away.                                 *)
LEMMA AdjTake ==
  ASSUME NEW m, NEW k, NEW v, NEW x
  PROVE  Adj(prune_empty(Take(m, k, v), k), x)
           = IF x = k THEN Adj(m, k) \ {v} ELSE Adj(m, x)
  BY DEF Adj, Take, prune_empty

(* sorted_remove can empty no other list than the one it removes from. *)
LEMMA TakeIsMap ==
  ASSUME NEW m, NEW Keys, NEW Values, NEW k, NEW v,
         IsMap(m, Keys, Values), NonEmpty(m)
  PROVE  /\ IsMap(Take(m, k, v), Keys, Values)
         /\ \A x \in DOMAIN Take(m, k, v) : x # k => Take(m, k, v)[x] # {}
  BY DEF Take, IsMap, NonEmpty

(* prune_empty drops the one list that may have become empty. *)
LEMMA PruneIsMap ==
  ASSUME NEW m, NEW Keys, NEW Values, NEW k, IsMap(m, Keys, Values),
         \A x \in DOMAIN m : x # k => m[x] # {}
  PROVE  IsMap(prune_empty(m, k), Keys, Values) /\ NonEmpty(prune_empty(m, k))
  <1>1. CASE k \in DOMAIN m /\ m[k] = {}
    BY <1>1 DEF prune_empty, IsMap, NonEmpty
  <1>2. CASE ~(k \in DOMAIN m /\ m[k] = {})
    BY <1>2 DEF prune_empty, IsMap, NonEmpty
  <1> QED BY <1>1, <1>2

(* Merge adds to each list exactly the pairs given for its key. *)
LEMMA AdjMerge ==
  ASSUME NEW m, NEW A, NEW B, NEW E \in SUBSET (A \X B), NEW x, NEW v
  PROVE  v \in Adj(Merge(m, E), x) <=> v \in Adj(m, x) \/ <<x, v>> \in E
  <1>1. v \in {e[2] : e \in {f \in E : f[1] = x}} <=> <<x, v>> \in E
    OBVIOUS
  <1>2. CASE x \in DOMAIN m \cup {e[1] : e \in E}
    BY <1>1, <1>2 DEF Adj, Merge
  <1>3. CASE x \notin DOMAIN m \cup {e[1] : e \in E}
    <2>1. <<x, v>> \notin E
      BY <1>3
    <2> QED BY <2>1, <1>3 DEF Adj, Merge
  <1> QED BY <1>2, <1>3

(* Merge keeps a map well-formed and leaves no empty list. *)
LEMMA MergeIsMap ==
  ASSUME NEW m, NEW Keys, NEW Values, NEW E \in SUBSET (Keys \X Values),
         IsMap(m, Keys, Values), NonEmpty(m)
  PROVE  IsMap(Merge(m, E), Keys, Values) /\ NonEmpty(Merge(m, E))
  <1>1. \A k \in DOMAIN m \cup {e[1] : e \in E} :
          /\ k \in Keys
          /\ Adj(m, k) \cup {e[2] : e \in {f \in E : f[1] = k}} \subseteq Values
          /\ Adj(m, k) \cup {e[2] : e \in {f \in E : f[1] = k}} # {}
    BY DEF Adj, IsMap, NonEmpty
  <1> QED BY <1>1 DEF Merge, IsMap, NonEmpty

-----------------------------------------------------------------------------
(* The inductive step, one lemma per operation. *)

(* The empty store satisfies the invariant. *)
LEMMA InitInv == new => Inv
  <1> SUFFICES ASSUME new PROVE Inv OBVIOUS
  <1>1. Held = {}
    BY DEF new, Held, Adj
  <1>2. CountIsExact
    BY <1>1, FS_EmptySet DEF CountIsExact, new
  <1> QED BY <1>2 DEF new, Inv, TypeOK, IsMap, IndexesAgree, NoEmptyLists, Adj

(* insert adds its triple to the triples held, and nothing else. *)
LEMMA InsertHeld ==
  ASSUME NEW s \in Ids, NEW p \in Preds, NEW o \in Ids, insert(s, p, o)
  PROVE  Held' = Held \cup {<<s, p, o>>}
  BY AdjPut DEF insert, Held, Triples

LEMMA InsertInv ==
  ASSUME NEW s \in Ids, NEW p \in Preds, NEW o \in Ids, Inv, insert(s, p, o)
  PROVE  Inv'
  <1> DEFINE t == <<s, p, o>>
  <1>0. t \in Triples /\ (t \in Held <=> <<p, o>> \in Adj(s2po, s))
    BY DEF Held, Triples
  <1>1. CASE <<p, o>> \in Adj(s2po, s)
    <2>1. s2po' = s2po
      BY <1>1 DEF insert, Put, Adj, Inv, TypeOK, IsMap
    <2>2. UNCHANGED <<s2po, o2ps, p2so, triple_count>> /\ reply' = FALSE
      BY <1>1, <2>1 DEF insert
    <2> QED BY <2>2 DEF Inv, TypeOK, IsMap, IndexesAgree, NoEmptyLists,
                        CountIsExact, Held, Adj
  <1>2. CASE <<p, o>> \notin Adj(s2po, s)
    <2>1. /\ s2po' = Put(s2po, s, <<p, o>>)
          /\ o2ps' = Put(o2ps, o, <<p, s>>)
          /\ p2so' = Put(p2so, p, <<s, o>>)
          /\ triple_count' = triple_count + 1
          /\ reply' = TRUE
      BY <1>2 DEF insert
    <2>2. /\ IsMap(s2po', Ids, Preds \X Ids) /\ NonEmpty(s2po')
          /\ IsMap(o2ps', Ids, Preds \X Ids) /\ NonEmpty(o2ps')
          /\ IsMap(p2so', Preds, Ids \X Ids) /\ NonEmpty(p2so')
      BY <2>1, PutIsMap DEF Inv, TypeOK, NoEmptyLists, NonEmpty
    <2>3. TypeOK' /\ NoEmptyLists'
      BY <2>1, <2>2 DEF Inv, TypeOK, NoEmptyLists, NonEmpty
    <2>4. IndexesAgree'
      <3> SUFFICES ASSUME NEW x \in Ids, NEW y \in Ids, NEW q \in Preds
                   PROVE  /\ <<q, y>> \in Adj(s2po', x) <=> <<q, x>> \in Adj(o2ps', y)
                          /\ <<q, y>> \in Adj(s2po', x) <=> <<x, y>> \in Adj(p2so', q)
        BY DEF IndexesAgree
      <3>1. <<q, y>> \in Adj(s2po', x)
              <=> <<q, y>> \in Adj(s2po, x) \/ (x = s /\ q = p /\ y = o)
        BY <2>1, AdjPut
      <3>2. <<q, x>> \in Adj(o2ps', y)
              <=> <<q, x>> \in Adj(o2ps, y) \/ (x = s /\ q = p /\ y = o)
        BY <2>1, AdjPut
      <3>3. <<x, y>> \in Adj(p2so', q)
              <=> <<x, y>> \in Adj(p2so, q) \/ (x = s /\ q = p /\ y = o)
        BY <2>1, AdjPut
      <3> QED BY <3>1, <3>2, <3>3 DEF Inv, IndexesAgree
    <2>5. CountIsExact'
      <3>1. Held' = Held \cup {t} BY InsertHeld
      <3>2. t \notin Held BY <1>0, <1>2
      <3> QED BY <3>1, <3>2, <2>1, FS_AddElement DEF Inv, CountIsExact
    <2> QED BY <2>3, <2>4, <2>5 DEF Inv
  <1> QED BY <1>1, <1>2

(* remove takes its triple out of the triples held, and nothing else. *)
LEMMA RemoveHeld ==
  ASSUME NEW s \in Ids, NEW p \in Preds, NEW o \in Ids, remove(s, p, o)
  PROVE  Held' = Held \ {<<s, p, o>>}
  <1>1. CASE <<p, o>> \in Adj(s2po, s)
    <2>1. s2po' = prune_empty(Take(s2po, s, <<p, o>>), s)
      BY <1>1 DEF remove
    <2>2. \A x : Adj(s2po', x)
                   = IF x = s THEN Adj(s2po, s) \ {<<p, o>>} ELSE Adj(s2po, x)
      BY <2>1, AdjTake
    <2>3. \A t \in Triples : t \in Held' <=> t \in Held /\ t # <<s, p, o>>
      BY <2>2 DEF Held, Triples
    <2> QED BY <2>3 DEF Held
  <1>2. CASE <<p, o>> \notin Adj(s2po, s)
    <2>1. s2po' = s2po
      BY <1>2 DEF remove
    <2>2. <<s, p, o>> \notin Held
      BY <1>2 DEF Held, Triples
    <2> QED BY <2>1, <2>2 DEF Held, Adj
  <1> QED BY <1>1, <1>2

LEMMA RemoveInv ==
  ASSUME NEW s \in Ids, NEW p \in Preds, NEW o \in Ids, Inv, remove(s, p, o)
  PROVE  Inv'
  <1> DEFINE t == <<s, p, o>>
  <1>0. t \in Triples /\ (t \in Held <=> <<p, o>> \in Adj(s2po, s))
    BY DEF Held, Triples
  <1>1. CASE <<p, o>> \notin Adj(s2po, s)
    <2>1. UNCHANGED <<s2po, o2ps, p2so, triple_count>> /\ reply' = FALSE
      BY <1>1 DEF remove
    <2> QED BY <2>1 DEF Inv, TypeOK, IsMap, IndexesAgree, NoEmptyLists,
                        CountIsExact, Held, Adj
  <1>2. CASE <<p, o>> \in Adj(s2po, s)
    <2>1. /\ s2po' = prune_empty(Take(s2po, s, <<p, o>>), s)
          /\ o2ps' = prune_empty(Take(o2ps, o, <<p, s>>), o)
          /\ p2so' = prune_empty(Take(p2so, p, <<s, o>>), p)
          /\ triple_count' = triple_count - 1
          /\ reply' = TRUE
      BY <1>2 DEF remove
    <2>2. IsMap(s2po', Ids, Preds \X Ids) /\ NonEmpty(s2po')
      <3>1. IsMap(s2po, Ids, Preds \X Ids) /\ NonEmpty(s2po)
        BY DEF Inv, TypeOK, NoEmptyLists, NonEmpty
      <3> QED BY <3>1, <2>1, TakeIsMap, PruneIsMap
    <2>3. IsMap(o2ps', Ids, Preds \X Ids) /\ NonEmpty(o2ps')
      <3>1. IsMap(o2ps, Ids, Preds \X Ids) /\ NonEmpty(o2ps)
        BY DEF Inv, TypeOK, NoEmptyLists, NonEmpty
      <3> QED BY <3>1, <2>1, TakeIsMap, PruneIsMap
    <2>4. IsMap(p2so', Preds, Ids \X Ids) /\ NonEmpty(p2so')
      <3>1. IsMap(p2so, Preds, Ids \X Ids) /\ NonEmpty(p2so)
        BY DEF Inv, TypeOK, NoEmptyLists, NonEmpty
      <3> QED BY <3>1, <2>1, TakeIsMap, PruneIsMap
    <2>5. IndexesAgree'
      <3> SUFFICES ASSUME NEW x \in Ids, NEW y \in Ids, NEW q \in Preds
                   PROVE  /\ <<q, y>> \in Adj(s2po', x) <=> <<q, x>> \in Adj(o2ps', y)
                          /\ <<q, y>> \in Adj(s2po', x) <=> <<x, y>> \in Adj(p2so', q)
        BY DEF IndexesAgree
      <3>1. <<q, y>> \in Adj(s2po', x)
              <=> <<q, y>> \in Adj(s2po, x) /\ ~(x = s /\ q = p /\ y = o)
        BY <2>1, AdjTake
      <3>2. <<q, x>> \in Adj(o2ps', y)
              <=> <<q, x>> \in Adj(o2ps, y) /\ ~(x = s /\ q = p /\ y = o)
        BY <2>1, AdjTake
      <3>3. <<x, y>> \in Adj(p2so', q)
              <=> <<x, y>> \in Adj(p2so, q) /\ ~(x = s /\ q = p /\ y = o)
        BY <2>1, AdjTake
      <3> QED BY <3>1, <3>2, <3>3 DEF Inv, IndexesAgree
    <2>6. CountIsExact' /\ triple_count' \in Nat
      <3>1. Held' = Held \ {t} BY RemoveHeld
      <3>2. t \in Held BY <1>0, <1>2
      <3>3. IsFiniteSet(Held) /\ triple_count = Cardinality(Held)
        BY DEF Inv, CountIsExact
      <3>4. /\ IsFiniteSet(Held \ {t})
            /\ Cardinality(Held \ {t}) = Cardinality(Held) - 1
            /\ Cardinality(Held \ {t}) \in Nat
        BY <3>2, <3>3, FS_RemoveElement, FS_CardinalityType
      <3> QED BY <3>1, <3>3, <3>4, <2>1 DEF CountIsExact
    <2> QED BY <2>1, <2>2, <2>3, <2>4, <2>5, <2>6
            DEF Inv, TypeOK, NoEmptyLists, NonEmpty
  <1> QED BY <1>1, <1>2

(* bulk_load adds exactly its input to the triples held. *)
LEMMA BulkHeld ==
  ASSUME NEW T \in SUBSET Triples, bulk_load(T)
  PROVE  Held' = Held \cup T
  <1> DEFINE E == {<<t[1], <<t[2], t[3]>>>> : t \in T}
  <1>1. E \in SUBSET (Ids \X (Preds \X Ids))
    BY DEF Triples
  <1>2. \A t \in Triples : <<t[1], <<t[2], t[3]>>>> \in E <=> t \in T
    BY DEF Triples
  <1>3. s2po' = Merge(s2po, E)
    BY DEF bulk_load
  <1> HIDE DEF E
  <1>4. \A x, v : v \in Adj(s2po', x) <=> v \in Adj(s2po, x) \/ <<x, v>> \in E
    BY <1>1, <1>3, AdjMerge
  <1>5. \A t \in Triples : t \in Held' <=> t \in Held \/ t \in T
    BY <1>2, <1>4 DEF Held
  <1> QED BY <1>5 DEF Held

(* The sum of the lengths of the lists of a subject map is the number of   *)
(* triples it holds.                                                       *)
LEMMA EntriesCount ==
  ASSUME NEW m, NEW H, IsMap(m, Ids, Preds \X Ids), IsFiniteSet(H),
         H = {t \in Triples : <<t[2], t[3]>> \in Adj(m, t[1])}
  PROVE  Cardinality(Entries(m)) = Cardinality(H)
  <1> DEFINE f == [t \in H |-> <<t[1], <<t[2], t[3]>>>>]
  <1>1. \A e \in Entries(m) :
          <<e[1], e[2][1], e[2][2]>> \in H /\ e = f[<<e[1], e[2][1], e[2][2]>>]
    BY DEF Entries, Triples, IsMap, Adj
  <1>2. \A t \in H : f[t] \in Entries(m)
    BY DEF Entries, Triples, Adj
  <1>3. \A t, u \in H : f[t] = f[u] => t = u
    BY DEF Triples
  <1>4. f \in [H -> Entries(m)] /\ \A e \in Entries(m) : \E t \in H : f[t] = e
    BY <1>1, <1>2
  <1>5. DOMAIN f = H
    OBVIOUS
  <1> HIDE DEF f
  <1>6. f \in Bijection(H, Entries(m))
    BY <1>3, <1>4, <1>5 DEF Bijection, Injection, Surjection, IsInjective
  <1> QED BY <1>6, FS_Bijection DEF ExistsBijection

LEMMA BulkInv ==
  ASSUME NEW T \in SUBSET Triples, IsFiniteSet(T), Inv, bulk_load(T)
  PROVE  Inv'
  <1> DEFINE ES == {<<t[1], <<t[2], t[3]>>>> : t \in T}
             EO == {<<t[3], <<t[2], t[1]>>>> : t \in T}
             EP == {<<t[2], <<t[1], t[3]>>>> : t \in T}
  <1>1. /\ ES \in SUBSET (Ids \X (Preds \X Ids))
        /\ EO \in SUBSET (Ids \X (Preds \X Ids))
        /\ EP \in SUBSET (Preds \X (Ids \X Ids))
    BY DEF Triples
  <1>2. \A s, o \in Ids, p \in Preds :
          /\ <<s, <<p, o>>>> \in ES <=> <<s, p, o>> \in T
          /\ <<o, <<p, s>>>> \in EO <=> <<s, p, o>> \in T
          /\ <<p, <<s, o>>>> \in EP <=> <<s, p, o>> \in T
    BY DEF Triples
  <1>3. s2po' = Merge(s2po, ES) /\ o2ps' = Merge(o2ps, EO) /\ p2so' = Merge(p2so, EP)
    BY DEF bulk_load
  <1> HIDE DEF ES, EO, EP
  <1>4. IsMap(s2po', Ids, Preds \X Ids) /\ NonEmpty(s2po')
    <2>1. IsMap(s2po, Ids, Preds \X Ids) /\ NonEmpty(s2po)
      BY DEF Inv, TypeOK, NoEmptyLists, NonEmpty
    <2> QED BY <2>1, <1>1, <1>3, MergeIsMap
  <1>5. IsMap(o2ps', Ids, Preds \X Ids) /\ NonEmpty(o2ps')
    <2>1. IsMap(o2ps, Ids, Preds \X Ids) /\ NonEmpty(o2ps)
      BY DEF Inv, TypeOK, NoEmptyLists, NonEmpty
    <2> QED BY <2>1, <1>1, <1>3, MergeIsMap
  <1>6. IsMap(p2so', Preds, Ids \X Ids) /\ NonEmpty(p2so')
    <2>1. IsMap(p2so, Preds, Ids \X Ids) /\ NonEmpty(p2so)
      BY DEF Inv, TypeOK, NoEmptyLists, NonEmpty
    <2> QED BY <2>1, <1>1, <1>3, MergeIsMap
  <1>7. IndexesAgree'
    <2> SUFFICES ASSUME NEW x \in Ids, NEW y \in Ids, NEW q \in Preds
                 PROVE  /\ <<q, y>> \in Adj(s2po', x) <=> <<q, x>> \in Adj(o2ps', y)
                        /\ <<q, y>> \in Adj(s2po', x) <=> <<x, y>> \in Adj(p2so', q)
      BY DEF IndexesAgree
    <2>1. <<q, y>> \in Adj(s2po', x) <=> <<q, y>> \in Adj(s2po, x) \/ <<x, q, y>> \in T
      BY <1>1, <1>2, <1>3, AdjMerge
    <2>2. <<q, x>> \in Adj(o2ps', y) <=> <<q, x>> \in Adj(o2ps, y) \/ <<x, q, y>> \in T
      BY <1>1, <1>2, <1>3, AdjMerge
    <2>3. <<x, y>> \in Adj(p2so', q) <=> <<x, y>> \in Adj(p2so, q) \/ <<x, q, y>> \in T
      BY <1>1, <1>2, <1>3, AdjMerge
    <2> QED BY <2>1, <2>2, <2>3 DEF Inv, IndexesAgree
  <1>8. CountIsExact' /\ triple_count' \in Nat
    <2>1. IsFiniteSet(Held')
      <3>1. Held' = Held \cup T BY BulkHeld
      <3>2. IsFiniteSet(Held) BY DEF Inv, CountIsExact
      <3> QED BY <3>1, <3>2, FS_Union
    <2>2. Cardinality(Entries(s2po')) = Cardinality(Held')
      <3>1. Held' = {t \in Triples : <<t[2], t[3]>> \in Adj(s2po', t[1])}
        BY DEF Held
      <3> QED BY <1>4, <2>1, <3>1, EntriesCount
    <2> QED BY <2>1, <2>2, FS_CardinalityType DEF bulk_load, CountIsExact
  <1> QED BY <1>4, <1>5, <1>6, <1>7, <1>8
          DEF Inv, TypeOK, NoEmptyLists, NonEmpty, bulk_load

(* Every step keeps the invariant. *)
LEMMA StepInv == Inv /\ [Next]_vars => Inv'
  <1> SUFFICES ASSUME Inv, [Next]_vars PROVE Inv' OBVIOUS
  <1>1. CASE UNCHANGED vars
    BY <1>1 DEF vars, Inv, TypeOK, IsMap, IndexesAgree, NoEmptyLists,
                CountIsExact, Held, Adj
  <1>2. ASSUME NEW s \in Ids, NEW o \in Ids, NEW p \in Preds, insert(s, p, o)
        PROVE  Inv'
    BY <1>2, InsertInv
  <1>3. ASSUME NEW s \in Ids, NEW o \in Ids, NEW p \in Preds, remove(s, p, o)
        PROVE  Inv'
    BY <1>3, RemoveInv
  <1>4. ASSUME NEW T \in SUBSET Triples, IsFiniteSet(T), bulk_load(T)
        PROVE  Inv'
    BY <1>4, BulkInv
  <1> QED BY <1>1, <1>2, <1>3, <1>4 DEF Next

-----------------------------------------------------------------------------
(* Keys and pairs stay of the right kind and the counter never underflows: *)
(* remove's triple_count -= 1 is reached only when the count is positive.  *)
THEOREM TypeCorrect == Spec => []TypeOK
  <1>1. Inv => TypeOK BY DEF Inv
  <1> QED BY <1>1, InitInv, StepInv, PTL DEF Spec

(* The three adjacency maps always hold the same triples, with no key left *)
(* without pairs.                                                          *)
THEOREM IndexInvariant == Spec => [](IndexesAgree /\ NoEmptyLists)
  <1>1. Inv => IndexesAgree /\ NoEmptyLists BY DEF Inv
  <1> QED BY <1>1, InitInv, StepInv, PTL DEF Spec

(* triple_count is always the number of stored triples. *)
THEOREM ExactCount == Spec => []CountIsExact
  <1>1. Inv => CountIsExact BY DEF Inv
  <1> QED BY <1>1, InitInv, StepInv, PTL DEF Spec

-----------------------------------------------------------------------------
(* Reads. *)

(* Under the invariant each map, read at a key, lists exactly the triples  *)
(* held with that key.                                                     *)
LEMMA MapsAreHeld ==
  ASSUME Inv
  PROVE  /\ \A s \in Ids : Adj(s2po, s) = Contract!po_by_s(s)
         /\ \A o \in Ids : Adj(o2ps, o) = Contract!ps_by_o(o)
         /\ \A p \in Preds : Adj(p2so, p) = Contract!so_by_p(p)
  <1>0. Held \subseteq Triples
    BY DEF Held
  <1>1. ASSUME NEW s \in Ids PROVE Adj(s2po, s) = Contract!po_by_s(s)
    <2>1. Adj(s2po, s) \in SUBSET (Preds \X Ids)
      BY DEF Inv, TypeOK, IsMap, Adj
    <2>2. ASSUME NEW p \in Preds, NEW o \in Ids
          PROVE  <<p, o>> \in Adj(s2po, s) <=> <<s, p, o>> \in Held
      BY DEF Held, Triples
    <2>3. Contract!po_by_s(s) \in SUBSET (Preds \X Ids)
      BY <1>0 DEF Contract!po_by_s, Triples
    <2>4. ASSUME NEW p \in Preds, NEW o \in Ids
          PROVE  <<p, o>> \in Contract!po_by_s(s) <=> <<s, p, o>> \in Held
      BY <1>0 DEF Contract!po_by_s, Triples
    <2>5. \A p \in Preds, o \in Ids :
            <<p, o>> \in Adj(s2po, s) <=> <<p, o>> \in Contract!po_by_s(s)
      BY <2>2, <2>4
    <2> QED BY <2>1, <2>3, <2>5
  <1>2. ASSUME NEW o \in Ids PROVE Adj(o2ps, o) = Contract!ps_by_o(o)
    <2>1. Adj(o2ps, o) \in SUBSET (Preds \X Ids)
      BY DEF Inv, TypeOK, IsMap, Adj
    <2>2. ASSUME NEW p \in Preds, NEW s \in Ids
          PROVE  <<p, s>> \in Adj(o2ps, o) <=> <<s, p, o>> \in Held
      BY DEF Held, Triples, Inv, IndexesAgree
    <2>3. Contract!ps_by_o(o) \in SUBSET (Preds \X Ids)
      BY <1>0 DEF Contract!ps_by_o, Triples
    <2>4. ASSUME NEW p \in Preds, NEW s \in Ids
          PROVE  <<p, s>> \in Contract!ps_by_o(o) <=> <<s, p, o>> \in Held
      BY <1>0 DEF Contract!ps_by_o, Triples
    <2>5. \A p \in Preds, s \in Ids :
            <<p, s>> \in Adj(o2ps, o) <=> <<p, s>> \in Contract!ps_by_o(o)
      BY <2>2, <2>4
    <2> QED BY <2>1, <2>3, <2>5
  <1>3. ASSUME NEW p \in Preds PROVE Adj(p2so, p) = Contract!so_by_p(p)
    <2>1. Adj(p2so, p) \in SUBSET (Ids \X Ids)
      BY DEF Inv, TypeOK, IsMap, Adj
    <2>2. ASSUME NEW s \in Ids, NEW o \in Ids
          PROVE  <<s, o>> \in Adj(p2so, p) <=> <<s, p, o>> \in Held
      BY DEF Held, Triples, Inv, IndexesAgree
    <2>3. Contract!so_by_p(p) \in SUBSET (Ids \X Ids)
      BY <1>0 DEF Contract!so_by_p, Triples
    <2>4. ASSUME NEW s \in Ids, NEW o \in Ids
          PROVE  <<s, o>> \in Contract!so_by_p(p) <=> <<s, p, o>> \in Held
      BY <1>0 DEF Contract!so_by_p, Triples
    <2>5. \A s \in Ids, o \in Ids :
            <<s, o>> \in Adj(p2so, p) <=> <<s, o>> \in Contract!so_by_p(p)
      BY <2>2, <2>4
    <2> QED BY <2>1, <2>3, <2>5
  <1> QED BY <1>1, <1>2, <1>3

(* The key sets are the subjects, objects and predicates of the triples    *)
(* held: this is where a key left with an empty list would show.           *)
LEMMA KeysAreHeld ==
  ASSUME Inv
  PROVE  /\ DOMAIN s2po = Contract!subject_keys
         /\ DOMAIN o2ps = Contract!object_keys
         /\ DOMAIN p2so = Contract!predicates
  <1>1. DOMAIN s2po = Contract!subject_keys
    <2>1. \A s \in DOMAIN s2po : s \in Ids /\ \E t \in Held : t[1] = s
      <3> SUFFICES ASSUME NEW s \in DOMAIN s2po
                   PROVE  s \in Ids /\ \E t \in Held : t[1] = s
        OBVIOUS
      <3>1. s \in Ids /\ s2po[s] # {} /\ s2po[s] \subseteq Preds \X Ids
        BY DEF Inv, TypeOK, IsMap, NoEmptyLists
      <3>2. PICK v \in Preds \X Ids : v \in s2po[s] BY <3>1
      <3>3. <<s, v[1], v[2]>> \in Held BY <3>1, <3>2 DEF Held, Triples, Adj
      <3> QED BY <3>1, <3>3
    <2>2. \A t \in Held : t[1] \in DOMAIN s2po
      BY DEF Held, Adj
    <2> QED BY <2>1, <2>2 DEF Contract!subject_keys
  <1>2. DOMAIN o2ps = Contract!object_keys
    <2>1. \A o \in DOMAIN o2ps : \E t \in Held : t[3] = o
      <3> SUFFICES ASSUME NEW o \in DOMAIN o2ps PROVE \E t \in Held : t[3] = o
        OBVIOUS
      <3>1. o \in Ids /\ o2ps[o] # {} /\ o2ps[o] \subseteq Preds \X Ids
        BY DEF Inv, TypeOK, IsMap, NoEmptyLists
      <3>2. PICK v \in Preds \X Ids : v \in o2ps[o] BY <3>1
      <3>3. PICK p \in Preds, s \in Ids : v = <<p, s>> BY <3>2
      <3>4. <<p, s>> \in Adj(o2ps, o) BY <3>2, <3>3 DEF Adj
      <3>5. <<s, p, o>> \in Held
        BY <3>1, <3>3, <3>4 DEF Held, Triples, Inv, IndexesAgree
      <3> QED BY <3>5
    <2>2. \A t \in Held : t[3] \in DOMAIN o2ps
      <3> SUFFICES ASSUME NEW t \in Held PROVE t[3] \in DOMAIN o2ps OBVIOUS
      <3>1. PICK s \in Ids, p \in Preds, o \in Ids : t = <<s, p, o>>
        BY DEF Held, Triples
      <3>2. <<p, s>> \in Adj(o2ps, o)
        BY <3>1 DEF Held, Inv, IndexesAgree
      <3> QED BY <3>1, <3>2 DEF Adj
    <2> QED BY <2>1, <2>2 DEF Contract!object_keys
  <1>3. DOMAIN p2so = Contract!predicates
    <2>1. \A p \in DOMAIN p2so : \E t \in Held : t[2] = p
      <3> SUFFICES ASSUME NEW p \in DOMAIN p2so PROVE \E t \in Held : t[2] = p
        OBVIOUS
      <3>1. p \in Preds /\ p2so[p] # {} /\ p2so[p] \subseteq Ids \X Ids
        BY DEF Inv, TypeOK, IsMap, NoEmptyLists
      <3>2. PICK v \in Ids \X Ids : v \in p2so[p] BY <3>1
      <3>3. PICK s \in Ids, o \in Ids : v = <<s, o>> BY <3>2
      <3>4. <<s, o>> \in Adj(p2so, p) BY <3>2, <3>3 DEF Adj
      <3>5. <<s, p, o>> \in Held
        BY <3>1, <3>3, <3>4 DEF Held, Triples, Inv, IndexesAgree
      <3> QED BY <3>5
    <2>2. \A t \in Held : t[2] \in DOMAIN p2so
      <3> SUFFICES ASSUME NEW t \in Held PROVE t[2] \in DOMAIN p2so OBVIOUS
      <3>1. PICK s \in Ids, p \in Preds, o \in Ids : t = <<s, p, o>>
        BY DEF Held, Triples
      <3>2. <<s, o>> \in Adj(p2so, p)
        BY <3>1 DEF Held, Inv, IndexesAgree
      <3> QED BY <3>1, <3>2 DEF Adj
    <2> QED BY <2>1, <2>2 DEF Contract!predicates
  <1> QED BY <1>1, <1>2, <1>3

(* The remaining patterns, each computed from one map. *)
LEMMA PatternsAreHeld ==
  ASSUME Inv
  PROVE  /\ \A s \in Ids, p \in Preds : o_by_sp(s, p) = Contract!o_by_sp(s, p)
         /\ \A s, o \in Ids : p_by_so(s, o) = Contract!p_by_so(s, o)
         /\ \A p \in Preds, o \in Ids : s_by_po(p, o) = Contract!s_by_po(p, o)
         /\ \A p \in Preds : subs_by_p(p) = Contract!subs_by_p(p)
         /\ \A p \in Preds : objs_by_p(p) = Contract!objs_by_p(p)
         /\ iter_all = Held
  <1>0. \A t \in Held : t = <<t[1], t[2], t[3]>> /\ t[1] \in Ids /\ t[2] \in Preds /\ t[3] \in Ids
    BY DEF Held, Triples
  <1>1. ASSUME NEW s \in Ids, NEW p \in Preds
        PROVE  o_by_sp(s, p) = Contract!o_by_sp(s, p)
    <2> DEFINE V == Adj(s2po, s)
    <2>1. /\ \A v \in V : \E t \in Held : t[1] = s /\ v = <<t[2], t[3]>>
          /\ \A t \in Held : t[1] = s => <<t[2], t[3]>> \in V
      BY MapsAreHeld DEF Contract!po_by_s
    <2> HIDE DEF V
    <2>2. \A v \in V : v[1] = p => v[2] \in Contract!o_by_sp(s, p)
      BY <2>1 DEF Contract!o_by_sp
    <2>3. ASSUME NEW t \in Held, t[1] = s /\ t[2] = p PROVE t[3] \in o_by_sp(s, p)
      <3>1. <<t[2], t[3]>> \in V /\ <<t[2], t[3]>>[1] = t[2] /\ <<t[2], t[3]>>[2] = t[3]
        BY <2>1, <2>3
      <3> QED BY <2>3, <3>1 DEF o_by_sp, V
    <2>4. o_by_sp(s, p) \subseteq Contract!o_by_sp(s, p)
      BY <2>2 DEF o_by_sp, V
    <2>5. Contract!o_by_sp(s, p) \subseteq o_by_sp(s, p)
      BY <2>3 DEF Contract!o_by_sp
    <2> QED BY <2>4, <2>5
  <1>2. ASSUME NEW s \in Ids, NEW o \in Ids
        PROVE  p_by_so(s, o) = Contract!p_by_so(s, o)
    <2> DEFINE V == Adj(s2po, s)
    <2>1. /\ \A v \in V : \E t \in Held : t[1] = s /\ v = <<t[2], t[3]>>
          /\ \A t \in Held : t[1] = s => <<t[2], t[3]>> \in V
      BY MapsAreHeld DEF Contract!po_by_s
    <2> HIDE DEF V
    <2>2. \A v \in V : v[2] = o => v[1] \in Contract!p_by_so(s, o)
      BY <2>1 DEF Contract!p_by_so
    <2>3. ASSUME NEW t \in Held, t[1] = s /\ t[3] = o PROVE t[2] \in p_by_so(s, o)
      <3>1. <<t[2], t[3]>> \in V /\ <<t[2], t[3]>>[1] = t[2] /\ <<t[2], t[3]>>[2] = t[3]
        BY <2>1, <2>3
      <3> QED BY <2>3, <3>1 DEF p_by_so, V
    <2>4. p_by_so(s, o) \subseteq Contract!p_by_so(s, o)
      BY <2>2 DEF p_by_so, V
    <2>5. Contract!p_by_so(s, o) \subseteq p_by_so(s, o)
      BY <2>3 DEF Contract!p_by_so
    <2> QED BY <2>4, <2>5
  <1>3. ASSUME NEW p \in Preds, NEW o \in Ids
        PROVE  s_by_po(p, o) = Contract!s_by_po(p, o)
    <2> DEFINE V == Adj(o2ps, o)
    <2>1. /\ \A v \in V : \E t \in Held : t[3] = o /\ v = <<t[2], t[1]>>
          /\ \A t \in Held : t[3] = o => <<t[2], t[1]>> \in V
      BY MapsAreHeld DEF Contract!ps_by_o
    <2> HIDE DEF V
    <2>2. \A v \in V : v[1] = p => v[2] \in Contract!s_by_po(p, o)
      BY <2>1 DEF Contract!s_by_po
    <2>3. ASSUME NEW t \in Held, t[3] = o /\ t[2] = p PROVE t[1] \in s_by_po(p, o)
      <3>1. <<t[2], t[1]>> \in V /\ <<t[2], t[1]>>[1] = t[2] /\ <<t[2], t[1]>>[2] = t[1]
        BY <2>1, <2>3
      <3> QED BY <2>3, <3>1 DEF s_by_po, V
    <2>4. s_by_po(p, o) \subseteq Contract!s_by_po(p, o)
      BY <2>2 DEF s_by_po, V
    <2>5. Contract!s_by_po(p, o) \subseteq s_by_po(p, o)
      BY <2>3 DEF Contract!s_by_po
    <2> QED BY <2>4, <2>5
  <1>4. ASSUME NEW p \in Preds
        PROVE  subs_by_p(p) = Contract!subs_by_p(p)
    <2> DEFINE V == Adj(p2so, p)
    <2>1. /\ \A v \in V : \E t \in Held : t[2] = p /\ v = <<t[1], t[3]>>
          /\ \A t \in Held : t[2] = p => <<t[1], t[3]>> \in V
      BY MapsAreHeld DEF Contract!so_by_p
    <2> HIDE DEF V
    <2>2. \A v \in V : v[1] \in Contract!subs_by_p(p)
      BY <2>1 DEF Contract!subs_by_p
    <2>3. ASSUME NEW t \in Held, t[2] = p PROVE t[1] \in subs_by_p(p)
      <3>1. <<t[1], t[3]>> \in V /\ <<t[1], t[3]>>[1] = t[1] /\ <<t[1], t[3]>>[2] = t[3]
        BY <2>1, <2>3
      <3> QED BY <2>3, <3>1 DEF subs_by_p, so_by_p, V
    <2>4. subs_by_p(p) \subseteq Contract!subs_by_p(p)
      BY <2>2 DEF subs_by_p, so_by_p, V
    <2>5. Contract!subs_by_p(p) \subseteq subs_by_p(p)
      BY <2>3 DEF Contract!subs_by_p
    <2> QED BY <2>4, <2>5
  <1>5. ASSUME NEW p \in Preds
        PROVE  objs_by_p(p) = Contract!objs_by_p(p)
    <2> DEFINE V == Adj(p2so, p)
    <2>1. /\ \A v \in V : \E t \in Held : t[2] = p /\ v = <<t[1], t[3]>>
          /\ \A t \in Held : t[2] = p => <<t[1], t[3]>> \in V
      BY MapsAreHeld DEF Contract!so_by_p
    <2> HIDE DEF V
    <2>2. \A v \in V : v[2] \in Contract!objs_by_p(p)
      BY <2>1 DEF Contract!objs_by_p
    <2>3. ASSUME NEW t \in Held, t[2] = p PROVE t[3] \in objs_by_p(p)
      <3>1. <<t[1], t[3]>> \in V /\ <<t[1], t[3]>>[1] = t[1] /\ <<t[1], t[3]>>[2] = t[3]
        BY <2>1, <2>3
      <3> QED BY <2>3, <3>1 DEF objs_by_p, so_by_p, V
    <2>4. objs_by_p(p) \subseteq Contract!objs_by_p(p)
      BY <2>2 DEF objs_by_p, so_by_p, V
    <2>5. Contract!objs_by_p(p) \subseteq objs_by_p(p)
      BY <2>3 DEF Contract!objs_by_p
    <2> QED BY <2>4, <2>5
  <1>6. iter_all = Held
    <2>1. ASSUME NEW t \in iter_all PROVE t \in Held
      <3>1. PICK p \in DOMAIN p2so : \E v \in p2so[p] : t = <<v[1], p, v[2]>>
        BY DEF iter_all
      <3>2. PICK v \in p2so[p] : t = <<v[1], p, v[2]>>
        BY <3>1
      <3>3. p \in Preds /\ p2so[p] = Contract!so_by_p(p)
        BY MapsAreHeld DEF Inv, TypeOK, IsMap, Adj
      <3>4. PICK u \in Held : u[2] = p /\ v = <<u[1], u[3]>>
        BY <3>2, <3>3 DEF Contract!so_by_p
      <3> QED BY <1>0, <3>2, <3>4
    <2>2. ASSUME NEW t \in Held PROVE t \in iter_all
      <3>1. t[2] \in DOMAIN p2so
        BY KeysAreHeld DEF Contract!predicates
      <3>2. p2so[t[2]] = Contract!so_by_p(t[2])
        BY <1>0, <3>1, MapsAreHeld DEF Adj
      <3>3. <<t[1], t[3]>> \in p2so[t[2]]
        BY <3>2 DEF Contract!so_by_p
      <3>4. t = << <<t[1], t[3]>>[1], t[2], <<t[1], t[3]>>[2] >>
        BY <1>0
      <3> QED BY <3>1, <3>3, <3>4 DEF iter_all
    <2> QED BY <2>1, <2>2
  <1> QED BY <1>1, <1>2, <1>3, <1>4, <1>5, <1>6

(* Under the invariant every read is a function of the triples held. *)
LEMMA InvReads == Inv => ReadsAgree
  <1> SUFFICES ASSUME Inv PROVE ReadsAgree OBVIOUS
  <1>1. Patterns = Contract!Patterns
    <2>1. Contract!Triples = Triples
      BY DEF Contract!Triples, Triples
    <2>2. \A t \in Triples : exists(t[1], t[2], t[3]) <=> t \in Held
      BY DEF exists, Held
    <2>3. [t \in Triples |-> exists(t[1], t[2], t[3])] = [t \in Triples |-> t \in Held]
      BY <2>2 DEF exists
    <2>4. \A s \in Ids : po_by_s(s) = Contract!po_by_s(s)
      BY MapsAreHeld DEF po_by_s
    <2>5. \A o \in Ids : ps_by_o(o) = Contract!ps_by_o(o)
      BY MapsAreHeld DEF ps_by_o
    <2>6. \A p \in Preds : so_by_p(p) = Contract!so_by_p(p)
      BY MapsAreHeld DEF so_by_p
    <2>7. [x \in Ids \X Preds |-> o_by_sp(x[1], x[2])]
            = [x \in Ids \X Preds |-> Contract!o_by_sp(x[1], x[2])]
      BY PatternsAreHeld
    <2>8. [x \in Ids \X Ids |-> p_by_so(x[1], x[2])]
            = [x \in Ids \X Ids |-> Contract!p_by_so(x[1], x[2])]
      BY PatternsAreHeld
    <2>9. [x \in Preds \X Ids |-> s_by_po(x[1], x[2])]
            = [x \in Preds \X Ids |-> Contract!s_by_po(x[1], x[2])]
      BY PatternsAreHeld
    <2> QED BY <2>1, <2>3, <2>4, <2>5, <2>6, <2>7, <2>8, <2>9, PatternsAreHeld, KeysAreHeld
            DEF Patterns, Contract!Patterns
  <1>2. Statistics = Contract!Statistics
    <2>1. \A p \in Preds : so_by_p(p) = Contract!so_by_p(p)
      BY MapsAreHeld DEF so_by_p
    <2>2. triple_count = Cardinality(Held)
      BY DEF Inv, CountIsExact
    <2>3. \A S : Contract!Cardinality(S) = Cardinality(S)
      BY DEF Contract!Cardinality, Cardinality
    <2>4. /\ \A p \in Preds : subs_by_p(p) = Contract!subs_by_p(p)
          /\ \A p \in Preds : objs_by_p(p) = Contract!objs_by_p(p)
      BY PatternsAreHeld
    <2> QED BY <2>1, <2>2, <2>3, <2>4, KeysAreHeld DEF Statistics, Contract!Statistics
  <1> QED BY <1>1, <1>2 DEF ReadsAgree

(* Every access pattern and every optimizer statistic, whichever of the    *)
(* maps it is read from, is what the set of stored triples determines.     *)
THEOREM ReadsCorrect == Spec => []ReadsAgree
  BY InitInv, StepInv, InvReads, PTL DEF Spec

(* The store implements the contract of a storage backend: its calls are   *)
(* insertions into and removals from one set, answered truthfully.         *)
THEOREM Refinement == Spec => Implements
  <1>1. new => Contract!Init
    BY DEF new, Contract!Init, Held, Adj
  <1>2. Inv /\ [Next]_vars => [Contract!Next]_(Contract!vars)
    <2> SUFFICES ASSUME Inv, [Next]_vars
                 PROVE  [Contract!Next]_(Contract!vars)
      OBVIOUS
    <2>0. Contract!Triples = Triples
      BY DEF Contract!Triples, Triples
    <2>1. CASE UNCHANGED vars
      BY <2>1 DEF vars, Contract!vars, Held, Adj
    <2>2. ASSUME NEW s \in Ids, NEW o \in Ids, NEW p \in Preds, insert(s, p, o)
          PROVE  Contract!Next
      <3>1. <<s, p, o>> \in Triples /\ (<<s, p, o>> \in Held <=> <<p, o>> \in Adj(s2po, s))
        BY DEF Held, Triples
      <3>2. reply' = (<<s, p, o>> \notin Held)
        BY <2>2, <3>1 DEF insert
      <3>3. Contract!Insert(<<s, p, o>>)
        BY <2>2, <3>2, InsertHeld DEF Contract!Insert
      <3> QED BY <2>0, <3>1, <3>3 DEF Contract!Next
    <2>3. ASSUME NEW s \in Ids, NEW o \in Ids, NEW p \in Preds, remove(s, p, o)
          PROVE  Contract!Next
      <3>1. <<s, p, o>> \in Triples /\ (<<s, p, o>> \in Held <=> <<p, o>> \in Adj(s2po, s))
        BY DEF Held, Triples
      <3>2. reply' = (<<s, p, o>> \in Held)
        <4>1. CASE <<p, o>> \in Adj(s2po, s)
          BY <2>3, <3>1, <4>1 DEF remove
        <4>2. CASE <<p, o>> \notin Adj(s2po, s)
          <5>1. reply' = FALSE BY <2>3, <4>2 DEF remove
          <5>2. (<<s, p, o>> \in Held) = FALSE BY <3>1, <4>2
          <5> QED BY <5>1, <5>2
        <4> QED BY <4>1, <4>2
      <3>3. Contract!Remove(<<s, p, o>>)
        BY <2>3, <3>2, RemoveHeld DEF Contract!Remove
      <3> QED BY <2>0, <3>1, <3>3 DEF Contract!Next
    <2>4. ASSUME NEW T \in SUBSET Triples, bulk_load(T)
          PROVE  Contract!Next
      <3>1. Contract!BulkLoad(T)
        BY <2>4, BulkHeld DEF Contract!BulkLoad, bulk_load
      <3> QED BY <2>0, <3>1 DEF Contract!Next
    <2> QED BY <2>1, <2>2, <2>3, <2>4 DEF Next
  <1> QED BY <1>1, <1>2, InitInv, StepInv, PTL DEF Spec, Implements, Contract!Spec
=============================================================================
