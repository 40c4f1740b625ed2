-------------------------- MODULE RocksStoreProofs --------------------------
(***************************************************************************)
(* TLAPS proofs about RocksStore: the counters of the stats column family  *)
(* are exact, for every set of ids and predicates.                         *)
(***************************************************************************)
EXTENDS RocksStore, FiniteSetTheorems, TLAPS

-----------------------------------------------------------------------------
(* The invariant.                                                          *)

\* The keys that count references.
RefKeys ==
  {<<"c", p>> : p \in Preds} \cup {<<"s", i>> : i \in Ids} \cup {<<"o", i>> : i \in Ids}
    \cup {<<"x", p, i>> : p \in Preds, i \in Ids} \cup {<<"y", p, i>> : p \in Preds, i \in Ids}
Refs(t) == Counted(t[1], t[2], t[3])

\* The triples that hold a key up, and the keys that some triple holds up.
Occ(S, k) == {u \in S : k \in Refs(u)}
Live(S) == {k \in RefKeys : Occ(S, k) # {}}

\* The keys that count distinct keys, and the keys they count.
GroupKeys ==
  {<<"P">>, <<"S">>, <<"O">>} \cup {<<"u", p>> : p \in Preds} \cup {<<"v", p>> : p \in Preds}
Group(g) ==
  {k \in RefKeys :
     \/ g[1] = "P" /\ k[1] = "c"
     \/ g[1] = "S" /\ k[1] = "s"
     \/ g[1] = "O" /\ k[1] = "o"
     \/ g[1] = "u" /\ k[1] = "x" /\ k[2] = g[2]
     \/ g[1] = "v" /\ k[1] = "y" /\ k[2] = g[2]}

AllKeys == RefKeys \cup GroupKeys \cup {<<"T">>}

\* What each counter of a set of triples should be.
Count(S, k) ==
  IF k = <<"T">> THEN Cardinality(S)
  ELSE IF k \in RefKeys THEN Cardinality(Occ(S, k)) ELSE Cardinality(Live(S) \cap Group(k))

\* The three key orders mirror each other and every counter is exact; a
\* reference count of zero is not kept, so that a prefix scan finds live keys.
IsFinite(S) == S \subseteq Triples /\ IsFiniteSet(S) /\ IsFiniteSet(Live(S))
Turned(S, a, b, c) == {<<t[a], t[b], t[c]>> : t \in S}
Mirrors(d) ==
  /\ d = [spo |-> d.spo, pos |-> d.pos, osp |-> d.osp, stats |-> d.stats]
  /\ d.pos = Turned(d.spo, 2, 3, 1) /\ d.osp = Turned(d.spo, 3, 1, 2)
Counters(d) ==
  /\ \A k \in AllKeys : get_u64(d, k) = Count(d.spo, k)
  /\ \A k \in DOMAIN d.stats : k \in AllKeys /\ (k \in RefKeys => d.stats[k] # 0)
  /\ d.stats = [k \in DOMAIN d.stats |-> d.stats[k]]
Exact(d) == IsFinite(d.spo) /\ Mirrors(d) /\ Counters(d)

Inv ==
  /\ Exact(db) /\ Exact(disk) /\ cache = Globals(db)
  /\ loading \subseteq Triples /\ reply \in BOOLEAN

-----------------------------------------------------------------------------
(* Counting.                                                               *)

\* The first part of a key tells what it counts.
LEMMA Tags ==
  /\ \A k \in RefKeys : k[1] \in {"c", "s", "o", "x", "y"}
  /\ \A k \in GroupKeys : k[1] \in {"P", "S", "O", "u", "v"}
  /\ <<"T">> \notin RefKeys /\ <<"T">> \notin GroupKeys
  /\ \A k \in GroupKeys : k \notin RefKeys
<1>1. \A k \in RefKeys : k[1] \in {"c", "s", "o", "x", "y"}
  BY DEF RefKeys
<1>2. \A k \in GroupKeys : k[1] \in {"P", "S", "O", "u", "v"}
  BY DEF GroupKeys
<1>3. <<"T">>[1] = "T"
  OBVIOUS
<1>4. <<"T">> \notin RefKeys /\ <<"T">> \notin GroupKeys
  BY <1>1, <1>2, <1>3
<1>5. \A k \in GroupKeys : k \notin RefKeys
  BY <1>1, <1>2
<1> QED BY <1>1, <1>2, <1>4, <1>5

\* A triple holds up keys of its ids and predicates.
LEMMA RefsAreKeys ==
  ASSUME NEW t \in Triples
  PROVE  Refs(t) \subseteq RefKeys
BY DEF Refs, Counted, RefKeys, Triples

\* One triple holds up at most one key of a group.
LEMMA GroupMeets ==
  ASSUME NEW t \in Triples, NEW g \in GroupKeys,
         NEW i \in Refs(t) \cap Group(g), NEW j \in Refs(t) \cap Group(g)
  PROVE  i = j
<1>1. i[1] = j[1]
  BY Tags DEF Group
<1> QED BY <1>1 DEF Refs, Counted

\* Counters are natural numbers.
LEMMA CountType ==
  ASSUME NEW S, IsFinite(S), NEW k \in AllKeys
  PROVE  Count(S, k) \in Nat
<1>1. Occ(S, k) \in SUBSET S /\ (Live(S) \cap Group(k)) \in SUBSET Live(S)
  BY DEF Occ
<1>2. IsFiniteSet(Occ(S, k)) /\ IsFiniteSet(Live(S) \cap Group(k))
  BY <1>1, FS_Subset DEF IsFinite
<1> QED BY <1>2, FS_CardinalityType DEF IsFinite, Count

\* The keys that move when t joins S.
Bumped(S, t) ==
  {<<"T">>} \cup Refs(t)
    \cup {g \in GroupKeys : \E j \in Refs(t) \cap Group(g) : Count(S, j) = 0}

\* A reference count is zero when no triple holds the key up.
LEMMA OccZero ==
  ASSUME NEW S, IsFinite(S), NEW k \in RefKeys
  PROVE  IsFiniteSet(Occ(S, k)) /\ (Count(S, k) = 0 <=> k \notin Live(S))
<1>1. Occ(S, k) \in SUBSET S
  BY DEF Occ
<1>2. IsFiniteSet(Occ(S, k))
  BY <1>1, FS_Subset DEF IsFinite
<1>3. Count(S, k) = Cardinality(Occ(S, k))
  BY Tags DEF Count
<1> QED BY <1>2, <1>3, FS_EmptySet DEF Live

\* A triple that joins makes its keys live.
LEMMA LiveAdd ==
  ASSUME NEW S, NEW t \in Triples
  PROVE  Live(S \cup {t}) = Live(S) \cup Refs(t)
<1>1. \A k : Occ(S \cup {t}, k) = Occ(S, k) \cup {u \in {t} : k \in Refs(u)}
  BY DEF Occ
<1> QED BY <1>1, RefsAreKeys DEF Live

\* The live keys stay finite when a triple joins,
LEMMA FiniteAdd ==
  ASSUME NEW S, IsFinite(S), NEW t \in Triples
  PROVE  IsFinite(S \cup {t})
<1>1. \E a, b, c, d, e : Refs(t) = {a, b, c, d, e}
  BY DEF Refs, Counted
<1>2. PICK a, b, c, d, e : Refs(t) = {a, b, c, d, e}
  BY <1>1
<1> DEFINE L1 == Live(S) \cup {a}  L2 == L1 \cup {b}  L3 == L2 \cup {c}  L4 == L3 \cup {d}
<1>3. IsFiniteSet(L1)
  BY FS_AddElement DEF IsFinite
<1>4. IsFiniteSet(L2)
  BY <1>3, FS_AddElement
<1>5. IsFiniteSet(L3)
  BY <1>4, FS_AddElement
<1>6. IsFiniteSet(L4)
  BY <1>5, FS_AddElement
<1>7. IsFiniteSet(L4 \cup {e})
  BY <1>6, FS_AddElement
<1>8. L4 \cup {e} = Live(S \cup {t})
  BY <1>2, LiveAdd
<1>9. IsFiniteSet(S \cup {t})
  BY FS_AddElement DEF IsFinite
<1> QED BY <1>7, <1>8, <1>9 DEF IsFinite

\* and when one leaves.
LEMMA FiniteRemove ==
  ASSUME NEW S, IsFinite(S), NEW t
  PROVE  IsFinite(S \ {t})
<1>1. (S \ {t}) \in SUBSET S /\ Live(S \ {t}) \in SUBSET Live(S)
  BY DEF Live, Occ
<1> QED BY <1>1, FS_Subset DEF IsFinite

\* A triple that joins moves the counters of Bumped by one, and no other.
LEMMA CountAdd ==
  ASSUME NEW S, IsFinite(S), NEW t \in Triples, t \notin S, NEW k \in AllKeys
  PROVE  Count(S \cup {t}, k) = IF k \in Bumped(S, t) THEN Count(S, k) + 1 ELSE Count(S, k)
<1>1. CASE k = <<"T">>
  BY <1>1, FS_AddElement DEF Count, IsFinite, Bumped
<1>2. CASE k \in RefKeys
  <2>1. Occ(S \cup {t}, k) = IF k \in Refs(t) THEN Occ(S, k) \cup {t} ELSE Occ(S, k)
    BY DEF Occ
  <2>2. t \notin Occ(S, k) /\ IsFiniteSet(Occ(S, k))
    BY <1>2, OccZero DEF Occ
  <2>3. k \in Bumped(S, t) <=> k \in Refs(t)
    BY <1>2, Tags DEF Bumped
  <2>4. Count(S, k) = Cardinality(Occ(S, k)) /\ Count(S \cup {t}, k) = Cardinality(Occ(S \cup {t}, k))
    BY <1>2, Tags DEF Count
  <2>5. Cardinality(Occ(S, k) \cup {t}) = Cardinality(Occ(S, k)) + 1
    BY <2>2, FS_AddElement
  <2> QED BY <2>1, <2>3, <2>4, <2>5
<1>3. CASE k \in GroupKeys
  <2> DEFINE A == Live(S) \cap Group(k)  B == Live(S \cup {t}) \cap Group(k)
  <2>1. A \in SUBSET Live(S)
    OBVIOUS
  <2>2. IsFiniteSet(A)
    BY <2>1, FS_Subset DEF IsFinite
  <2>3. B = A \cup (Refs(t) \cap Group(k))
    BY LiveAdd
  <2>4. Count(S, k) = Cardinality(A) /\ Count(S \cup {t}, k) = Cardinality(B)
    BY <1>3, Tags DEF Count
  <2>5. k \in Bumped(S, t) <=> \E j \in Refs(t) \cap Group(k) : j \notin Live(S)
    BY <1>3, Tags, RefsAreKeys, OccZero DEF Bumped
  <2>6. CASE Refs(t) \cap Group(k) = {}
    BY <2>3, <2>4, <2>5, <2>6
  <2>7. CASE Refs(t) \cap Group(k) # {}
    <3>1. PICK j \in Refs(t) \cap Group(k) : TRUE
      BY <2>7
    <3>2. Refs(t) \cap Group(k) = {j}
      BY <1>3, <3>1, GroupMeets
    <3>3. B = A \cup {j} /\ (j \in A <=> j \in Live(S))
      BY <2>3, <3>1, <3>2
    <3>4. k \in Bumped(S, t) <=> j \notin A
      BY <2>5, <3>2, <3>3
    <3> HIDE DEF A, B
    <3> QED BY <3>3, <3>4, <2>2, <2>4, FS_AddElement
  <2> QED BY <2>6, <2>7
<1> QED BY <1>1, <1>2, <1>3 DEF AllKeys

-----------------------------------------------------------------------------
(* One batch.                                                              *)

\* The set without the triple: the state before an insertion, after a removal.
Without(t) == db.spo \ {t}

\* An insertion finds a counter at 0, a removal at 1, exactly when no other
\* triple holds it up.
LEMMA EdgeIsZero ==
  ASSUME Exact(db), NEW t \in Triples, NEW up \in BOOLEAN, up <=> t \notin db.spo, NEW k \in Refs(t)
  PROVE  get_u64(db, k) = edge(up) <=> Count(Without(t), k) = 0
<1>1. k \in AllKeys /\ k \in Bumped(Without(t), t)
  BY RefsAreKeys DEF AllKeys, Bumped
<1>2. get_u64(db, k) = Count(db.spo, k)
  BY <1>1 DEF Exact, Counters
<1>3. IsFinite(Without(t)) /\ t \notin Without(t)
  BY FiniteRemove DEF Exact, Without
<1>4. CASE up
  <2>1. Without(t) = db.spo
    BY <1>4 DEF Without
  <2> QED BY <1>2, <1>4, <2>1 DEF edge
<1>5. CASE ~up
  <2>1. Without(t) \cup {t} = db.spo
    BY <1>5 DEF Without
  <2>2. Count(db.spo, k) = Count(Without(t), k) + 1
    BY <1>1, <1>3, <2>1, CountAdd
  <2>3. Count(Without(t), k) \in Nat
    BY <1>1, <1>3, CountType
  <2> QED BY <1>2, <1>5, <2>2, <2>3 DEF edge
<1> QED BY <1>4, <1>5

\* The keys that a batch writes.
Moved(s, p, o, up) == {<<g>> : g \in MovedGlobals(s, p, o, up)}
LEMMA MovedKeys ==
  ASSUME NEW s, NEW p, NEW o, NEW up, NEW k
  PROVE  k \in Moved(s, p, o, up) <=>
           \/ k = <<"T">>
           \/ k = <<"P">> /\ get_u64(db, <<"c", p>>) = edge(up)
           \/ k = <<"S">> /\ get_u64(db, <<"s", s>>) = edge(up)
           \/ k = <<"O">> /\ get_u64(db, <<"o", o>>) = edge(up)
<1>1. \A g : g \in MovedGlobals(s, p, o, up) <=>
           \/ g = "T"
           \/ g = "P" /\ get_u64(db, <<"c", p>>) = edge(up)
           \/ g = "S" /\ get_u64(db, <<"s", s>>) = edge(up)
           \/ g = "O" /\ get_u64(db, <<"o", o>>) = edge(up)
  BY DEF MovedGlobals
<1>2. k \in Moved(s, p, o, up) <=> \E g : g \in MovedGlobals(s, p, o, up) /\ k = <<g>>
  BY DEF Moved
<1> HIDE DEF Moved
<1> QED BY <1>1, <1>2

\* The one key of each group that a triple holds up.
LEMMA GroupOf ==
  ASSUME NEW s \in Ids, NEW p \in Preds, NEW o \in Ids, NEW g \in GroupKeys, NEW j
  PROVE  j \in Refs(<<s, p, o>>) \cap Group(g) <=>
           \/ g = <<"P">> /\ j = <<"c", p>>
           \/ g = <<"S">> /\ j = <<"s", s>>
           \/ g = <<"O">> /\ j = <<"o", o>>
           \/ g = <<"u", p>> /\ j = <<"x", p, s>>
           \/ g = <<"v", p>> /\ j = <<"y", p, o>>
<1>1. /\ <<"c", p>> \in RefKeys /\ <<"s", s>> \in RefKeys /\ <<"o", o>> \in RefKeys
      /\ <<"x", p, s>> \in RefKeys /\ <<"y", p, o>> \in RefKeys
  BY DEF RefKeys
<1>2. Refs(<<s, p, o>>) = {<<"c", p>>, <<"s", s>>, <<"o", o>>, <<"x", p, s>>, <<"y", p, o>>}
  BY DEF Refs, Counted
<1>3. CASE g = <<"P">>
  BY <1>1, <1>2, <1>3 DEF Group
<1>4. CASE g = <<"S">>
  BY <1>1, <1>2, <1>4 DEF Group
<1>5. CASE g = <<"O">>
  BY <1>1, <1>2, <1>5 DEF Group
<1>6. CASE \E q \in Preds : g = <<"u", q>>
  <2>1. PICK q \in Preds : g = <<"u", q>>
    BY <1>6
  <2>2. g[1] = "u" /\ g[2] = q
    BY <2>1
  <2>3. j \in Refs(<<s, p, o>>) \cap Group(g) <=> j = <<"x", p, s>> /\ q = p
    BY <1>1, <1>2, <2>2 DEF Group
  <2> QED BY <2>1, <2>3
<1>7. CASE \E q \in Preds : g = <<"v", q>>
  <2>1. PICK q \in Preds : g = <<"v", q>>
    BY <1>7
  <2>2. g[1] = "v" /\ g[2] = q
    BY <2>1
  <2>3. j \in Refs(<<s, p, o>>) \cap Group(g) <=> j = <<"y", p, o>> /\ q = p
    BY <1>1, <1>2, <2>2 DEF Group
  <2> QED BY <2>1, <2>3
<1> QED BY <1>3, <1>4, <1>5, <1>6, <1>7 DEF GroupKeys

\* A batch writes exactly the counters that the triple moves.
LEMMA BatchIsBumped ==
  ASSUME Exact(db), NEW s \in Ids, NEW p \in Preds, NEW o \in Ids,
         NEW up \in BOOLEAN, up <=> <<s, p, o>> \notin db.spo
  PROVE  Bumped(Without(<<s, p, o>>), <<s, p, o>>) = Moved(s, p, o, up) \cup Stepped(s, p, o, up)
<1> DEFINE t == <<s, p, o>>  S == Without(t)
<1>1. t \in Triples
  BY DEF Triples
<1>2. Refs(t) = {<<"c", p>>, <<"s", s>>, <<"o", o>>, <<"x", p, s>>, <<"y", p, o>>}
  BY DEF Refs, Counted
<1>3. \A k \in Refs(t) : get_u64(db, k) = edge(up) <=> Count(S, k) = 0
  BY <1>1, EdgeIsZero
<1>4. /\ <<"P">> \in GroupKeys /\ <<"S">> \in GroupKeys /\ <<"O">> \in GroupKeys
      /\ <<"u", p>> \in GroupKeys /\ <<"v", p>> \in GroupKeys
  BY DEF GroupKeys
<1> SUFFICES ASSUME NEW k PROVE k \in Bumped(S, t) <=> k \in Moved(s, p, o, up) \/ k \in Stepped(s, p, o, up)
  OBVIOUS
<1>5. k \in Bumped(S, t) <=>
        \/ k = <<"T">> \/ k \in Refs(t)
        \/ k \in GroupKeys /\ \E j : j \in Refs(t) \cap Group(k) /\ Count(S, j) = 0
  BY DEF Bumped
<1>6. k \in Stepped(s, p, o, up) <=>
        \/ k \in Refs(t)
        \/ k = <<"u", p>> /\ get_u64(db, <<"x", p, s>>) = edge(up)
        \/ k = <<"v", p>> /\ get_u64(db, <<"y", p, o>>) = edge(up)
  BY DEF Stepped, Refs
<1> DEFINE Hit == \E j : j \in Refs(t) \cap Group(k) /\ Count(S, j) = 0
<1>7. k \in GroupKeys /\ Hit <=>
           \/ k = <<"P">> /\ Count(S, <<"c", p>>) = 0
           \/ k = <<"S">> /\ Count(S, <<"s", s>>) = 0
           \/ k = <<"O">> /\ Count(S, <<"o", o>>) = 0
           \/ k = <<"u", p>> /\ Count(S, <<"x", p, s>>) = 0
           \/ k = <<"v", p>> /\ Count(S, <<"y", p, o>>) = 0
  <2>1. CASE k \notin GroupKeys
    BY <1>4, <2>1
  <2>2. CASE k \in GroupKeys
    <3>1. \A j : j \in Refs(t) \cap Group(k) <=>
           \/ k = <<"P">> /\ j = <<"c", p>>
           \/ k = <<"S">> /\ j = <<"s", s>>
           \/ k = <<"O">> /\ j = <<"o", o>>
           \/ k = <<"u", p>> /\ j = <<"x", p, s>>
           \/ k = <<"v", p>> /\ j = <<"y", p, o>>
      BY <2>2, GroupOf
    <3> HIDE DEF S, t
    <3> QED BY <2>2, <3>1
  <2> QED BY <2>1, <2>2
<1>8. k \in Moved(s, p, o, up) <=>
           \/ k = <<"T">>
           \/ k = <<"P">> /\ Count(S, <<"c", p>>) = 0
           \/ k = <<"S">> /\ Count(S, <<"s", s>>) = 0
           \/ k = <<"O">> /\ Count(S, <<"o", o>>) = 0
  BY MovedKeys, <1>2, <1>3
<1>9. k \in Stepped(s, p, o, up) <=>
        \/ k \in Refs(t)
        \/ k = <<"u", p>> /\ Count(S, <<"x", p, s>>) = 0
        \/ k = <<"v", p>> /\ Count(S, <<"y", p, o>>) = 0
  BY <1>6, <1>2, <1>3
<1> HIDE DEF S, t, Hit
<1> QED BY <1>5, <1>7, <1>8, <1>9 DEF Hit

By(n, up) == IF up THEN n + 1 ELSE n - 1

\* The keys of the global counters are not reference keys.
LEMMA MovedAreGlobal ==
  ASSUME NEW s, NEW p, NEW o, NEW up
  PROVE  /\ \A k \in Moved(s, p, o, up) : k \notin RefKeys /\ k \notin Stepped(s, p, o, up)
         /\ \A k \in Moved(s, p, o, up) : k = <<k[1]>> /\ k[1] \in MovedGlobals(s, p, o, up)
         /\ \A g : <<g>> \in Moved(s, p, o, up) <=> g \in MovedGlobals(s, p, o, up)
         /\ \A g \in GlobalKeys : <<g>> \notin Stepped(s, p, o, up)
         /\ MovedGlobals(s, p, o, up) \subseteq GlobalKeys
<1>1. MovedGlobals(s, p, o, up) \subseteq GlobalKeys
  BY DEF MovedGlobals, GlobalKeys
<1>2. \A k \in Moved(s, p, o, up) : k = <<k[1]>> /\ k[1] \in MovedGlobals(s, p, o, up)
  BY DEF Moved
<1>3. \A g : <<g>> \in Moved(s, p, o, up) <=> g \in MovedGlobals(s, p, o, up)
  <2> TAKE g
  <2>1. \A h : <<h>> = <<g>> => h = g
    OBVIOUS
  <2> QED BY <2>1 DEF Moved
<1>4. \A k \in Stepped(s, p, o, up) : k[1] \in {"c", "s", "o", "x", "y", "u", "v"}
  BY DEF Stepped, Counted
<1>5. \A g \in GlobalKeys : <<g>>[1] = g /\ g \notin {"c", "s", "o", "x", "y", "u", "v"}
  BY DEF GlobalKeys
<1>6. \A g \in GlobalKeys : <<g>> \notin Stepped(s, p, o, up)
  BY <1>4, <1>5
<1>7. \A k \in Moved(s, p, o, up) : k \notin RefKeys /\ k \notin Stepped(s, p, o, up)
  BY <1>1, <1>2, <1>4, <1>5, Tags
<1> QED BY <1>1, <1>2, <1>3, <1>6, <1>7

\* What each counter is after the batch, in the database and in the cache.
Batched(s, p, o, up, d) ==
  /\ \A k : get_u64(d, k) = IF k \in Moved(s, p, o, up) \cup Stepped(s, p, o, up)
                              THEN By(get_u64(db, k), up) ELSE get_u64(db, k)
  /\ NewCache(s, p, o, up) = Globals(d)
  /\ d.stats = [k \in DOMAIN d.stats |-> d.stats[k]]
  /\ \A k \in DOMAIN d.stats :
       \/ k \in Moved(s, p, o, up)
       \/ k \in Stepped(s, p, o, up) /\ d.stats[k] # 0
       \/ k \in DOMAIN db.stats /\ d.stats[k] = db.stats[k]
LEMMA StatsStep ==
  ASSUME cache = Globals(db), NEW s, NEW p, NEW o, NEW up \in BOOLEAN,
         NEW d, d.stats = NewStats(s, p, o, up)
  PROVE  Batched(s, p, o, up, d)
<1> DEFINE M == Moved(s, p, o, up)  P == Stepped(s, p, o, up)
           kept == {k \in DOMAIN db.stats \cup P : k \in P => step(k, up) # 0}
           NC == NewCache(s, p, o, up)
<1>1. d.stats = [k \in kept \cup M |->
         IF k \in M THEN NC[k[1]] ELSE IF k \in P THEN step(k, up) ELSE db.stats[k]]
  BY DEF NewStats, Moved
<1>2. /\ DOMAIN d.stats = kept \cup M
      /\ \A k \in kept \cup M :
           d.stats[k] = IF k \in M THEN NC[k[1]] ELSE IF k \in P THEN step(k, up) ELSE db.stats[k]
  BY <1>1
<1>3. \A k : step(k, up) = By(get_u64(db, k), up)
  BY DEF step, By
<1>4. \A g \in GlobalKeys : cache[g] = get_u64(db, <<g>>)
  BY DEF Globals
<1>5. \A g \in GlobalKeys : NC[g] = IF <<g>> \in M THEN By(get_u64(db, <<g>>), up) ELSE get_u64(db, <<g>>)
  BY <1>4, MovedAreGlobal DEF NewCache, By
<1>6. \A k \in M : NC[k[1]] = By(get_u64(db, k), up)
  <2> TAKE k \in M
  <2>1. k = <<k[1]>> /\ k[1] \in GlobalKeys
    BY MovedAreGlobal
  <2> HIDE DEF NC, M
  <2> QED BY <2>1, <1>5
<1>7. DOMAIN NC = GlobalKeys
  BY DEF NewCache
<1>8. M \cap P = {}
  BY MovedAreGlobal
<1>9. \A k : get_u64(d, k) = IF k \in M \cup P THEN By(get_u64(db, k), up) ELSE get_u64(db, k)
  <2> TAKE k
  <2>1. CASE k \in M
    BY <1>2, <1>6, <2>1 DEF get_u64
  <2>2. CASE k \in P
    <3>1. k \notin M
      BY <1>8, <2>2
    <3>2. k \in kept <=> step(k, up) # 0
      BY <2>2
    <3> HIDE DEF kept, M, P
    <3> QED BY <1>2, <1>3, <2>2, <3>1, <3>2 DEF get_u64
  <2>3. CASE k \notin M \cup P
    <3>1. k \in kept <=> k \in DOMAIN db.stats
      BY <2>3
    <3> HIDE DEF kept, M, P
    <3> QED BY <1>2, <2>3, <3>1 DEF get_u64
  <2> QED BY <2>1, <2>2, <2>3
<1>10. NC = Globals(d)
  <2>1. \A g \in GlobalKeys : <<g>> \notin P
    BY MovedAreGlobal
  <2>2. \A g \in GlobalKeys : NC[g] = get_u64(d, <<g>>)
    BY <1>5, <1>9, <2>1
  <2>3. NC = [g \in GlobalKeys |-> NC[g]]
    BY DEF NewCache
  <2> HIDE DEF NC
  <2> QED BY <2>2, <2>3 DEF Globals
<1>11. \A k \in DOMAIN d.stats :
         \/ k \in M
         \/ k \in P /\ d.stats[k] # 0
         \/ k \in DOMAIN db.stats /\ d.stats[k] = db.stats[k]
  BY <1>2
<1>12. d.stats = [k \in DOMAIN d.stats |-> d.stats[k]]
  BY <1>1
<1> QED BY <1>9, <1>10, <1>11, <1>12 DEF Batched

\* The counters stay exact.
LEMMA CountersStep ==
  ASSUME Exact(db), cache = Globals(db), NEW s \in Ids, NEW p \in Preds, NEW o \in Ids,
         NEW up \in BOOLEAN, up <=> <<s, p, o>> \notin db.spo,
         NEW d, d.stats = NewStats(s, p, o, up),
         d.spo = IF up THEN db.spo \cup {<<s, p, o>>} ELSE db.spo \ {<<s, p, o>>}
  PROVE  IsFinite(d.spo) /\ Counters(d)
<1> DEFINE t == <<s, p, o>>  W == Without(t)  Bm == Bumped(W, t)
<1>0. Batched(s, p, o, up, d)
  BY StatsStep
<1>1. t \in Triples
  BY DEF Triples
<1>2. IsFinite(db.spo) /\ IsFinite(W) /\ t \notin W
  BY FiniteRemove DEF Exact, Without
<1>3. IsFinite(d.spo)
  BY <1>1, <1>2, FiniteAdd DEF Without
<1>4. Bm = Moved(s, p, o, up) \cup Stepped(s, p, o, up)
  BY BatchIsBumped
<1>5. \A k : get_u64(d, k) = IF k \in Bm THEN By(get_u64(db, k), up) ELSE get_u64(db, k)
  BY <1>4, <1>0 DEF Batched
<1>6. Bm \subseteq AllKeys
  BY <1>1, RefsAreKeys DEF Bumped, AllKeys
<1>7. \A k \in AllKeys : get_u64(d, k) = Count(d.spo, k)
  <2> TAKE k \in AllKeys
  <2>1. get_u64(db, k) = Count(db.spo, k)
    BY DEF Exact, Counters
  <2>2. Count(W \cup {t}, k) = IF k \in Bm THEN Count(W, k) + 1 ELSE Count(W, k)
    BY <1>1, <1>2, CountAdd
  <2>3. Count(W, k) \in Nat
    BY <1>2, CountType
  <2>4. CASE up
    <3>1. db.spo = W /\ d.spo = W \cup {t}
      BY <2>4 DEF Without
    <3> HIDE DEF W, t, Bm
    <3> QED BY <1>5, <2>1, <2>2, <2>4, <3>1 DEF By
  <2>5. CASE ~up
    <3>1. db.spo = W \cup {t} /\ d.spo = W
      BY <2>5 DEF Without
    <3>2. get_u64(db, k) = Count(W \cup {t}, k) /\ Count(d.spo, k) = Count(W, k)
      BY <2>1, <3>1
    <3>3. get_u64(d, k) = IF k \in Bm THEN get_u64(db, k) - 1 ELSE get_u64(db, k)
      BY <1>5, <2>5 DEF By
    <3> HIDE DEF W, t, Bm
    <3> QED BY <2>2, <2>3, <3>2, <3>3
  <2> QED BY <2>4, <2>5
<1>8. /\ d.stats = [k \in DOMAIN d.stats |-> d.stats[k]]
      /\ \A k \in DOMAIN d.stats :
              \/ k \in Moved(s, p, o, up)
              \/ k \in Stepped(s, p, o, up) /\ d.stats[k] # 0
              \/ k \in DOMAIN db.stats /\ d.stats[k] = db.stats[k]
  BY <1>0 DEF Batched
<1>9. \A k \in DOMAIN db.stats : k \in AllKeys /\ (k \in RefKeys => db.stats[k] # 0)
  BY DEF Exact, Counters
<1>10. \A k \in Moved(s, p, o, up) : k \notin RefKeys
  BY MovedAreGlobal
<1> HIDE DEF Bm
<1>11. \A k \in DOMAIN d.stats : k \in AllKeys /\ (k \in RefKeys => d.stats[k] # 0)
  BY <1>4, <1>6, <1>8, <1>9, <1>10
<1> QED BY <1>3, <1>7, <1>8, <1>11 DEF Counters

-----------------------------------------------------------------------------
(* The steps.                                                              *)

\* insert_ids keeps the stored state exact.
LEMMA InsertExact ==
  ASSUME Exact(db), cache = Globals(db), NEW s \in Ids, NEW p \in Preds, NEW o \in Ids,
         insert_ids(s, p, o)
  PROVE  Exact(db') /\ cache' = Globals(db') /\ db'.spo = db.spo \cup {<<s, p, o>>}
<1> DEFINE t == <<s, p, o>>
<1>1. CASE t \in db.spo
  <2>1. UNCHANGED <<db, cache>> /\ db.spo = db.spo \cup {t}
    BY <1>1 DEF insert_ids, contains_ids
  <2> QED BY <2>1
<1>2. CASE t \notin db.spo
  <2> PICK d : d = db'
    OBVIOUS
  <2> PICK c : c = TRUE
    OBVIOUS
  <2>1. /\ d = [spo |-> db.spo \cup {t}, pos |-> db.pos \cup {<<p, o, s>>},
                osp |-> db.osp \cup {<<o, s, p>>}, stats |-> NewStats(s, p, o, TRUE)]
        /\ cache' = NewCache(s, p, o, TRUE)
    BY <1>2 DEF insert_ids, contains_ids, PutBatch
  <2>2. /\ d = [spo |-> d.spo, pos |-> d.pos, osp |-> d.osp, stats |-> d.stats]
        /\ d.spo = db.spo \cup {t} /\ d.pos = db.pos \cup {<<p, o, s>>}
        /\ d.osp = db.osp \cup {<<o, s, p>>} /\ d.stats = NewStats(s, p, o, TRUE)
    BY <2>1
  <2>3. d.pos = {<<u[2], u[3], u[1]>> : u \in d.spo} /\ d.osp = {<<u[3], u[1], u[2]>> : u \in d.spo}
    <3>1. db.pos = {<<u[2], u[3], u[1]>> : u \in db.spo} /\ db.osp = {<<u[3], u[1], u[2]>> : u \in db.spo}
      BY DEF Exact, Mirrors, Turned
    <3>2. t[1] = s /\ t[2] = p /\ t[3] = o
      OBVIOUS
    <3> HIDE DEF t
    <3>3. d.pos = {<<u[2], u[3], u[1]>> : u \in d.spo}
      BY <2>2, <3>1, <3>2
    <3>4. d.osp = {<<u[3], u[1], u[2]>> : u \in d.spo}
      BY <2>2, <3>1, <3>2
    <3> QED BY <3>3, <3>4
  <2>4. IsFinite(d.spo) /\ Counters(d)
    <3>1. d.stats = NewStats(s, p, o, c)
      BY <2>2
    <3>2. c \in BOOLEAN /\ (c <=> t \notin db.spo) /\ d.spo = IF c THEN db.spo \cup {t} ELSE db.spo \ {t}
      BY <1>2, <2>2
    <3> QED BY <3>1, <3>2, CountersStep
  <2>5. cache' = Globals(d)
    <3>1. Batched(s, p, o, TRUE, d)
      BY <2>2, StatsStep
    <3> QED BY <2>1, <3>1 DEF Batched
  <2> QED BY <2>2, <2>3, <2>4, <2>5 DEF Exact, Mirrors, Turned
<1> QED BY <1>1, <1>2

\* remove_ids keeps the stored state exact.
LEMMA RemoveExact ==
  ASSUME Exact(db), cache = Globals(db), NEW s \in Ids, NEW p \in Preds, NEW o \in Ids,
         remove_ids(s, p, o)
  PROVE  Exact(db') /\ cache' = Globals(db') /\ db'.spo = db.spo \ {<<s, p, o>>}
<1> DEFINE t == <<s, p, o>>
<1>1. CASE t \notin db.spo
  <2>1. UNCHANGED <<db, cache>> /\ db.spo = db.spo \ {t}
    BY <1>1 DEF remove_ids, contains_ids
  <2> QED BY <2>1
<1>2. CASE t \in db.spo
  <2> PICK d : d = db'
    OBVIOUS
  <2> PICK c : c = FALSE
    OBVIOUS
  <2>1. /\ d = [spo |-> db.spo \ {t}, pos |-> db.pos \ {<<p, o, s>>},
                osp |-> db.osp \ {<<o, s, p>>}, stats |-> NewStats(s, p, o, FALSE)]
        /\ cache' = NewCache(s, p, o, FALSE)
    BY <1>2 DEF remove_ids, contains_ids
  <2>2. /\ d = [spo |-> d.spo, pos |-> d.pos, osp |-> d.osp, stats |-> d.stats]
        /\ d.spo = db.spo \ {t} /\ d.pos = db.pos \ {<<p, o, s>>}
        /\ d.osp = db.osp \ {<<o, s, p>>} /\ d.stats = NewStats(s, p, o, FALSE)
    BY <2>1
  <2>3. d.pos = {<<u[2], u[3], u[1]>> : u \in d.spo} /\ d.osp = {<<u[3], u[1], u[2]>> : u \in d.spo}
    <3>1. db.spo \subseteq Ids \X Preds \X Ids
      BY DEF Exact, IsFinite, Triples
    <3>2. \A u \in db.spo : <<u[2], u[3], u[1]>> = <<p, o, s>> \/ <<u[3], u[1], u[2]>> = <<o, s, p>> => u = t
      BY <3>1
    <3>3. d.pos = {<<u[2], u[3], u[1]>> : u \in d.spo}
      BY <2>2, <3>2 DEF Exact, Mirrors, Turned
    <3>4. d.osp = {<<u[3], u[1], u[2]>> : u \in d.spo}
      BY <2>2, <3>2 DEF Exact, Mirrors, Turned
    <3> QED BY <3>3, <3>4
  <2>4. IsFinite(d.spo) /\ Counters(d)
    <3>1. d.stats = NewStats(s, p, o, c)
      BY <2>2
    <3>2. c \in BOOLEAN /\ (c <=> t \notin db.spo) /\ d.spo = IF c THEN db.spo \cup {t} ELSE db.spo \ {t}
      BY <1>2, <2>2
    <3> QED BY <3>1, <3>2, CountersStep
  <2>5. cache' = Globals(d)
    <3>1. Batched(s, p, o, FALSE, d)
      BY <2>2, StatsStep
    <3> QED BY <2>1, <3>1 DEF Batched
  <2> QED BY <2>2, <2>3, <2>4, <2>5 DEF Exact, Mirrors, Turned
<1> QED BY <1>1, <1>2

\* The empty store.
LEMMA InitExact == Init => Inv
<1> SUFFICES ASSUME Init PROVE Inv
  OBVIOUS
<1>1. \A k : Occ({}, k) = {}
  BY DEF Occ
<1>2. Live({}) = {}
  BY <1>1 DEF Live
<1>3. IsFinite({})
  BY <1>2, FS_EmptySet DEF IsFinite
<1>4. \A k : Count({}, k) = 0
  <2> TAKE k
  <2>1. Live({}) \cap Group(k) = {}
    BY <1>2
  <2> QED BY <1>1, <2>1, FS_EmptySet DEF Count
<1>5. /\ Empty.spo = {} /\ Empty.pos = {} /\ Empty.osp = {} /\ DOMAIN Empty.stats = {}
      /\ Empty.stats = [k \in DOMAIN Empty.stats |-> Empty.stats[k]]
      /\ Empty = [spo |-> Empty.spo, pos |-> Empty.pos, osp |-> Empty.osp, stats |-> Empty.stats]
  BY DEF Empty
<1>6. \A k : get_u64(Empty, k) = 0
  BY <1>5 DEF get_u64
<1>7. Exact(Empty)
  <2>1. Counters(Empty)
    BY <1>4, <1>5, <1>6 DEF Counters
  <2>2. Mirrors(Empty)
    BY <1>5 DEF Mirrors, Turned
  <2> QED BY <1>3, <1>5, <2>1, <2>2 DEF Exact
<1> QED BY <1>7 DEF Init, Inv

\* Every step keeps the invariant and is a step of the contract, or goes back
\* to what was synchronised.
LEMMA NextExact ==
  ASSUME BatchesAssumption, Inv, [Next]_vars
  PROVE  Inv' /\ [Contract!Next \/ db' = disk]_(Contract!vars)
<1>1. Exact(db) /\ Exact(disk) /\ cache = Globals(db)
  BY DEF Inv
<1>2. ASSUME NEW s \in Ids, NEW o \in Ids, NEW p \in Preds, insert(s, p, o)
      PROVE  Inv' /\ Contract!Next
  <2>1. insert_ids(s, p, o) /\ UNCHANGED <<disk, loading>> /\ reply' = (<<s, p, o>> \notin db.spo)
    BY <1>2 DEF insert, contains_ids
  <2>2. Exact(db') /\ cache' = Globals(db') /\ db'.spo = db.spo \cup {<<s, p, o>>}
    BY <1>1, <2>1, InsertExact
  <2>3. <<s, p, o>> \in Contract!Triples
    BY DEF Contract!Triples
  <2>4. Contract!Insert(<<s, p, o>>)
    BY <2>1, <2>2 DEF Contract!Insert
  <2> QED BY <2>1, <2>2, <2>3, <2>4 DEF Inv, Contract!Next
<1>3. ASSUME NEW s \in Ids, NEW o \in Ids, NEW p \in Preds, remove(s, p, o)
      PROVE  Inv' /\ Contract!Next
  <2>1. remove_ids(s, p, o) /\ UNCHANGED <<disk, loading>> /\ reply' = (<<s, p, o>> \in db.spo)
    BY <1>3 DEF remove, contains_ids
  <2>2. Exact(db') /\ cache' = Globals(db') /\ db'.spo = db.spo \ {<<s, p, o>>}
    BY <1>1, <2>1, RemoveExact
  <2>3. <<s, p, o>> \in Contract!Triples
    BY DEF Contract!Triples
  <2>4. Contract!Remove(<<s, p, o>>)
    BY <2>1, <2>2 DEF Contract!Remove
  <2> QED BY <2>1, <2>2, <2>3, <2>4 DEF Inv, Contract!Next
<1>4. ASSUME NEW s \in Ids, NEW o \in Ids, NEW p \in Preds, bulk_load_next(s, p, o)
      PROVE  Inv' /\ Contract!Next
  <2>1. insert_ids(s, p, o) /\ UNCHANGED <<disk, reply>> /\ loading' \subseteq loading
    BY <1>4 DEF bulk_load_next
  <2>2. Exact(db') /\ cache' = Globals(db') /\ db'.spo = db.spo \cup {<<s, p, o>>}
    BY <1>1, <2>1, InsertExact
  <2>3. {<<s, p, o>>} \in SUBSET Contract!Triples
    BY DEF Contract!Triples
  <2>4. Contract!BulkLoad({<<s, p, o>>})
    BY <2>1, <2>2 DEF Contract!BulkLoad
  <2> QED BY <2>1, <2>2, <2>3, <2>4 DEF Inv, Contract!Next
<1>5. ASSUME NEW T \in Batches, bulk_load(T)
      PROVE  Inv' /\ UNCHANGED Contract!vars
  BY <1>5 DEF bulk_load, Inv, BatchesAssumption, Triples, Contract!vars
<1>6. CASE flush
  BY <1>6 DEF flush, Inv, Contract!vars
<1>7. CASE open
  BY <1>7 DEF open, Inv
<1>8. CASE UNCHANGED vars
  BY <1>8 DEF vars, Inv, Contract!vars
<1> QED BY <1>2, <1>3, <1>4, <1>5, <1>6, <1>7, <1>8 DEF Next

-----------------------------------------------------------------------------
(* The reads.                                                              *)

\* A prefix scan that finds the keys of the values V finds V.
LEMMA PrefixScan ==
  ASSUME NEW tag, NEW V, \A k : k \in DOMAIN db.stats /\ k[1] = tag <=> \E v \in V : k = <<tag, v>>
  PROVE  ids_under(tag) = V
<1>1. ASSUME NEW v \in V PROVE v \in ids_under(tag)
  <2>1. PICK k : k = <<tag, v>>
    OBVIOUS
  <2>2. k \in DOMAIN db.stats /\ k[1] = tag /\ k[2] = v
    BY <2>1
  <2> QED BY <2>2 DEF ids_under
<1>2. ASSUME NEW x \in ids_under(tag) PROVE x \in V
  <2>1. PICK k \in DOMAIN db.stats : k[1] = tag /\ k[2] = x
    BY DEF ids_under
  <2> QED BY <2>1
<1> QED BY <1>1, <1>2

\* A key order is a mirror of another.
LEMMA MirrorOf ==
  ASSUME NEW S, NEW a, NEW b, NEW c, NEW M, M = Turned(S, a, b, c)
  PROVE  /\ \A t \in S : \E k \in M : k[1] = t[a] /\ k[2] = t[b] /\ k[3] = t[c]
         /\ \A k \in M : \E t \in S : k[1] = t[a] /\ k[2] = t[b] /\ k[3] = t[c]
<1>1. ASSUME NEW t \in S PROVE \E k \in M : k[1] = t[a] /\ k[2] = t[b] /\ k[3] = t[c]
  <2>1. PICK k : k = <<t[a], t[b], t[c]>>
    OBVIOUS
  <2>2. k \in M /\ k[1] = t[a] /\ k[2] = t[b] /\ k[3] = t[c]
    BY <2>1 DEF Turned
  <2> QED BY <2>2
<1>2. ASSUME NEW k \in M PROVE \E t \in S : k[1] = t[a] /\ k[2] = t[b] /\ k[3] = t[c]
  <2>1. PICK t \in S : k = <<t[a], t[b], t[c]>>
    BY DEF Turned
  <2> QED BY <2>1
<1> QED BY <1>1, <1>2

\* The ids under a prefix are those of the triples.
LEMMA Prefixes ==
  ASSUME Exact(db)
  PROVE  /\ ids_under("c") = {t[2] : t \in db.spo}
         /\ ids_under("s") = {t[1] : t \in db.spo}
         /\ ids_under("o") = {t[3] : t \in db.spo}
<1>1. \A k \in RefKeys : k \in DOMAIN db.stats <=> k \in Live(db.spo)
  <2> TAKE k \in RefKeys
  <2>1. get_u64(db, k) = Count(db.spo, k) /\ (k \in DOMAIN db.stats => db.stats[k] # 0)
    BY DEF Exact, Counters, AllKeys
  <2>2. Count(db.spo, k) = 0 <=> k \notin Live(db.spo)
    BY OccZero DEF Exact
  <2> QED BY <2>1, <2>2 DEF get_u64
<1>2. \A k \in DOMAIN db.stats : k[1] \in {"c", "s", "o"} => k \in RefKeys
  <2>1. <<"T">>[1] = "T"
    OBVIOUS
  <2> QED BY <2>1, Tags DEF Exact, Counters, AllKeys
<1>3. \A k : k[1] \in {"c", "s", "o"} => (k \in DOMAIN db.stats <=> k \in Live(db.spo))
  BY <1>1, <1>2 DEF Live
<1>4. db.spo \subseteq Ids \X Preds \X Ids
  BY DEF Exact, IsFinite, Triples
<1>5. \A k : k \in Live(db.spo) <=> \E t \in db.spo : k \in Refs(t)
  <2> TAKE k
  <2>1. \A t \in db.spo : k \in Refs(t) => k \in RefKeys
    BY <1>4, RefsAreKeys DEF Triples
  <2> QED BY <2>1 DEF Live, Occ
<1>6. \A k : k \in Live(db.spo) /\ k[1] = "c" <=> \E t \in db.spo : k = <<"c", t[2]>>
  BY <1>5 DEF Refs, Counted
<1>7. \A k : k \in Live(db.spo) /\ k[1] = "s" <=> \E t \in db.spo : k = <<"s", t[1]>>
  BY <1>5 DEF Refs, Counted
<1>8. \A k : k \in Live(db.spo) /\ k[1] = "o" <=> \E t \in db.spo : k = <<"o", t[3]>>
  BY <1>5 DEF Refs, Counted
<1>9. \A k : k \in DOMAIN db.stats /\ k[1] = "c" <=> \E t \in db.spo : k = <<"c", t[2]>>
  BY <1>3, <1>6
<1>10. \A k : k \in DOMAIN db.stats /\ k[1] = "s" <=> \E t \in db.spo : k = <<"s", t[1]>>
  BY <1>3, <1>7
<1>11. \A k : k \in DOMAIN db.stats /\ k[1] = "o" <=> \E t \in db.spo : k = <<"o", t[3]>>
  BY <1>3, <1>8
<1>12. ids_under("c") = {t[2] : t \in db.spo}
  <2> DEFINE V == {t[2] : t \in db.spo}
  <2>1. \A k : k \in DOMAIN db.stats /\ k[1] = "c" <=> \E v \in V : k = <<"c", v>>
    BY <1>9
  <2> HIDE DEF V
  <2>2. ids_under("c") = V
    BY <2>1, PrefixScan
  <2> QED BY <2>2 DEF V
<1>13. ids_under("s") = {t[1] : t \in db.spo}
  <2> DEFINE V == {t[1] : t \in db.spo}
  <2>1. \A k : k \in DOMAIN db.stats /\ k[1] = "s" <=> \E v \in V : k = <<"s", v>>
    BY <1>10
  <2> HIDE DEF V
  <2>2. ids_under("s") = V
    BY <2>1, PrefixScan
  <2> QED BY <2>2 DEF V
<1>14. ids_under("o") = {t[3] : t \in db.spo}
  <2> DEFINE V == {t[3] : t \in db.spo}
  <2>1. \A k : k \in DOMAIN db.stats /\ k[1] = "o" <=> \E v \in V : k = <<"o", v>>
    BY <1>11
  <2> HIDE DEF V
  <2>2. ids_under("o") = V
    BY <2>1, PrefixScan
  <2> QED BY <2>2 DEF V
<1> QED BY <1>12, <1>13, <1>14

\* Every access pattern, from whichever key order, is that of the set.
LEMMA PatternsAgree ==
  ASSUME Exact(db)
  PROVE  Patterns = Contract!Patterns /\ predicates = Contract!predicates
<1>1. db.pos = Turned(db.spo, 2, 3, 1) /\ db.osp = Turned(db.spo, 3, 1, 2)
  BY DEF Exact, Mirrors
<1>a. /\ \A t \in db.spo : \E k \in db.pos : k[1] = t[2] /\ k[2] = t[3] /\ k[3] = t[1]
      /\ \A k \in db.pos : \E t \in db.spo : k[1] = t[2] /\ k[2] = t[3] /\ k[3] = t[1]
  BY <1>1, MirrorOf
<1>b. /\ \A t \in db.spo : \E k \in db.osp : k[1] = t[3] /\ k[2] = t[1] /\ k[3] = t[2]
      /\ \A k \in db.osp : \E t \in db.spo : k[1] = t[3] /\ k[2] = t[1] /\ k[3] = t[2]
  BY <1>1, MirrorOf
<1>2. \A s, o : {k[3] : k \in {j \in db.osp : j[1] = o /\ j[2] = s}} = Contract!p_by_so(s, o)
  BY <1>b DEF Contract!p_by_so
<1>3. \A o : {<<k[3], k[2]>> : k \in {j \in db.osp : j[1] = o}} = Contract!ps_by_o(o)
  BY <1>b DEF Contract!ps_by_o
<1>4. \A p, o : {k[3] : k \in {j \in db.pos : j[1] = p /\ j[2] = o}} = Contract!s_by_po(p, o)
  BY <1>a DEF Contract!s_by_po
<1>5. \A p : {<<k[3], k[2]>> : k \in {j \in db.pos : j[1] = p}} = Contract!so_by_p(p)
  BY <1>a DEF Contract!so_by_p
<1>6. \A p : {k[3] : k \in {j \in db.pos : j[1] = p}} = Contract!subs_by_p(p)
  BY <1>a DEF Contract!subs_by_p
<1>7. \A p : {k[2] : k \in {j \in db.pos : j[1] = p}} = Contract!objs_by_p(p)
  BY <1>a DEF Contract!objs_by_p
<1>8. \A s : {<<k[2], k[3]>> : k \in {j \in db.spo : j[1] = s}} = Contract!po_by_s(s)
  BY DEF Contract!po_by_s
<1>9. \A s, p : {k[3] : k \in {j \in db.spo : j[1] = s /\ j[2] = p}} = Contract!o_by_sp(s, p)
  BY DEF Contract!o_by_sp
<1>10. Contract!Triples = Triples /\ \A t : contains_ids(t) = (t \in db.spo)
  BY DEF Contract!Triples, Triples, contains_ids
<1>11. /\ ids_under("s") = Contract!subject_keys /\ ids_under("o") = Contract!object_keys
       /\ predicates = Contract!predicates
  BY Prefixes DEF Contract!subject_keys, Contract!object_keys, Contract!predicates, predicates
<1>12. Patterns = Contract!Patterns
  BY <1>2, <1>3, <1>4, <1>5, <1>6, <1>7, <1>8, <1>9, <1>10, <1>11 DEF Patterns, Contract!Patterns
<1> QED BY <1>11, <1>12

\* A function that is one-to-one and onto, between finite sets.
LEMMA SameSize ==
  ASSUME NEW A, NEW V, NEW f, IsFiniteSet(A), f = [a \in A |-> f[a]],
         \A a \in A : f[a] \in V, \A v \in V : \E a \in A : f[a] = v,
         \A a, b \in A : f[a] = f[b] => a = b
  PROVE  Cardinality(A) = Cardinality(V)
<1>1. f \in Bijection(A, V)
  BY DEF Bijection, Injection, Surjection, IsInjective
<1>2. ExistsBijection(A, V)
  BY <1>1 DEF ExistsBijection
<1> QED BY <1>2, FS_Bijection

\* The live keys of a group, by the part in which they differ.
LEMMA GroupSize ==
  ASSUME Exact(db), NEW g \in GroupKeys, NEW i, NEW V,
         \A k \in Live(db.spo) \cap Group(g) : k[i] \in V,
         \A v \in V : \E k \in Live(db.spo) \cap Group(g) : k[i] = v,
         \A j, k \in Live(db.spo) \cap Group(g) : j[i] = k[i] => j = k
  PROVE  get_u64(db, g) = Cardinality(V)
<1> DEFINE A == Live(db.spo) \cap Group(g)  f == [a \in A |-> a[i]]
<1>1. get_u64(db, g) = Cardinality(A)
  BY Tags DEF Exact, Counters, AllKeys, Count
<1>2. A \in SUBSET Live(db.spo)
  OBVIOUS
<1>3. IsFiniteSet(A)
  BY <1>2, FS_Subset DEF Exact, IsFinite
<1>4. f = [a \in A |-> f[a]] /\ \A a \in A : f[a] = a[i]
  OBVIOUS
<1>5. /\ \A a \in A : f[a] \in V
      /\ \A v \in V : \E k \in A : f[k] = v
      /\ \A a, b \in A : f[a] = f[b] => a = b
  BY <1>4
<1> HIDE DEF A, f
<1>6. Cardinality(A) = Cardinality(V)
  BY <1>3, <1>4, <1>5, SameSize
<1> QED BY <1>1, <1>6

\* A key is live when some stored triple holds it up.
LEMMA LiveKeys ==
  ASSUME Exact(db), NEW k
  PROVE  k \in Live(db.spo) <=> \E t \in db.spo : k \in Refs(t)
<1>1. \A t \in db.spo : k \in Refs(t) => k \in RefKeys
  BY RefsAreKeys DEF Exact, IsFinite
<1> QED BY <1>1 DEF Live, Occ

\* The size of a group whose live keys are those of V.
LEMMA PairGroupSize ==
  ASSUME Exact(db), NEW g \in GroupKeys, NEW tag, NEW V,
         \A k : k \in Live(db.spo) \cap Group(g) <=> \E v \in V : k = <<tag, v>>
  PROVE  get_u64(db, g) = Cardinality(V)
<1>1. \A k \in Live(db.spo) \cap Group(g) : k = <<tag, k[2]>> /\ k[2] \in V
  OBVIOUS
<1>2. \A v \in V : \E k \in Live(db.spo) \cap Group(g) : k[2] = v
  <2> TAKE v \in V
  <2> PICK k : k = <<tag, v>>
    OBVIOUS
  <2>1. k \in Live(db.spo) \cap Group(g) /\ k[2] = v
    OBVIOUS
  <2> QED BY <2>1
<1> QED BY <1>1, <1>2, GroupSize

\* The same for keys of three parts.
LEMMA TripleGroupSize ==
  ASSUME Exact(db), NEW g \in GroupKeys, NEW tag, NEW p, NEW V,
         \A k : k \in Live(db.spo) \cap Group(g) <=> \E v \in V : k = <<tag, p, v>>
  PROVE  get_u64(db, g) = Cardinality(V)
<1>1. \A k \in Live(db.spo) \cap Group(g) : k = <<tag, p, k[3]>> /\ k[3] \in V
  OBVIOUS
<1>2. \A v \in V : \E k \in Live(db.spo) \cap Group(g) : k[3] = v
  <2> TAKE v \in V
  <2> PICK k : k = <<tag, p, v>>
    OBVIOUS
  <2>1. k \in Live(db.spo) \cap Group(g) /\ k[3] = v
    OBVIOUS
  <2> QED BY <2>1
<1> QED BY <1>1, <1>2, GroupSize

\* Every statistic is that of the set.
LEMMA StatisticsAgree ==
  ASSUME Exact(db), cache = Globals(db)
  PROVE  Statistics = Contract!Statistics
<1>1. cache["T"] = Cardinality(db.spo)
  <2>1. cache["T"] = get_u64(db, <<"T">>) /\ <<"T">> \in AllKeys
    BY DEF Globals, GlobalKeys, AllKeys
  <2> QED BY <2>1 DEF Exact, Counters, Count
<1>2. \A g \in {"P", "S", "O"} : cache[g] = get_u64(db, <<g>>) /\ <<g>> \in GroupKeys /\ <<g>>[1] = g
  BY DEF Globals, GlobalKeys, GroupKeys
<1>3. cache["P"] = Cardinality(Contract!predicates)
  <2> PICK g : g = <<"P">>
    OBVIOUS
  <2>1. g \in GroupKeys /\ g[1] = "P" /\ cache["P"] = get_u64(db, g)
    BY <1>2
  <2>2. \A k : k \in Live(db.spo) \cap Group(g) <=> k \in Live(db.spo) /\ k[1] = "c"
    BY <2>1 DEF Group, Live
  <2>3. \A k : k \in Live(db.spo) \cap Group(g) <=> \E t \in db.spo : k = <<"c", t[2]>>
    BY <2>2, LiveKeys DEF Refs, Counted
  <2>4. \A k : k \in Live(db.spo) \cap Group(g) <=> \E v \in Contract!predicates : k = <<"c", v>>
    BY <2>3 DEF Contract!predicates
  <2> QED BY <2>1, <2>4, PairGroupSize
<1>4. cache["S"] = Cardinality(Contract!subject_keys)
  <2> PICK g : g = <<"S">>
    OBVIOUS
  <2>1. g \in GroupKeys /\ g[1] = "S" /\ cache["S"] = get_u64(db, g)
    BY <1>2
  <2>2. \A k : k \in Live(db.spo) \cap Group(g) <=> k \in Live(db.spo) /\ k[1] = "s"
    BY <2>1 DEF Group, Live
  <2>3. \A k : k \in Live(db.spo) \cap Group(g) <=> \E t \in db.spo : k = <<"s", t[1]>>
    BY <2>2, LiveKeys DEF Refs, Counted
  <2>4. \A k : k \in Live(db.spo) \cap Group(g) <=> \E v \in Contract!subject_keys : k = <<"s", v>>
    BY <2>3 DEF Contract!subject_keys
  <2> QED BY <2>1, <2>4, PairGroupSize
<1>5. cache["O"] = Cardinality(Contract!object_keys)
  <2> PICK g : g = <<"O">>
    OBVIOUS
  <2>1. g \in GroupKeys /\ g[1] = "O" /\ cache["O"] = get_u64(db, g)
    BY <1>2
  <2>2. \A k : k \in Live(db.spo) \cap Group(g) <=> k \in Live(db.spo) /\ k[1] = "o"
    BY <2>1 DEF Group, Live
  <2>3. \A k : k \in Live(db.spo) \cap Group(g) <=> \E t \in db.spo : k = <<"o", t[3]>>
    BY <2>2, LiveKeys DEF Refs, Counted
  <2>4. \A k : k \in Live(db.spo) \cap Group(g) <=> \E v \in Contract!object_keys : k = <<"o", v>>
    BY <2>3 DEF Contract!object_keys
  <2> QED BY <2>1, <2>4, PairGroupSize
<1>6. \A p \in Preds : get_u64(db, <<"c", p>>) = Cardinality(Contract!so_by_p(p))
  <2> TAKE p \in Preds
  <2> PICK k : k = <<"c", p>>
    OBVIOUS
  <2>1. k \in RefKeys
    BY DEF RefKeys
  <2> DEFINE A == Occ(db.spo, k)  f == [t \in A |-> <<t[1], t[3]>>]  V == Contract!so_by_p(p)
  <2>2. get_u64(db, k) = Cardinality(A)
    BY <2>1, Tags DEF Exact, Counters, AllKeys, Count
  <2>3. IsFiniteSet(A)
    BY <2>1, OccZero DEF Exact
  <2>4. \A t : t \in A <=> t \in db.spo /\ t[2] = p
    BY DEF Occ, Refs, Counted
  <2>5. \A t \in A : t = <<t[1], t[2], t[3]>>
    BY <2>4 DEF Exact, IsFinite, Triples
  <2>6. f = [t \in A |-> f[t]] /\ \A t \in A : f[t] = <<t[1], t[3]>>
    OBVIOUS
  <2>7. \A v : v \in V <=> \E t \in A : v = <<t[1], t[3]>>
    BY <2>4 DEF Contract!so_by_p
  <2> HIDE DEF A, f, V
  <2>8. \A a, b \in A : f[a] = f[b] => a = b
    <3> SUFFICES ASSUME NEW a \in A, NEW b \in A, f[a] = f[b] PROVE a = b
      OBVIOUS
    <3>1. a[1] = b[1] /\ a[3] = b[3] /\ a[2] = b[2]
      BY <2>4, <2>6
    <3> QED BY <3>1, <2>5
  <2>9. \A a \in A : f[a] \in V
    BY <2>6, <2>7
  <2>10. \A v \in V : \E a \in A : f[a] = v
    BY <2>6, <2>7
  <2>11. Cardinality(A) = Cardinality(V)
    BY <2>3, <2>6, <2>8, <2>9, <2>10, SameSize
  <2> QED BY <2>2, <2>11 DEF V
<1>7. \A p \in Preds : get_u64(db, <<"u", p>>) = Cardinality(Contract!subs_by_p(p))
  <2> TAKE p \in Preds
  <2> PICK g : g = <<"u", p>>
    OBVIOUS
  <2>1. g \in GroupKeys /\ g[1] = "u" /\ g[2] = p
    BY DEF GroupKeys
  <2>2. \A k : k \in Live(db.spo) \cap Group(g) <=> k \in Live(db.spo) /\ k[1] = "x" /\ k[2] = p
    BY <2>1 DEF Group, Live
  <2>3. \A k : k \in Live(db.spo) \cap Group(g) <=> \E t \in db.spo : t[2] = p /\ k = <<"x", p, t[1]>>
    BY <2>2, LiveKeys DEF Refs, Counted
  <2> PICK V : V = Contract!subs_by_p(p)
    OBVIOUS
  <2>4. \A k : k \in Live(db.spo) \cap Group(g) <=> \E v \in V : k = <<"x", p, v>>
    BY <2>3 DEF Contract!subs_by_p
  <2>5. get_u64(db, g) = Cardinality(V)
    BY <2>1, <2>4, TripleGroupSize
  <2> QED BY <2>5
<1>8. \A p \in Preds : get_u64(db, <<"v", p>>) = Cardinality(Contract!objs_by_p(p))
  <2> TAKE p \in Preds
  <2> PICK g : g = <<"v", p>>
    OBVIOUS
  <2>1. g \in GroupKeys /\ g[1] = "v" /\ g[2] = p
    BY DEF GroupKeys
  <2>2. \A k : k \in Live(db.spo) \cap Group(g) <=> k \in Live(db.spo) /\ k[1] = "y" /\ k[2] = p
    BY <2>1 DEF Group, Live
  <2>3. \A k : k \in Live(db.spo) \cap Group(g) <=> \E t \in db.spo : t[2] = p /\ k = <<"y", p, t[3]>>
    BY <2>2, LiveKeys DEF Refs, Counted
  <2> PICK V : V = Contract!objs_by_p(p)
    OBVIOUS
  <2>4. \A k : k \in Live(db.spo) \cap Group(g) <=> \E v \in V : k = <<"y", p, v>>
    BY <2>3 DEF Contract!objs_by_p
  <2>5. get_u64(db, g) = Cardinality(V)
    BY <2>1, <2>4, TripleGroupSize
  <2> QED BY <2>5
<1>9. \A S : Contract!Cardinality(S) = Cardinality(S)
  BY DEF Contract!Cardinality, Cardinality
<1> QED BY <1>1, <1>3, <1>4, <1>5, <1>6, <1>7, <1>8, <1>9 DEF Statistics, Contract!Statistics

\* No counter is below zero.
LEMMA TypesHold ==
  ASSUME Inv
  PROVE  TypeOK
<1>1. \A k \in AllKeys : get_u64(db, k) \in Nat
  BY CountType DEF Inv, Exact, Counters
<1>2. \A k \in DOMAIN db.stats : db.stats[k] \in Nat
  BY <1>1 DEF Inv, Exact, Counters, get_u64
<1>3. db.stats \in [DOMAIN db.stats -> Nat]
  BY <1>2 DEF Inv, Exact, Counters
<1>4. \A g \in GlobalKeys : <<g>> \in AllKeys
  BY DEF GlobalKeys, AllKeys, GroupKeys
<1>5. cache \in [GlobalKeys -> Nat]
  BY <1>1, <1>4 DEF Inv, Globals
<1> QED BY <1>3, <1>5 DEF Inv, Exact, IsFinite, TypeOK

\* What readers see follows from the invariant.
LEMMA ReadsFollow == Inv => ReadsAgree
BY TypesHold, PatternsAgree, StatisticsAgree DEF Inv, ReadsAgree

-----------------------------------------------------------------------------
(* The theorems.                                                           *)

\* backend/rocks.rs: the three key orders mirror each other and every counter,
\* in the stats column family and in the cache, is what the stored triples
\* determine, on disk too.
THEOREM CounterInvariant ==
  ASSUME BatchesAssumption
  PROVE  Spec => []Inv
<1>1. Inv /\ [Next]_vars => Inv'
  BY NextExact
<1> QED BY <1>1, InitExact, PTL DEF Spec

\* backend/rocks.rs: reference counts never go below zero, every read and
\* every statistic is that of the set of triples, and insert, remove and
\* bulk_load change that set as the traits say; only a power loss goes back,
\* to a synchronised state.
THEOREM RocksCorrect ==
  ASSUME BatchesAssumption
  PROVE  Spec => RocksImplements
<1>1. Inv /\ [Next]_vars => [Contract!Next \/ db' = disk]_(Contract!vars)
  BY NextExact
<1>2. Spec => []Inv
  BY CounterInvariant
<1> QED BY <1>1, <1>2, ReadsFollow, PTL DEF Spec, RocksImplements, ImplementsContract

=============================================================================
