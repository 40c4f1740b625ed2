------------------------------ MODULE RaftLogs ------------------------------
(***************************************************************************)
(* Why Raft is safe, for the RaftState of src/cluster.rs: logs, votes and  *)
(* acknowledgements, the invariant Core that relates them to the states of *)
(* the nodes, the four kinds of step that keep it, and what each input of  *)
(* a node does.                                                            *)
(*                                                                         *)
(* The invariant speaks of three ghosts, which no variable of the          *)
(* specification holds: what each node voted in each term, the log that    *)
(* each term's leader had last, and how much of it each node has           *)
(* acknowledged. They are bound by quantifiers, and every lemma says which *)
(* ghosts a step leads to. An entry of a leader's own term that a majority *)
(* acknowledged is chosen; Core says that whoever wins a later term holds  *)
(* it (Complete), that those who acknowledged it keep it while it may be   *)
(* chosen (Holding), and that nodes commit only what is chosen             *)
(* (CommitsSafe).                                                          *)
(***************************************************************************)
EXTENDS Integers, ClusterNode, FiniteSetTheorems, SequenceTheorems, WellFoundedInduction, TLAPS

-----------------------------------------------------------------------------
(* Least and greatest numbers: what the proofs use in the place of         *)
(* induction.                                                              *)

\* A nonempty set of naturals has a least element.
LEMMA LeastElement ==
  ASSUME NEW T, T \subseteq Nat, T # {}
  PROVE  \E x \in T : \A y \in T : x <= y
<1> DEFINE R == {ss \in Nat \X Nat : ss[1] < ss[2]}
<1>1. IsWellFoundedOn(R, Nat)
  BY NatLessThanWellFounded, Zenon DEF OpToRel
<1> HIDE DEF R
<1>2. PICK x \in T : \A y \in T : ~ (<<y, x>> \in R)
  BY <1>1, WFMin, Zenon
<1>3. ASSUME NEW y \in T, y < x PROVE FALSE
  <2>1. <<y, x>> \in R
    BY <1>3 DEF R
  <2> QED BY <1>2, <2>1
<1> QED BY <1>3

\* A nonempty bounded set of naturals has a greatest element.
LEMMA GreatestElement ==
  ASSUME NEW n \in Nat, NEW T, T \subseteq 0 .. n, T # {}
  PROVE  \E x \in T : \A y \in T : y <= x
<1> DEFINE B == {m \in Nat : \A y \in T : y <= m}
<1>1. n \in B
  OBVIOUS
<1>2. PICK m \in B : \A b \in B : m <= b
  <2>1. B \subseteq Nat /\ B # {}
    BY <1>1
  <2> HIDE DEF B
  <2> QED BY <2>1, LeastElement
<1>3. m \in T
  <2> SUFFICES ASSUME m \notin T PROVE FALSE
    OBVIOUS
  <2>1. \A y \in T : y \in Nat /\ y < m
    BY <1>2
  <2>2. m \in Nat /\ m > 0
    <3>1. PICK y \in T : y \in Nat /\ y < m
      BY <2>1
    <3> QED BY <3>1
  <2>3. m - 1 \in Nat /\ \A y \in T : y <= m - 1
    <3> HIDE DEF B
    <3> QED BY <2>1, <2>2
  <2>4. m - 1 \in B
    BY <2>3
  <2> QED BY <1>2, <2>2, <2>4
<1> QED BY <1>2, <1>3

-----------------------------------------------------------------------------
(* Quorums and logs.                                                       *)

Quorums == {Q \in SUBSET Nodes : Cardinality(Q) >= majority}

\* Two majorities share a node.
LEMMA QuorumsMeet == ASSUME NEW P \in Quorums, NEW Q \in Quorums PROVE \E q \in Nodes : q \in P /\ q \in Q
<1>1. IsFiniteSet(Nodes) /\ Cardinality(Nodes) \in Nat
  BY NodesAssumption, FS_CardinalityType
<1>2. /\ P \subseteq Nodes /\ Q \subseteq Nodes
      /\ Cardinality(P) >= majority /\ Cardinality(Q) >= majority
  BY DEF Quorums
<1>3. Cardinality(P) \in Nat /\ Cardinality(Q) \in Nat
  BY <1>1, <1>2, FS_Subset, FS_CardinalityType
<1>4. Cardinality(P) + Cardinality(Q) > Cardinality(Nodes)
  BY <1>1, <1>2, <1>3 DEF majority
<1>5. P \cap Q # {}
  BY <1>1, <1>2, <1>4, FS_MajoritiesIntersect
<1> QED BY <1>2, <1>5

\* X and Y share their first k entries.
Agree(X, Y, k) == k <= Len(X) /\ k <= Len(Y) /\ \A j \in 1 .. k : X[j] = Y[j]

\* Sharing a prefix is an equivalence, and shorter prefixes are shared too.
LEMMA AgreeSelf == ASSUME NEW X, NEW k, k <= Len(X) PROVE Agree(X, X, k)
BY DEF Agree

\* Sharing a prefix goes both ways (the logs handle_append_entries makes equal).
LEMMA AgreeBack == ASSUME NEW X, NEW Y, NEW k, Agree(X, Y, k) PROVE Agree(Y, X, k)
BY DEF Agree

\* Logs that share a prefix with a third share it with each other.
LEMMA AgreeOn ==
  ASSUME NEW X, NEW Y, NEW Z, NEW k, Agree(X, Y, k), Agree(Y, Z, k) PROVE Agree(X, Z, k)
BY DEF Agree

\* Logs that share a prefix share every shorter one.
LEMMA AgreeLess ==
  ASSUME NEW X, NEW Y, Len(X) \in Nat, Len(Y) \in Nat, NEW k \in Nat, NEW j \in Nat, j <= k, Agree(X, Y, k)
  PROVE  Agree(X, Y, j)
BY DEF Agree

-----------------------------------------------------------------------------
(* The log after an AppendEntries.                                         *)

\* SubSeq and \o, kept folded: the provers see them only where they are used.
Part(X, a, b) == SubSeq(X, a, b)
Join(U, W) == U \o W

\* e is the part of Y after its first p entries, or a prefix of that.
Segment(e, Y, p) == p + Len(e) <= Len(Y) /\ \A i \in 1 .. Len(e) : e[i] = Y[p + i]

\* A shared prefix continued with a segment of Y is a prefix of Y.
LEMMA Spliced ==
  ASSUME NEW Y \in Seq(Entries), NEW U \in Seq(Entries), NEW W \in Seq(Entries),
         Agree(U, Y, Len(U)), Segment(W, Y, Len(U)), NEW R, R = Join(U, W)
  PROVE  R \in Seq(Entries) /\ Len(R) = Len(U) + Len(W) /\ Agree(R, Y, Len(U) + Len(W))
<1>1. /\ R \in Seq(Entries) /\ Len(R) = Len(U) + Len(W)
      /\ \A i \in 1 .. Len(U) + Len(W) : R[i] = IF i <= Len(U) THEN U[i] ELSE W[i - Len(U)]
  BY ConcatProperties, Zenon DEF Join
<1>2. PICK a \in Nat, n \in Nat : a = Len(U) /\ n = Len(W)
  OBVIOUS
<1>3. a + n <= Len(Y) /\ Len(R) = a + n
  BY <1>1, <1>2 DEF Segment
<1>4. ASSUME NEW j \in 1 .. a + n PROVE R[j] = Y[j]
  <2>1. R[j] = IF j <= a THEN U[j] ELSE W[j - a]
    BY <1>1, <1>2
  <2>2. CASE j <= a
    <3>1. j \in 1 .. a
      BY <2>2
    <3>2. U[j] = Y[j]
      BY <1>2, <3>1 DEF Agree
    <3> QED BY <2>1, <2>2, <3>2
  <2>3. CASE ~(j <= a)
    <3>1. j - a \in 1 .. n /\ a + (j - a) = j
      BY <2>3
    <3>2. W[j - a] = Y[j]
      BY <1>2, <3>1 DEF Segment
    <3> QED BY <2>1, <2>3, <3>2
  <2> QED BY <2>2, <2>3
<1> QED BY <1>1, <1>2, <1>3, <1>4 DEF Agree

-----------------------------------------------------------------------------
(* Logs that follow the leaders of their terms.                            *)

\* L[T] being the log of term T's leader, X has up to each of its entries what
\* the leader that made the entry had.
Match(X, L) == \A i \in 1 .. Len(X) : Agree(X, L[X[i].term], i)

\* Two matching logs that agree on the term of an index agree up to it.
LEMMA MatchAgree ==
  ASSUME NEW L, NEW X, NEW Y, Match(X, L), Match(Y, L),
         NEW i, i \in 1 .. Len(X), i \in 1 .. Len(Y), X[i].term = Y[i].term
  PROVE  Agree(X, Y, i)
<1>1. Agree(X, L[X[i].term], i) /\ Agree(L[X[i].term], Y, i)
  BY AgreeBack DEF Match
<1> QED BY <1>1, AgreeOn

\* A prefix of a matching log matches.
LEMMA MatchPrefix ==
  ASSUME NEW L, NEW X \in Seq(Entries), NEW Y \in Seq(Entries), Match(Y, L), Agree(X, Y, Len(X))
  PROVE  Match(X, L)
<1> SUFFICES ASSUME NEW i \in 1 .. Len(X) PROVE Agree(X, L[X[i].term], i)
  BY DEF Match
<1>1. i \in Nat /\ i <= Len(X) /\ Len(X) \in Nat /\ Len(Y) \in Nat
  OBVIOUS
<1>2. i \in 1 .. Len(Y) /\ X[i] = Y[i]
  BY <1>1 DEF Agree
<1>3. Agree(X, Y, i)
  BY <1>1, AgreeLess
<1>4. Agree(Y, L[X[i].term], i)
  BY <1>2 DEF Match
<1> QED BY <1>3, <1>4, AgreeOn

-----------------------------------------------------------------------------
(* The log after an AppendEntries.                                         *)

\* The entries among the n after the first p of Y that X lacks, or has with
\* another term.
Fresh(X, Y, p, n) == {i \in 1 .. n : p + i > Len(X) \/ X[p + i].term # Y[p + i].term}

\* Before the first fresh entry the logs agree.
LEMMA SharedBefore ==
  ASSUME NEW L, NEW X \in Seq(Entries), NEW Y \in Seq(Entries), Match(X, L), Match(Y, L), NEW p \in Nat,
         NEW n \in Nat, p + n <= Len(Y), Agree(X, Y, p),
         NEW d \in Nat, d > 0, d <= n + 1, d - 1 \notin Fresh(X, Y, p, n)
  PROVE  Agree(X, Y, p + d - 1)
<1>1. CASE d = 1
  <2>1. p + d - 1 = p
    BY <1>1
  <2> QED BY <2>1
<1>2. CASE d # 1
  <2>1. PICK i \in Nat : i = p + d - 1
    OBVIOUS
  <2>2. d - 1 \in 1 .. n /\ p + (d - 1) = i
    BY <1>2, <2>1
  <2>3. i <= Len(X) /\ X[i].term = Y[i].term
    BY <2>1, <2>2 DEF Fresh
  <2>4. i \in 1 .. Len(X) /\ i \in 1 .. Len(Y)
    BY <2>2, <2>3
  <2> QED BY <2>1, <2>3, <2>4, MatchAgree
<1> QED BY <1>1, <1>2

\* A fresh entry is past all that X and Y share.
LEMMA FreshIsPast ==
  ASSUME NEW X \in Seq(Entries), NEW Y \in Seq(Entries), NEW p \in Nat, NEW n \in Nat, p + n <= Len(Y),
         NEW d \in Fresh(X, Y, p, n), NEW k \in Nat, Agree(X, Y, k)
  PROVE  k <= p + n
<1>1. d \in Nat /\ d > 0 /\ d <= n /\ (p + d > Len(X) \/ X[p + d].term # Y[p + d].term)
  BY DEF Fresh
<1> SUFFICES ASSUME k > p + n PROVE FALSE
  OBVIOUS
<1>2. p + d \in 1 .. k /\ p + d <= Len(X)
  BY <1>1 DEF Agree
<1>3. X[p + d] = Y[p + d]
  BY <1>2 DEF Agree
<1> QED BY <1>1, <1>2, <1>3

\* Where the first fresh entry is.
LEMMA FirstFresh ==
  ASSUME NEW L, NEW X \in Seq(Entries), NEW Y \in Seq(Entries), Match(X, L), Match(Y, L), NEW p \in Nat,
         NEW n \in Nat, p + n <= Len(Y), Agree(X, Y, p),
         NEW d \in Fresh(X, Y, p, n), \A j \in Fresh(X, Y, p, n) : d <= j
  PROVE  d \in Nat /\ d > 0 /\ d <= n /\ Agree(X, Y, p + d - 1)
<1>2. d \in Nat /\ d > 0 /\ d <= n /\ d <= n + 1 /\ ~(d <= d - 1)
  BY DEF Fresh
<1>3. d - 1 \notin Fresh(X, Y, p, n)
  BY <1>2
<1>5. Agree(X, Y, p + d - 1)
  BY <1>2, <1>3, SharedBefore
<1> QED BY <1>2, <1>5

\* What is kept of X, and what is taken of e.
LEMMA KeptPart ==
  ASSUME NEW X \in Seq(Entries), NEW Y \in Seq(Entries), NEW a \in Nat, Agree(X, Y, a),
         NEW U, U = Part(X, 1, a)
  PROVE  U \in Seq(Entries) /\ Len(U) = a /\ Agree(U, Y, a) /\ Agree(U, X, a)
<1>1. a <= Len(X) /\ a <= Len(Y) /\ \A j \in 1 .. a : X[j] = Y[j]
  BY DEF Agree
<1>2. U \in Seq(Entries) /\ Len(U) = a /\ \A j \in 1 .. a : U[j] = X[j]
  BY <1>1 DEF Part
<1> QED BY <1>1, <1>2 DEF Agree

\* The entries a request adds from the first fresh one on (merge).
LEMMA TakenPart ==
  ASSUME NEW e \in Seq(Entries), NEW Y \in Seq(Entries), NEW p \in Nat, Segment(e, Y, p),
         NEW d \in Nat, d > 0, d <= Len(e), NEW W, W = Part(e, d, Len(e))
  PROVE  W \in Seq(Entries) /\ Len(W) = Len(e) - d + 1 /\ Segment(W, Y, p + d - 1)
<1>1. PICK n \in Nat : n = Len(e)
  OBVIOUS
<1>2. W \in Seq(Entries) /\ Len(W) = n - d + 1 /\ \A j \in 1 .. n - d + 1 : W[j] = e[d + j - 1]
  BY <1>1 DEF Part
<1>3. p + n <= Len(Y) /\ \A i \in 1 .. n : e[i] = Y[p + i]
  BY <1>1 DEF Segment
<1>4. ASSUME NEW j \in 1 .. n - d + 1 PROVE W[j] = Y[p + d - 1 + j]
  <2>1. d + j - 1 \in 1 .. n /\ p + (d + j - 1) = p + d - 1 + j
    BY <1>1
  <2> QED BY <1>2, <1>3, <2>1
<1> QED BY <1>1, <1>2, <1>3, <1>4 DEF Segment

\* Keeping X up to the first fresh entry and taking e from there on.
LEMMA Replaced ==
  ASSUME NEW X \in Seq(Entries), NEW Y \in Seq(Entries), NEW e \in Seq(Entries), NEW p \in Nat, Segment(e, Y, p),
         NEW d \in Nat, d > 0, d <= Len(e), Agree(X, Y, p + d - 1),
         NEW R, R = Join(Part(X, 1, p + d - 1), Part(e, d, Len(e)))
  PROVE  R \in Seq(Entries) /\ Len(R) = p + Len(e) /\ Agree(R, Y, p + Len(e))
<1>1. PICK a : a = p + d - 1
  OBVIOUS
<1>2. a \in Nat /\ Agree(X, Y, a)
  BY <1>1
<1>3. PICK U : U = Part(X, 1, a)
  OBVIOUS
<1>4. PICK W : W = Part(e, d, Len(e))
  OBVIOUS
<1>5. U \in Seq(Entries) /\ Len(U) = a /\ Agree(U, Y, a)
  BY <1>2, <1>3, KeptPart
<1>6. W \in Seq(Entries) /\ Len(W) = Len(e) - d + 1 /\ Segment(W, Y, p + d - 1)
  BY <1>4, TakenPart
<1>7. R = Join(U, W) /\ Agree(U, Y, Len(U)) /\ Segment(W, Y, Len(U))
  BY <1>1, <1>3, <1>4, <1>5, <1>6
<1>8. R \in Seq(Entries) /\ Len(R) = Len(U) + Len(W) /\ Agree(R, Y, Len(U) + Len(W))
  BY <1>5, <1>6, <1>7, Spliced
<1>9. Len(e) \in Nat
  OBVIOUS
<1>10. Len(U) + Len(W) = p + Len(e)
  BY <1>1, <1>2, <1>5, <1>6, <1>9
<1> QED BY <1>8, <1>10
\* The sender's log Y, its request m and the receiver's log X.
Carries(m, Y) ==
  /\ m.prev_log_index \in Nat /\ m.entries \in Seq(Entries)
  /\ Segment(m.entries, Y, m.prev_log_index)
  /\ m.prev_log_index > 0 => m.prev_log_term = Y[m.prev_log_index].term

\* The receiver's test on the entry before the new ones.
LEMMA ConsistentShares ==
  ASSUME NEW L, NEW Y \in Seq(Entries), Match(Y, L), NEW s, NEW X \in Seq(Entries), X = s.log,
         s.base_index = 0, Match(X, L), NEW m, Carries(m, Y), consistent(s, m)
  PROVE  Agree(X, Y, m.prev_log_index)
<1>1. PICK p \in Nat : p = m.prev_log_index
  BY DEF Carries
<1>2. p <= Len(X) /\ (p > 0 => term_at(s, p) = m.prev_log_term)
  BY <1>1 DEF consistent, last_log_index
<1>3. p <= Len(Y) /\ (p > 0 => m.prev_log_term = Y[p].term)
  BY <1>1 DEF Carries, Segment
<1>4. CASE p = 0
  BY <1>1, <1>4 DEF Agree
<1>5. CASE p # 0
  <2>1. term_at(s, p) = X[p].term
    BY <1>2, <1>5 DEF term_at, last_log_index
  <2>2. p \in 1 .. Len(X) /\ p \in 1 .. Len(Y) /\ X[p].term = Y[p].term
    BY <1>2, <1>3, <1>5, <2>1
  <2> QED BY <1>1, <2>2, MatchAgree
<1> QED BY <1>4, <1>5

\* merge() in terms of the fresh entries.
MergeOf(R, X, Y, p, e) ==
  \/ Fresh(X, Y, p, Len(e)) = {} /\ R = X
  \/ \E d \in Fresh(X, Y, p, Len(e)) :
       /\ \A j \in Fresh(X, Y, p, Len(e)) : d <= j
       /\ R = Join(Part(X, 1, p + d - 1), Part(e, d, Len(e)))

\* merge() is one of these cases: it keeps the log, or replaces it from the
\* first fresh entry on.
LEMMA MergeCases ==
  ASSUME NEW Y \in Seq(Entries), NEW s, NEW X \in Seq(Entries), X = s.log, s.base_index = 0,
         NEW m, NEW e \in Seq(Entries), e = m.entries, NEW p \in Nat, p = m.prev_log_index, Segment(e, Y, p)
  PROVE  MergeOf(merge(s, m), X, Y, p, e)
<1> DEFINE c == CHOOSE i \in fresh(s, m) : \A j \in fresh(s, m) : i <= j
<1>1. merge(s, m) = IF fresh(s, m) = {} THEN s.log
          ELSE SubSeq(s.log, 1, m.prev_log_index + c - 1 - s.base_index) \o SubSeq(m.entries, c, Len(m.entries))
  BY Zenon DEF merge
<1>2. fresh(s, m) = Fresh(X, Y, p, Len(e))
  <2>1. ASSUME NEW i \in 1 .. Len(e)
        PROVE  (/\ m.prev_log_index + i > s.base_index
                /\ m.prev_log_index + i > last_log_index(s)
                   \/ term_at(s, m.prev_log_index + i) # m.entries[i].term)
                <=> (p + i > Len(X) \/ X[p + i].term # Y[p + i].term)
    <3>1. last_log_index(s) = Len(X)
      BY DEF last_log_index
    <3>2. i \in Nat /\ i > 0 /\ e[i] = Y[p + i]
      BY DEF Segment
    <3>3. CASE p + i <= Len(X)
      <4>1. p + i # 0 /\ p + i > s.base_index /\ p + i <= last_log_index(s) /\ p + i - s.base_index = p + i
        BY <3>1, <3>2, <3>3
      <4>2. term_at(s, p + i) = X[p + i].term
        BY <4>1 DEF term_at
      <4> QED BY <3>1, <3>2, <4>2
    <3>4. CASE ~(p + i <= Len(X))
      BY <3>1, <3>2, <3>4
    <3> QED BY <3>3, <3>4
  <2> QED BY <2>1, Zenon DEF fresh, Fresh
<1>3. fresh(s, m) \subseteq Nat
  BY DEF fresh
<1>4. CASE fresh(s, m) = {}
  BY <1>1, <1>2, <1>4 DEF MergeOf
<1>5. CASE fresh(s, m) # {}
  <2>1. \E i \in fresh(s, m) : \A j \in fresh(s, m) : i <= j
    BY <1>3, <1>5, LeastElement
  <2>2. c \in fresh(s, m) /\ \A j \in fresh(s, m) : c <= j
    BY <2>1, Zenon
  <2>3. PICK d \in fresh(s, m) : d = c
    BY <2>2
  <2>4. m.prev_log_index + d - 1 - s.base_index = p + d - 1
    <3>1. d \in Nat
      BY <1>3
    <3> HIDE DEF c
    <3> QED BY <3>1
  <2>5. merge(s, m) = SubSeq(X, 1, p + d - 1) \o SubSeq(e, d, Len(e))
    BY <1>1, <1>5, <2>3, <2>4, Zenon
  <2>6. merge(s, m) = Join(Part(X, 1, p + d - 1), Part(e, d, Len(e)))
    BY <2>5, Zenon DEF Join, Part
  <2> QED BY <1>2, <2>2, <2>3, <2>6, Zenon DEF MergeOf
<1> QED BY <1>4, <1>5
\* R has in common with Y what X had.
Keeps(X, R, Y) == \A k \in Nat : Agree(X, Y, k) => Agree(R, Y, k)

\* A consistent receiver ends up with all the sender sent, keeps all it shared
\* with the sender's log, and still matches.
LEMMA Merged ==
  ASSUME NEW L, NEW Y \in Seq(Entries), Match(Y, L), NEW s, NEW X \in Seq(Entries), X = s.log,
         s.base_index = 0, Match(X, L), NEW m, Carries(m, Y), consistent(s, m), NEW R, R = merge(s, m),
         NEW w, w = m.prev_log_index + Len(m.entries)
  PROVE  /\ R \in Seq(Entries) /\ Match(R, L) /\ w \in Nat /\ Agree(R, Y, w) /\ Keeps(X, R, Y)
         /\ R = X \/ Agree(R, Y, Len(R))
<1>1. PICK p \in Nat : p = m.prev_log_index
  BY DEF Carries
<1>2. PICK e \in Seq(Entries) : e = m.entries
  BY DEF Carries
<1>3. Segment(e, Y, p)
  BY <1>1, <1>2 DEF Carries
<1>4. Agree(X, Y, p)
  BY <1>1, ConsistentShares
<1>5. PICK n : n = Len(e)
  OBVIOUS
<1>6. n \in Nat /\ p + n <= Len(Y) /\ w = p + n
  BY <1>1, <1>2, <1>3, <1>5 DEF Segment
<1>7. CASE Fresh(X, Y, p, n) = {} /\ R = X
  <2>1. PICK d : d = n + 1
    OBVIOUS
  <2>2. d \in Nat /\ d > 0 /\ d <= n + 1 /\ p + d - 1 = w /\ d - 1 \notin Fresh(X, Y, p, n)
    BY <1>6, <1>7, <2>1
  <2>3. Agree(X, Y, p + d - 1)
    BY <1>4, <1>6, <2>2, SharedBefore
  <2> QED BY <1>6, <1>7, <2>2, <2>3 DEF Keeps
<1>8. ASSUME NEW d \in Fresh(X, Y, p, n), \A j \in Fresh(X, Y, p, n) : d <= j,
             R = Join(Part(X, 1, p + d - 1), Part(e, d, Len(e)))
      PROVE  R \in Seq(Entries) /\ Match(R, L) /\ Agree(R, Y, w) /\ Agree(R, Y, Len(R)) /\ Keeps(X, R, Y)
  <2>1. d \in Nat /\ d > 0 /\ d <= n /\ Agree(X, Y, p + d - 1)
    BY <1>4, <1>6, <1>8, FirstFresh
  <2>2. R \in Seq(Entries) /\ Len(R) = p + Len(e) /\ Agree(R, Y, p + Len(e))
    BY <1>3, <1>5, <1>8, <2>1, Replaced
  <2>3. Len(R) = w /\ Agree(R, Y, w) /\ Agree(R, Y, Len(R))
    BY <1>5, <1>6, <2>2
  <2>4. Match(R, L)
    BY <2>2, <2>3, MatchPrefix
  <2>5. ASSUME NEW k \in Nat, Agree(X, Y, k) PROVE Agree(R, Y, k)
    <3>1. k <= w
      BY <1>6, <2>5, FreshIsPast
    <3>2. Len(R) \in Nat /\ Len(Y) \in Nat
      BY <2>2
    <3> QED BY <1>6, <2>3, <3>1, <3>2, AgreeLess
  <2> QED BY <2>2, <2>3, <2>4, <2>5 DEF Keeps
<1>9. \/ Fresh(X, Y, p, n) = {} /\ R = X
      \/ \E d \in Fresh(X, Y, p, n) :
           /\ \A j \in Fresh(X, Y, p, n) : d <= j
           /\ R = Join(Part(X, 1, p + d - 1), Part(e, d, Len(e)))
  <2>1. MergeOf(R, X, Y, p, e)
    BY <1>1, <1>2, <1>3, MergeCases
  <2> QED BY <1>5, <2>1 DEF MergeOf
<1> QED BY <1>6, <1>7, <1>8, <1>9

-----------------------------------------------------------------------------
(* The ghosts of the argument, for a state S of the nodes and the elections *)
(* E that were won: V[T][p] is the vote of p in term T, L[T] the log of the *)
(* leader of T, A[T][p] how much of L[T] p has acknowledged.               *)

LogMap(L) == \A T \in Nat : L[T] \in Seq(Entries)
Counts(A) == \A T \in Nat, p \in Nodes : A[T][p] \in Nat
Won(E, T) == \E c \in Nodes : <<T, c>> \in E
Elected(V, T, c) == \E Q \in Quorums : \A q \in Q : V[T][q] = c

\* What one node's state is made of.
NodeOK(s, n) ==
  /\ s.id = n /\ s.role \in Role /\ s.current_term \in Nat /\ s.log \in Seq(Entries)
  /\ s.base_index = 0 /\ s.base_term = 0 /\ s.commit_index \in Nat /\ s.votes_granted \subseteq Nodes
Typed(S) == \A n \in Nodes : NodeOK(S[n], n)

\* Entry k of term T's leader is chosen once a majority acknowledged it, and
\* may still be while those who did not have not gone past the term.
Chosen(L, A, T, k) ==
  /\ k \in 1 .. Len(L[T]) /\ L[T][k].term = T
  /\ \E Q \in Quorums : \A q \in Q : k <= A[T][q]
Choosable(S, L, A, T, k) ==
  /\ k \in 1 .. Len(L[T]) /\ L[T][k].term = T
  /\ \E Q \in Quorums : \A q \in Q : k <= A[T][q] \/ S[q].current_term <= T

\* The first c entries of X are among those of a chosen entry of a term up to t.
Safe(L, A, X, c, t) ==
  c = 0 \/ \E T \in Nat, k \in Nat : T <= t /\ c <= k /\ Chosen(L, A, T, k) /\ Agree(X, L[T], c)

\* X is at least as up to date as the first k entries of T's leader.
Beyond(X, T, k) ==
  /\ Len(X) > 0
  /\ X[Len(X)].term > T \/ (X[Len(X)].term = T /\ Len(X) >= k)
Below(X, t) == \A i \in 1 .. Len(X) : X[i].term <= t
Sorted(X) == \A i, j \in 1 .. Len(X) : i <= j => X[i].term <= X[j].term

\* How votes, logs and counts may grow.
VotesGrow(V, V2) == \A T \in Nat, p \in Nodes : V[T][p] # Nil => V2[T][p] = V[T][p]
LogsGrow(L, L2) == \A T \in Nat : Agree(L[T], L2[T], Len(L[T]))
TermsGrow(S, S2) == \A p \in Nodes : S[p].current_term <= S2[p].current_term
CountsGrow(S, A, A2) ==
  \A T \in Nat, p \in Nodes :
    A[T][p] <= A2[T][p] /\ (A[T][p] < A2[T][p] => S[p].current_term <= T)

\* The terms of elections are numbers.
LEMMA TermsAreNumbers == Terms \subseteq Nat
BY BoundsAssumption DEF Terms

\* The log of a term's leader is a log.
LEMMA LogAt == ASSUME NEW L, LogMap(L), NEW T \in Nat PROVE L[T] \in Seq(Entries) /\ Len(L[T]) \in Nat
<1>1. L[T] \in Seq(Entries)
  BY DEF LogMap
<1> QED BY <1>1

\* The term of an entry is a number.
LEMMA EntryTerm ==
  ASSUME NEW X \in Seq(Entries), NEW i \in 1 .. Len(X) PROVE X[i].term \in Nat
<1>1. X[i] \in Entries
  OBVIOUS
<1>2. X[i].term \in Terms
  BY <1>1 DEF Entries
<1> QED BY <1>2, TermsAreNumbers

\* A chosen entry stays chosen.
LEMMA ChosenStays ==
  ASSUME NEW S, NEW L, NEW L2, NEW A, NEW A2, LogMap(L), LogMap(L2), Counts(A), Counts(A2),
         LogsGrow(L, L2), CountsGrow(S, A, A2), NEW T \in Nat, NEW k \in Nat, Chosen(L, A, T, k)
  PROVE  Chosen(L2, A2, T, k)
<1>1. PICK X \in Seq(Entries), Y \in Seq(Entries) : X = L[T] /\ Y = L2[T]
  BY LogAt
<1>2. Agree(X, Y, Len(X)) /\ k \in 1 .. Len(X) /\ X[k].term = T
  BY <1>1 DEF LogsGrow, Chosen
<1>3. k \in 1 .. Len(Y) /\ Y[k] = X[k]
  BY <1>2 DEF Agree
<1>4. PICK Q \in Quorums : \A q \in Q : k <= A[T][q]
  BY DEF Chosen
<1>5. ASSUME NEW q \in Q PROVE k <= A2[T][q]
  <2>1. q \in Nodes
    BY DEF Quorums
  <2>2. A[T][q] <= A2[T][q] /\ A[T][q] \in Nat /\ A2[T][q] \in Nat
    BY <2>1 DEF CountsGrow, Counts
  <2>3. k <= A[T][q]
    BY <1>4
  <2> QED BY <2>2, <2>3
<1> QED BY <1>1, <1>2, <1>3, <1>5 DEF Chosen

\* An entry that may be chosen now could be chosen before, if it was there.
LEMMA ChoosableBefore ==
  ASSUME NEW S, NEW S2, NEW L, NEW L2, NEW A, NEW A2, LogMap(L), LogMap(L2), Counts(A), Counts(A2),
         Typed(S), Typed(S2),
         TermsGrow(S, S2), LogsGrow(L, L2), CountsGrow(S, A, A2), NEW T \in Nat, NEW k \in Nat,
         k <= Len(L[T]), Choosable(S2, L2, A2, T, k)
  PROVE  Choosable(S, L, A, T, k)
<1>1. PICK X \in Seq(Entries), Y \in Seq(Entries) : X = L[T] /\ Y = L2[T]
  BY LogAt
<1>2. Agree(X, Y, Len(X)) /\ k \in 1 .. Len(Y) /\ Y[k].term = T /\ k <= Len(X)
  BY <1>1 DEF LogsGrow, Choosable
<1>3. k \in 1 .. Len(X) /\ Y[k] = X[k]
  BY <1>2 DEF Agree
<1>4. PICK Q \in Quorums : \A q \in Q : k <= A2[T][q] \/ S2[q].current_term <= T
  BY DEF Choosable
<1>5. ASSUME NEW q \in Q PROVE k <= A[T][q] \/ S[q].current_term <= T
  <2>1. q \in Nodes
    BY DEF Quorums
  <2>2. A[T][q] <= A2[T][q] /\ A[T][q] \in Nat /\ A2[T][q] \in Nat /\ (A[T][q] < A2[T][q] => S[q].current_term <= T)
    BY <2>1 DEF CountsGrow, Counts
  <2>3. S[q].current_term <= S2[q].current_term /\ S[q].current_term \in Nat /\ S2[q].current_term \in Nat
    BY <2>1 DEF TermsGrow, Typed, NodeOK
  <2>4. k <= A2[T][q] \/ S2[q].current_term <= T
    BY <1>4
  <2> QED BY <2>2, <2>3, <2>4
<1> QED BY <1>1, <1>2, <1>3, <1>5 DEF Choosable

\* A chosen entry is one that may be chosen.
LEMMA ChosenChoosable ==
  ASSUME NEW S, NEW L, NEW A, NEW T, NEW k, Chosen(L, A, T, k) PROVE Choosable(S, L, A, T, k)
BY DEF Chosen, Choosable

\* A safe prefix stays safe, and is safe wherever it is shared.
LEMMA SafeStays ==
  ASSUME NEW S, NEW L, NEW L2, NEW A, NEW A2, LogMap(L), LogMap(L2), Counts(A), Counts(A2),
         LogsGrow(L, L2), CountsGrow(S, A, A2), NEW X \in Seq(Entries), NEW c \in Nat, NEW t \in Nat,
         Safe(L, A, X, c, t), NEW u \in Nat, t <= u
  PROVE  Safe(L2, A2, X, c, u)
<1>1. CASE c = 0
  BY <1>1 DEF Safe
<1>2. CASE c # 0
  <2>1. PICK T \in Nat, k \in Nat : T <= t /\ c <= k /\ Chosen(L, A, T, k) /\ Agree(X, L[T], c)
    BY <1>2 DEF Safe
  <2>2. Chosen(L2, A2, T, k)
    BY <2>1, ChosenStays
  <2>3. PICK Y \in Seq(Entries), Z \in Seq(Entries) : Y = L[T] /\ Z = L2[T]
    BY LogAt
  <2>4. Agree(Y, Z, Len(Y)) /\ Agree(X, Y, c) /\ c <= Len(Y) /\ Len(Y) \in Nat /\ Len(Z) \in Nat
    BY <2>1, <2>3 DEF LogsGrow, Agree
  <2>5. Agree(Y, Z, c)
    BY <2>4, AgreeLess
  <2>6. Agree(X, Z, c)
    BY <2>4, <2>5, AgreeOn
  <2>7. T <= u
    BY <2>1
  <2> QED BY <2>1, <2>2, <2>3, <2>6, <2>7 DEF Safe
<1> QED BY <1>1, <1>2

\* What is committed of one log is safe in every log that shares it.
LEMMA SafeShared ==
  ASSUME NEW L, NEW A, NEW X, NEW Y, NEW c, NEW t, Safe(L, A, X, c, t), Agree(X, Y, c)
  PROVE  Safe(L, A, Y, c, t)
<1>1. Agree(Y, X, c)
  BY AgreeBack
<1> QED BY <1>1, AgreeOn DEF Safe

\* Who holds the first k entries of T's leader, entry k being of term T, is at
\* least as up to date.
LEMMA HeldIsBehind ==
  ASSUME NEW L, LogMap(L), \A W \in Nat : Sorted(L[W]), NEW X \in Seq(Entries), Match(X, L),
         NEW T \in Nat, NEW k \in Nat, k \in 1 .. Len(L[T]), L[T][k].term = T, Agree(X, L[T], k)
  PROVE  Beyond(X, T, k)
<1>1. PICK n : n = Len(X)
  OBVIOUS
<1>2. n \in Nat /\ k <= n /\ k > 0 /\ X[k] = L[T][k]
  BY <1>1 DEF Agree
<1>3. n \in 1 .. Len(X) /\ k \in 1 .. Len(X)
  BY <1>1, <1>2
<1>4. PICK W \in Nat : W = X[n].term
  BY <1>3, EntryTerm
<1>5. Agree(X, L[W], n)
  BY <1>3, <1>4 DEF Match
<1>6. k \in 1 .. Len(L[W]) /\ n \in 1 .. Len(L[W]) /\ L[W][k] = X[k] /\ L[W][n] = X[n]
  BY <1>2, <1>5, LogAt DEF Agree
<1>7. L[W][k].term <= L[W][n].term
  <2>1. Sorted(L[W])
    OBVIOUS
  <2> QED BY <1>2, <1>6, <2>1 DEF Sorted
<1>8. T <= W
  BY <1>2, <1>4, <1>6, <1>7
<1> QED BY <1>1, <1>2, <1>4, <1>8 DEF Beyond

\* Who is at least as up to date holds them, if the leader of its last term does.
LEMMA BeyondHolds ==
  ASSUME NEW L, LogMap(L), \A W \in Nat : Sorted(L[W]), NEW X \in Seq(Entries), Match(X, L),
         NEW T \in Nat, NEW k \in Nat, k \in 1 .. Len(L[T]), L[T][k].term = T, Beyond(X, T, k),
         NEW W \in Nat, W = X[Len(X)].term, T < W => Agree(L[T], L[W], k)
  PROVE  Agree(L[T], X, k)
<1>1. PICK n : n = Len(X)
  OBVIOUS
<1>2. n \in Nat /\ n > 0 /\ (W > T \/ (W = T /\ n >= k)) /\ W = X[n].term
  BY <1>1 DEF Beyond
<1>3. n \in 1 .. Len(X)
  BY <1>1, <1>2
<1>4. Agree(X, L[W], n)
  BY <1>2, <1>3 DEF Match
<1>5. Len(L[W]) \in Nat /\ Len(L[T]) \in Nat
  BY LogAt
<1>6. Agree(L[T], L[W], k)
  <2>1. CASE W > T
    BY <2>1
  <2>2. CASE W = T
    BY <1>5, <2>2, AgreeSelf
  <2> QED BY <1>2, <2>1, <2>2
<1>7. k <= n
  <2> SUFFICES ASSUME n < k PROVE FALSE
    BY <1>2
  <2>1. W > T /\ k \in 1 .. Len(L[W]) /\ n \in 1 .. Len(L[W]) /\ n <= k
    BY <1>2, <1>4, <1>5, <1>6 DEF Agree
  <2>2. L[W][k] = L[T][k] /\ L[W][n] = X[n]
    BY <1>3, <1>4, <1>6, <2>1 DEF Agree
  <2>3. L[W][n].term <= L[W][k].term
    <3>1. Sorted(L[W])
      OBVIOUS
    <3> QED BY <2>1, <3>1 DEF Sorted
  <2> QED BY <1>2, <2>1, <2>2, <2>3
<1>8. Agree(X, L[W], k)
  BY <1>1, <1>2, <1>4, <1>5, <1>7, AgreeLess
<1>9. Agree(L[W], X, k)
  BY <1>8, AgreeBack
<1> QED BY <1>6, <1>9, AgreeOn

-----------------------------------------------------------------------------
(* The invariant.                                                          *)

VotesKept(S, V) ==
  /\ \A p \in Nodes : V[S[p].current_term][p] = S[p].voted_for
  /\ \A T \in Nat, p \in Nodes : V[T][p] # Nil =>
       V[T][p] \in Nodes /\ T <= S[p].current_term /\ T <= S[V[T][p]].current_term
WonVotes(S, E, V) ==
  /\ E \subseteq Terms \X Nodes
  /\ \A T \in Nat, c \in Nodes : <<T, c>> \in E =>
       /\ T <= S[c].current_term /\ (S[c].current_term = T => S[c].role # "Candidate")
       /\ Elected(V, T, c)
Campaigning(S, V) ==
  \A n \in Nodes : S[n].role = "Candidate" =>
    S[n].current_term \in Terms /\ \A q \in S[n].votes_granted : V[S[n].current_term][q] = n
NodeLogs(S, L) == \A n \in Nodes : Match(S[n].log, L) /\ Below(S[n].log, S[n].current_term)
LeaderLogs(L) == \A T \in Nat : Match(L[T], L) /\ Sorted(L[T]) /\ Below(L[T], T)
Unwon(E, L) == \A T \in Nat : ~Won(E, T) => L[T] = << >>
Indices(s, A) ==
  \A p \in Nodes :
    /\ s.match_index[p] \in Nat /\ s.match_index[p] <= A[s.current_term][p]
    /\ s.next_index[p] \in 1 .. Len(s.log) + 1
Leads(s, n, E, L, A) ==
  /\ <<s.current_term, n>> \in E /\ s.log = L[s.current_term]
  /\ A[s.current_term][n] = Len(s.log) /\ Indices(s, A)
Leading(S, E, L, A) == \A n \in Nodes : S[n].role = "Leader" => Leads(S[n], n, E, L, A)
Accepting(S, L, A) ==
  \A T \in Nat, p \in Nodes : A[T][p] <= Len(L[T]) /\ (A[T][p] > 0 => T <= S[p].current_term)
Complete(S, E, L, A) ==
  \A T \in Nat, U \in Nat, k \in Nat :
    T < U /\ Won(E, U) /\ Choosable(S, L, A, T, k) => Agree(L[T], L[U], k)
Holding(S, L, A) ==
  \A T \in Nat, p \in Nodes, k \in Nat :
    k <= A[T][p] /\ Choosable(S, L, A, T, k) => Agree(S[p].log, L[T], k)
UpToDate(S, V, L, A) ==
  \A c \in Nodes, q \in Nodes, T \in Nat, k \in Nat :
    /\ S[c].role = "Candidate" /\ V[S[c].current_term][q] = c /\ T < S[c].current_term
    /\ k <= A[T][q] /\ Choosable(S, L, A, T, k)
    => Beyond(S[c].log, T, k)
CommitsSafe(S, L, A) ==
  \A n \in Nodes : Safe(L, A, S[n].log, S[n].commit_index, S[n].current_term)

Ghosts(L, A) == LogMap(L) /\ Counts(A) /\ LeaderLogs(L)
Core(S, E, V, L, A) ==
  /\ Typed(S) /\ Ghosts(L, A)
  /\ VotesKept(S, V) /\ WonVotes(S, E, V) /\ Campaigning(S, V)
  /\ NodeLogs(S, L) /\ Unwon(E, L) /\ Leading(S, E, L, A) /\ Accepting(S, L, A)
  /\ Complete(S, E, L, A) /\ Holding(S, L, A) /\ UpToDate(S, V, L, A) /\ CommitsSafe(S, L, A)

\* What every step keeps of the past.
CandidatesKeep(S, S2) ==
  \A p \in Nodes : S2[p].role = "Candidate" /\ S2[p].current_term = S[p].current_term =>
    S[p].role = "Candidate" /\ S2[p].log = S[p].log
CommitsKeep(S, S2) ==
  \A p \in Nodes : /\ S[p].commit_index <= S2[p].commit_index
                   /\ Agree(S[p].log, S2[p].log, S[p].commit_index)
Evolves(S, E, V, L, A, S2, E2, V2, L2, A2) ==
  /\ TermsGrow(S, S2) /\ E \subseteq E2 /\ VotesGrow(V, V2) /\ LogsGrow(L, L2) /\ CountsGrow(S, A, A2)
  /\ CandidatesKeep(S, S2) /\ CommitsKeep(S, S2)

\* No two nodes win a term.
LEMMA OneWinner ==
  ASSUME NEW V, NEW T, NEW c, NEW d, Elected(V, T, c), Elected(V, T, d) PROVE c = d
<1>1. PICK P \in Quorums : \A q \in P : V[T][q] = c
  BY DEF Elected
<1>2. PICK Q \in Quorums : \A q \in Q : V[T][q] = d
  BY DEF Elected
<1>3. PICK q \in Nodes : q \in P /\ q \in Q
  BY QuorumsMeet
<1> QED BY <1>1, <1>2, <1>3

\* A prefix that is committed is within the log.
LEMMA SafeWithin ==
  ASSUME NEW L, NEW A, NEW X \in Seq(Entries), NEW c \in Nat, NEW t, Safe(L, A, X, c, t)
  PROVE  c <= Len(X)
<1>1. CASE c = 0
  BY <1>1
<1>2. CASE c # 0
  BY <1>2 DEF Safe, Agree
<1> QED BY <1>1, <1>2

\* Only node n moves.
Moved(S, S2, n) == \A p \in Nodes : p # n => S2[p] = S[p]

-----------------------------------------------------------------------------
(* A node that keeps its log, and whose new state the ghosts vouch for.    *)
Stays(S, V, L, A, S2, n) ==
  /\ Moved(S, S2, n) /\ NodeOK(S2[n], n) /\ S2[n].log = S[n].log
  /\ S[n].current_term <= S2[n].current_term /\ S[n].commit_index <= S2[n].commit_index
  /\ S2[n].voted_for = V[S2[n].current_term][n]
  /\ S2[n].role # "Follower" => S2[n].role = S[n].role /\ S2[n].current_term = S[n].current_term
  /\ S2[n].role = "Candidate" => \A q \in S2[n].votes_granted : V[S2[n].current_term][q] = n
  /\ S2[n].role = "Leader" => Indices(S2[n], A)
  /\ Safe(L, A, S2[n].log, S2[n].commit_index, S2[n].current_term)

\* Ghosts that stay the same have grown.
LEMMA SameGrow ==
  ASSUME NEW S, NEW V, NEW L, NEW A, LogMap(L), Counts(A)
  PROVE  VotesGrow(V, V) /\ LogsGrow(L, L) /\ CountsGrow(S, A, A)
<1>1. VotesGrow(V, V)
  BY DEF VotesGrow
<1>2. LogsGrow(L, L)
  <2> SUFFICES ASSUME NEW T \in Nat PROVE Agree(L[T], L[T], Len(L[T]))
    BY DEF LogsGrow
  <2>1. Len(L[T]) \in Nat
    BY LogAt
  <2> QED BY <2>1, AgreeSelf
<1>3. CountsGrow(S, A, A)
  BY DEF CountsGrow, Counts
<1> QED BY <1>1, <1>2, <1>3

\* A step that keeps the log of its node keeps the invariant: a lower role, a
\* higher term, a vote counted, an index noted, a safe commit (observe_term,
\* handle_append_ack, advance_commit).
LEMMA StayStep ==
  ASSUME NEW S, NEW E, NEW V, NEW L, NEW A, NEW S2, NEW n \in Nodes, Core(S, E, V, L, A),
         Stays(S, V, L, A, S2, n)
  PROVE  Core(S2, E, V, L, A) /\ Evolves(S, E, V, L, A, S2, E, V, L, A)
<1>1. Typed(S) /\ LogMap(L) /\ Counts(A) /\ LeaderLogs(L)
  BY DEF Core, Ghosts
<1>2. \A p \in Nodes : p # n => S2[p] = S[p]
  BY DEF Stays, Moved
<1>3. Typed(S2)
  BY <1>1, <1>2 DEF Typed, Stays
<1>4. \A p \in Nodes : S2[p].log = S[p].log
  BY <1>2 DEF Stays
<1>5. \A p \in Nodes : /\ S[p].current_term \in Nat /\ S2[p].current_term \in Nat /\ S[p].log \in Seq(Entries)
                       /\ S[p].current_term <= S2[p].current_term
  BY <1>1, <1>2, <1>3 DEF Stays, Typed, NodeOK
<1>6. TermsGrow(S, S2)
  BY <1>5 DEF TermsGrow
<1>7. VotesGrow(V, V) /\ LogsGrow(L, L) /\ CountsGrow(S, A, A)
  BY <1>1, SameGrow
<1>8. ASSUME NEW T \in Nat, NEW k \in Nat, Choosable(S2, L, A, T, k) PROVE Choosable(S, L, A, T, k)
  <2>1. k <= Len(L[T])
    BY <1>8 DEF Choosable
  <2> QED BY <1>1, <1>3, <1>6, <1>7, <1>8, <2>1, ChoosableBefore
<1>9. ASSUME NEW p \in Nodes, S2[p].role # "Follower"
      PROVE  S2[p].role = S[p].role /\ S2[p].current_term = S[p].current_term
  BY <1>2, <1>9 DEF Stays
<1>10. VotesKept(S2, V)
  <2>1. \A p \in Nodes : V[S2[p].current_term][p] = S2[p].voted_for
    BY <1>2 DEF Stays, Core, VotesKept
  <2>2. ASSUME NEW T \in Nat, NEW p \in Nodes, V[T][p] # Nil
        PROVE  V[T][p] \in Nodes /\ T <= S2[p].current_term /\ T <= S2[V[T][p]].current_term
    <3>1. V[T][p] \in Nodes /\ T <= S[p].current_term /\ T <= S[V[T][p]].current_term
      BY <2>2 DEF Core, VotesKept
    <3>2. PICK c \in Nodes : c = V[T][p]
      BY <3>1
    <3> QED BY <1>5, <3>1, <3>2
  <2> QED BY <2>1, <2>2 DEF VotesKept
<1>11. WonVotes(S2, E, V)
  <2>1. WonVotes(S, E, V)
    BY DEF Core
  <2>2. ASSUME NEW T \in Nat, NEW c \in Nodes, <<T, c>> \in E
        PROVE  /\ T <= S2[c].current_term /\ (S2[c].current_term = T => S2[c].role # "Candidate")
               /\ Elected(V, T, c)
    <3>1. T <= S[c].current_term /\ (S[c].current_term = T => S[c].role # "Candidate") /\ Elected(V, T, c)
      BY <2>1, <2>2 DEF WonVotes
    <3> QED BY <1>5, <1>9, <3>1
  <2> QED BY <2>1, <2>2 DEF WonVotes
<1>12. Campaigning(S2, V)
  <2>1. Campaigning(S, V)
    BY DEF Core
  <2> SUFFICES ASSUME NEW p \in Nodes, S2[p].role = "Candidate"
               PROVE  S2[p].current_term \in Terms /\ \A q \in S2[p].votes_granted : V[S2[p].current_term][q] = p
    BY DEF Campaigning
  <2>2. S[p].role = "Candidate" /\ S2[p].current_term = S[p].current_term /\ S[p].current_term \in Terms
    BY <1>9, <2>1 DEF Campaigning
  <2>3. \A q \in S2[p].votes_granted : V[S2[p].current_term][q] = p
    BY <1>2, <2>1 DEF Stays, Campaigning
  <2> QED BY <2>2, <2>3
<1>13. NodeLogs(S2, L)
  <2> SUFFICES ASSUME NEW p \in Nodes PROVE Match(S2[p].log, L) /\ Below(S2[p].log, S2[p].current_term)
    BY DEF NodeLogs
  <2>1. Match(S[p].log, L) /\ Below(S[p].log, S[p].current_term)
    BY DEF Core, NodeLogs
  <2>2. Below(S[p].log, S2[p].current_term)
    BY <1>5, <2>1, EntryTerm DEF Below
  <2> QED BY <1>4, <2>1, <2>2
<1>14. Leading(S2, E, L, A)
  <2> SUFFICES ASSUME NEW p \in Nodes, S2[p].role = "Leader" PROVE Leads(S2[p], p, E, L, A)
    BY DEF Leading
  <2>1. S[p].role = "Leader" /\ S2[p].current_term = S[p].current_term /\ S2[p].log = S[p].log
    BY <1>4, <1>9
  <2>2. Leads(S[p], p, E, L, A)
    BY <2>1 DEF Core, Leading
  <2>3. Indices(S2[p], A)
    BY <1>2, <2>2 DEF Stays, Leads
  <2> QED BY <2>1, <2>2, <2>3 DEF Leads
<1>15. Accepting(S2, L, A)
  <2> SUFFICES ASSUME NEW T \in Nat, NEW p \in Nodes
               PROVE  A[T][p] <= Len(L[T]) /\ (A[T][p] > 0 => T <= S2[p].current_term)
    BY DEF Accepting
  <2>1. A[T][p] <= Len(L[T]) /\ (A[T][p] > 0 => T <= S[p].current_term)
    BY DEF Core, Accepting
  <2> QED BY <1>5, <2>1
<1>16. Complete(S2, E, L, A)
  BY <1>8 DEF Core, Complete
<1>17. Holding(S2, L, A)
  BY <1>4, <1>8 DEF Core, Holding
<1>18. UpToDate(S2, V, L, A)
  <2> SUFFICES ASSUME NEW c \in Nodes, NEW q \in Nodes, NEW T \in Nat, NEW k \in Nat,
                      S2[c].role = "Candidate", V[S2[c].current_term][q] = c, T < S2[c].current_term,
                      k <= A[T][q], Choosable(S2, L, A, T, k)
               PROVE  Beyond(S2[c].log, T, k)
    BY DEF UpToDate
  <2>1. S[c].role = "Candidate" /\ S2[c].current_term = S[c].current_term /\ S2[c].log = S[c].log
    BY <1>4, <1>9
  <2>2. Choosable(S, L, A, T, k)
    BY <1>8
  <2> QED BY <2>1, <2>2 DEF Core, UpToDate
<1>19. CommitsSafe(S2, L, A)
  BY <1>2 DEF Stays, Core, CommitsSafe
<1>20. CandidatesKeep(S, S2)
  BY <1>4, <1>9 DEF CandidatesKeep
<1>21. CommitsKeep(S, S2)
  <2> SUFFICES ASSUME NEW p \in Nodes
               PROVE  S[p].commit_index <= S2[p].commit_index /\ Agree(S[p].log, S2[p].log, S[p].commit_index)
    BY DEF CommitsKeep
  <2>1. S[p].commit_index \in Nat /\ Safe(L, A, S[p].log, S[p].commit_index, S[p].current_term)
    BY <1>1 DEF Typed, NodeOK, Core, CommitsSafe
  <2>2. S[p].commit_index <= Len(S[p].log)
    BY <1>5, <2>1, SafeWithin
  <2>3. Agree(S[p].log, S2[p].log, S[p].commit_index)
    BY <1>4, <2>2, AgreeSelf
  <2>4. S[p].commit_index <= S2[p].commit_index
    BY <1>2, <2>1 DEF Stays
  <2> QED BY <2>3, <2>4
<1>22. Ghosts(L, A) /\ Unwon(E, L)
  BY DEF Core
<1> QED BY <1>3, <1>6, <1>7, <1>10, <1>11, <1>12, <1>13, <1>14, <1>15, <1>16, <1>17, <1>18, <1>19,
           <1>20, <1>21, <1>22 DEF Core, Evolves

-----------------------------------------------------------------------------
(* A node that votes: for a candidate, or for itself as it becomes one.    *)
Cast(V, n, c, U) == [T \in Nat |-> [p \in Nodes |-> IF T = U /\ p = n THEN c ELSE V[T][p]]]

Voting(S, V, L, A, S2, n, c, U) ==
  /\ Moved(S, S2, n) /\ NodeOK(S2[n], n) /\ S2[n].log = S[n].log /\ S2[n].commit_index = S[n].commit_index
  /\ U \in Nat /\ c \in Nodes /\ V[U][n] \in {Nil, c} /\ S2[n].voted_for = c
  /\ S[n].current_term <= U /\ S2[n].current_term = U /\ U <= S2[c].current_term
  /\ \/ S2[n].role = "Follower"
     \/ /\ S2[n].role = "Candidate" /\ c = n /\ S[n].current_term < U /\ U \in Terms
        /\ S2[n].votes_granted = {n}
  /\ S2[c].role = "Candidate" /\ S2[c].current_term = U =>
       \A T \in Nat, k \in Nat : T < U /\ k <= A[T][n] /\ Choosable(S, L, A, T, k) => Beyond(S2[c].log, T, k)

\* Granting a vote keeps the invariant, and so does voting for oneself: the
\* up-to-date check of handle_request_vote is what vouches for UpToDate.
LEMMA VoteStep ==
  ASSUME NEW S, NEW E, NEW V, NEW L, NEW A, NEW S2, NEW n \in Nodes, NEW c, NEW U, Core(S, E, V, L, A),
         Voting(S, V, L, A, S2, n, c, U), NEW V2, V2 = Cast(V, n, c, U)
  PROVE  Core(S2, E, V2, L, A) /\ Evolves(S, E, V, L, A, S2, E, V2, L, A) /\ V2[U][n] = c
<1>1. Typed(S) /\ LogMap(L) /\ Counts(A) /\ LeaderLogs(L) /\ c \in Nodes /\ U \in Nat
  BY DEF Core, Ghosts, Voting
<1>2. \A p \in Nodes : p # n => S2[p] = S[p]
  BY DEF Voting, Moved
<1>3. Typed(S2)
  BY <1>1, <1>2 DEF Typed, Voting
<1>4. \A p \in Nodes : S2[p].log = S[p].log /\ S2[p].commit_index = S[p].commit_index
  BY <1>2 DEF Voting
<1>5. \A p \in Nodes : /\ S[p].current_term \in Nat /\ S2[p].current_term \in Nat /\ S[p].log \in Seq(Entries)
                       /\ S[p].current_term <= S2[p].current_term
  BY <1>1, <1>2, <1>3 DEF Voting, Typed, NodeOK
<1>6. TermsGrow(S, S2)
  BY <1>5 DEF TermsGrow
<1>7. VotesGrow(V, V) /\ LogsGrow(L, L) /\ CountsGrow(S, A, A)
  BY <1>1, SameGrow
<1>8. ASSUME NEW T \in Nat, NEW k \in Nat, Choosable(S2, L, A, T, k) PROVE Choosable(S, L, A, T, k)
  <2>1. k <= Len(L[T])
    BY <1>8 DEF Choosable
  <2> QED BY <1>1, <1>3, <1>6, <1>7, <1>8, <2>1, ChoosableBefore
<1>9. V2[U][n] = c /\ \A T \in Nat, p \in Nodes : ~(T = U /\ p = n) => V2[T][p] = V[T][p]
  BY <1>1 DEF Cast
<1>10. V[U][n] # Nil => V[U][n] = c
  BY DEF Voting
<1>11. ASSUME NEW T \in Nat, NEW p \in Nodes, V[T][p] # Nil PROVE V2[T][p] = V[T][p]
  BY <1>9, <1>10, <1>11
<1>12. VotesGrow(V, V2)
  BY <1>11 DEF VotesGrow
<1>13. c # Nil
  BY <1>1, NodesAssumption
<1>14. VotesKept(S, V)
  BY DEF Core
<1>15. VotesKept(S2, V2)
  <2>1. ASSUME NEW p \in Nodes PROVE V2[S2[p].current_term][p] = S2[p].voted_for
    <3>1. CASE p = n
      BY <1>9, <3>1 DEF Voting
    <3>2. CASE p # n
      BY <1>2, <1>5, <1>9, <1>14, <3>2 DEF VotesKept
    <3> QED BY <3>1, <3>2
  <2>2. ASSUME NEW T \in Nat, NEW p \in Nodes, V2[T][p] # Nil
        PROVE  V2[T][p] \in Nodes /\ T <= S2[p].current_term /\ T <= S2[V2[T][p]].current_term
    <3>1. CASE T = U /\ p = n
      <4>1. V2[T][p] = c /\ S2[p].current_term = U /\ U <= S2[c].current_term
        BY <1>9, <3>1 DEF Voting
      <4> QED BY <1>1, <3>1, <4>1
    <3>2. CASE ~(T = U /\ p = n)
      <4>1. V2[T][p] = V[T][p]
        BY <1>9, <3>2
      <4>2. V[T][p] \in Nodes /\ T <= S[p].current_term /\ T <= S[V[T][p]].current_term
        BY <1>14, <2>2, <4>1 DEF VotesKept
      <4>3. PICK d \in Nodes : d = V[T][p]
        BY <4>2
      <4> QED BY <1>5, <4>1, <4>2, <4>3
    <3> QED BY <3>1, <3>2
  <2> QED BY <2>1, <2>2 DEF VotesKept
<1>16. ASSUME NEW p \in Nodes, S2[p].role # "Follower"
       PROVE  \/ S2[p] = S[p] /\ p # n
              \/ p = n /\ S2[p].role = "Candidate" /\ c = n /\ S[n].current_term < U
  BY <1>2, <1>16 DEF Voting
<1>17. WonVotes(S2, E, V2)
  <2>1. WonVotes(S, E, V)
    BY DEF Core
  <2>2. ASSUME NEW T \in Nat, NEW d \in Nodes, <<T, d>> \in E
        PROVE  /\ T <= S2[d].current_term /\ (S2[d].current_term = T => S2[d].role # "Candidate")
               /\ Elected(V2, T, d)
    <3>1. T <= S[d].current_term /\ (S[d].current_term = T => S[d].role # "Candidate") /\ Elected(V, T, d)
      BY <2>1, <2>2 DEF WonVotes
    <3>2. PICK Q \in Quorums : \A q \in Q : V[T][q] = d
      BY <3>1 DEF Elected
    <3>3. \A q \in Q : V2[T][q] = d
      <4>1. Q \subseteq Nodes /\ d # Nil
        BY NodesAssumption DEF Quorums
      <4> QED BY <1>11, <3>2, <4>1
    <3>4. Elected(V2, T, d)
      BY <3>3 DEF Elected
    <3>5. T <= S2[d].current_term
      BY <1>5, <3>1
    <3>6. ASSUME S2[d].current_term = T, S2[d].role = "Candidate" PROVE FALSE
      <4>1. CASE S2[d] = S[d]
        BY <3>1, <3>6, <4>1
      <4>2. CASE d = n /\ S[n].current_term < U
        <5>1. S2[n].current_term = U
          BY DEF Voting
        <5> QED BY <1>1, <1>5, <3>1, <3>6, <4>2, <5>1
      <4> QED BY <1>16, <3>6, <4>1, <4>2
    <3> QED BY <3>4, <3>5, <3>6
  <2> QED BY <2>1, <2>2 DEF WonVotes
<1>18. Campaigning(S2, V2)
  <2>1. Campaigning(S, V)
    BY DEF Core
  <2> SUFFICES ASSUME NEW p \in Nodes, S2[p].role = "Candidate"
               PROVE  S2[p].current_term \in Terms /\ \A q \in S2[p].votes_granted : V2[S2[p].current_term][q] = p
    BY DEF Campaigning
  <2>2. CASE S2[p] = S[p] /\ p # n
    <3>1. S[p].current_term \in Terms /\ \A q \in S[p].votes_granted : V[S[p].current_term][q] = p
      BY <2>1, <2>2 DEF Campaigning
    <3>2. ASSUME NEW q \in S[p].votes_granted PROVE V2[S[p].current_term][q] = p
      <4>1. q \in Nodes /\ p # Nil /\ S[p].current_term \in Nat
        BY <1>1, <1>5, NodesAssumption DEF Typed, NodeOK
      <4> QED BY <1>11, <3>1, <4>1
    <3> QED BY <2>2, <3>1, <3>2
  <2>3. CASE p = n /\ c = n /\ S[n].current_term < U
    <3>1. S2[n].votes_granted = {n} /\ U \in Terms /\ S2[n].current_term = U
      BY <2>3 DEF Voting
    <3> QED BY <1>9, <2>3, <3>1
  <2> QED BY <1>16, <2>2, <2>3
<1>19. NodeLogs(S2, L)
  <2> SUFFICES ASSUME NEW p \in Nodes PROVE Match(S2[p].log, L) /\ Below(S2[p].log, S2[p].current_term)
    BY DEF NodeLogs
  <2>1. Match(S[p].log, L) /\ Below(S[p].log, S[p].current_term)
    BY DEF Core, NodeLogs
  <2>2. Below(S[p].log, S2[p].current_term)
    BY <1>5, <2>1, EntryTerm DEF Below
  <2> QED BY <1>4, <2>1, <2>2
<1>20. Leading(S2, E, L, A)
  <2> SUFFICES ASSUME NEW p \in Nodes, S2[p].role = "Leader" PROVE Leads(S2[p], p, E, L, A)
    BY DEF Leading
  <2>1. S2[p] = S[p]
    BY <1>16
  <2> QED BY <2>1 DEF Core, Leading
<1>21. Accepting(S2, L, A)
  <2> SUFFICES ASSUME NEW T \in Nat, NEW p \in Nodes
               PROVE  A[T][p] <= Len(L[T]) /\ (A[T][p] > 0 => T <= S2[p].current_term)
    BY DEF Accepting
  <2>1. A[T][p] <= Len(L[T]) /\ (A[T][p] > 0 => T <= S[p].current_term)
    BY DEF Core, Accepting
  <2> QED BY <1>5, <2>1
<1>22. Complete(S2, E, L, A)
  BY <1>8 DEF Core, Complete
<1>23. Holding(S2, L, A)
  BY <1>4, <1>8 DEF Core, Holding
<1>24. UpToDate(S2, V2, L, A)
  <2> SUFFICES ASSUME NEW d \in Nodes, NEW q \in Nodes, NEW T \in Nat, NEW k \in Nat,
                      S2[d].role = "Candidate", V2[S2[d].current_term][q] = d, T < S2[d].current_term,
                      k <= A[T][q], Choosable(S2, L, A, T, k)
               PROVE  Beyond(S2[d].log, T, k)
    BY DEF UpToDate
  <2>1. Choosable(S, L, A, T, k)
    BY <1>8
  <2>2. CASE S2[d].current_term = U /\ q = n
    <3>1. d = c
      BY <1>9, <2>2
    <3> QED BY <2>1, <2>2, <3>1 DEF Voting
  <2>3. CASE ~(S2[d].current_term = U /\ q = n)
    <3>1. V[S2[d].current_term][q] = d
      BY <1>5, <1>9, <2>3
    <3>2. S2[d] = S[d]
      <4> SUFFICES ASSUME d = n, S[n].current_term < U PROVE FALSE
        BY <1>16
      <4>1. S2[d].current_term = U /\ d # Nil
        BY NodesAssumption DEF Voting
      <4>2. U <= S[d].current_term
        BY <1>1, <1>14, <3>1, <4>1 DEF VotesKept
      <4> QED BY <1>1, <1>5, <4>2
    <3> QED BY <2>1, <3>1, <3>2 DEF Core, UpToDate
  <2> QED BY <2>2, <2>3
<1>25. CommitsSafe(S2, L, A)
  <2> SUFFICES ASSUME NEW p \in Nodes PROVE Safe(L, A, S2[p].log, S2[p].commit_index, S2[p].current_term)
    BY DEF CommitsSafe
  <2>1. Safe(L, A, S[p].log, S[p].commit_index, S[p].current_term) /\ S[p].commit_index \in Nat
    BY <1>1 DEF Core, CommitsSafe, Typed, NodeOK
  <2>2. Safe(L, A, S[p].log, S[p].commit_index, S2[p].current_term)
    BY <1>1, <1>5, <1>7, <2>1, SafeStays
  <2> QED BY <1>4, <2>2
<1>26. CandidatesKeep(S, S2)
  <2> SUFFICES ASSUME NEW p \in Nodes, S2[p].role = "Candidate", S2[p].current_term = S[p].current_term
               PROVE  S[p].role = "Candidate" /\ S2[p].log = S[p].log
    BY DEF CandidatesKeep
  <2>1. S2[n].current_term = U
    BY DEF Voting
  <2> QED BY <1>1, <1>4, <1>5, <1>16, <2>1
<1>27. CommitsKeep(S, S2)
  <2> SUFFICES ASSUME NEW p \in Nodes
               PROVE  S[p].commit_index <= S2[p].commit_index /\ Agree(S[p].log, S2[p].log, S[p].commit_index)
    BY DEF CommitsKeep
  <2>1. S[p].commit_index \in Nat /\ Safe(L, A, S[p].log, S[p].commit_index, S[p].current_term)
    BY <1>1 DEF Typed, NodeOK, Core, CommitsSafe
  <2>2. S[p].commit_index <= Len(S[p].log)
    BY <1>5, <2>1, SafeWithin
  <2>3. Agree(S[p].log, S2[p].log, S[p].commit_index)
    BY <1>4, <2>2, AgreeSelf
  <2> QED BY <1>4, <2>1, <2>3
<1>28. Ghosts(L, A) /\ Unwon(E, L)
  BY DEF Core
<1>29. Core(S2, E, V2, L, A)
  BY <1>3, <1>15, <1>17, <1>18, <1>19, <1>20, <1>21, <1>22, <1>23, <1>24, <1>25, <1>28 DEF Core
<1>30. Evolves(S, E, V, L, A, S2, E, V2, L, A)
  BY <1>6, <1>7, <1>12, <1>26, <1>27 DEF Evolves
<1> QED BY <1>9, <1>29, <1>30

-----------------------------------------------------------------------------
(* A node that leads, and lengthens its log.                               *)

\* A log keeps matching while the leaders' logs grow.
LEMMA MatchGrows ==
  ASSUME NEW L, NEW L2, LogMap(L), LogMap(L2), LogsGrow(L, L2), NEW X \in Seq(Entries), Match(X, L)
  PROVE  Match(X, L2)
<1> SUFFICES ASSUME NEW i \in 1 .. Len(X) PROVE Agree(X, L2[X[i].term], i)
  BY DEF Match
<1>1. PICK T \in Nat : T = X[i].term
  BY EntryTerm
<1>2. i \in Nat /\ Agree(X, L[T], i) /\ Len(L[T]) \in Nat /\ Len(L2[T]) \in Nat /\ i <= Len(L[T])
  BY <1>1, LogAt DEF Match, Agree
<1>3. Agree(L[T], L2[T], Len(L[T]))
  BY DEF LogsGrow
<1>4. Agree(L[T], L2[T], i)
  BY <1>2, <1>3, AgreeLess
<1> QED BY <1>1, <1>2, <1>4, AgreeOn

\* A matching log is sorted by term.
LEMMA MatchSorted ==
  ASSUME NEW L, LogMap(L), \A W \in Nat : Sorted(L[W]), NEW X \in Seq(Entries), Match(X, L)
  PROVE  Sorted(X)
<1> SUFFICES ASSUME NEW i \in 1 .. Len(X), NEW j \in 1 .. Len(X), i <= j PROVE X[i].term <= X[j].term
  BY DEF Sorted
<1>1. PICK W \in Nat : W = X[j].term
  BY EntryTerm
<1>2. Agree(X, L[W], j) /\ Len(L[W]) \in Nat
  BY <1>1, LogAt DEF Match
<1>3. i \in 1 .. Len(L[W]) /\ j \in 1 .. Len(L[W]) /\ L[W][i] = X[i] /\ L[W][j] = X[j]
  BY <1>2 DEF Agree
<1>4. Sorted(L[W])
  OBVIOUS
<1>5. L[W][i].term <= L[W][j].term
  BY <1>3, <1>4 DEF Sorted
<1> QED BY <1>3, <1>5

\* Y is X with entries of term U added.
Grown(X, Y, U) ==
  /\ Agree(X, Y, Len(X))
  /\ \A i \in 1 .. Len(Y) : i > Len(X) => Y[i].term = U

\* A leader's log with entries of its own term added still matches.
LEMMA GrownLog ==
  ASSUME NEW L, NEW L2, LogMap(L), LogMap(L2), LogsGrow(L, L2), NEW X \in Seq(Entries), Match(X, L),
         \A W \in Nat : Sorted(L[W]), NEW U \in Nat, Below(X, U), NEW Y \in Seq(Entries), Grown(X, Y, U),
         L2[U] = Y
  PROVE  Match(Y, L2) /\ Sorted(Y) /\ Below(Y, U)
<1>1. PICK n : n = Len(X)
  OBVIOUS
<1>2. n \in Nat /\ n <= Len(Y) /\ Agree(X, Y, n) /\ Len(Y) \in Nat
  BY <1>1 DEF Grown, Agree
<1>3. \A i \in 1 .. Len(Y) : i > n => Y[i].term = U
  BY <1>1 DEF Grown
<1>4. \A i \in 1 .. n : X[i] = Y[i]
  BY <1>2 DEF Agree
<1>5. \A i \in 1 .. n : X[i].term <= U
  BY <1>1 DEF Below
<1>6. Match(X, L2) /\ Sorted(X)
  BY MatchGrows, MatchSorted
<1>7. \A i, j \in 1 .. n : i <= j => X[i].term <= X[j].term
  BY <1>1, <1>6 DEF Sorted
<1>8. ASSUME NEW i \in 1 .. Len(Y) PROVE Agree(Y, L2[Y[i].term], i)
  <2>1. i \in Nat
    OBVIOUS
  <2>2. CASE i <= n
    <3>1. i \in 1 .. n
      BY <2>1, <2>2
    <3>2. Agree(X, L2[X[i].term], i)
      BY <1>1, <1>6, <3>1 DEF Match
    <3>3. Agree(X, Y, i)
      BY <1>1, <1>2, <2>1, <2>2, AgreeLess
    <3>4. Agree(Y, X, i)
      BY <3>3, AgreeBack
    <3> QED BY <1>4, <3>1, <3>2, <3>4, AgreeOn
  <2>3. CASE ~(i <= n)
    <3>1. Y[i].term = U
      BY <1>2, <1>3, <2>1, <2>3
    <3>2. i <= Len(Y)
      BY <1>2
    <3> QED BY <3>1, <3>2, AgreeSelf
  <2> QED BY <2>2, <2>3
<1>9. Match(Y, L2)
  BY <1>8 DEF Match
<1>10. ASSUME NEW i \in 1 .. Len(Y) PROVE Y[i].term <= U /\ Y[i].term \in Nat
  <2>1. CASE i <= n
    <3>1. i \in 1 .. n
      BY <1>2, <2>1
    <3> QED BY <1>4, <1>5, <3>1, EntryTerm
  <2>2. CASE ~(i <= n)
    BY <1>2, <1>3, <2>2
  <2> QED BY <2>1, <2>2
<1>11. ASSUME NEW i \in 1 .. Len(Y), NEW j \in 1 .. Len(Y), i <= j PROVE Y[i].term <= Y[j].term
  <2>1. CASE j <= n
    <3>1. i \in 1 .. n /\ j \in 1 .. n
      BY <1>2, <1>11, <2>1
    <3> QED BY <1>4, <1>7, <1>11, <3>1
  <2>2. CASE ~(j <= n)
    BY <1>2, <1>3, <1>10, <2>2
  <2> QED BY <2>1, <2>2
<1> QED BY <1>9, <1>10, <1>11 DEF Sorted, Below

Recorded(L, U, Y) == [T \in Nat |-> IF T = U THEN Y ELSE L[T]]
Raised(A, n, U, w) == [T \in Nat |-> [p \in Nodes |-> IF T = U /\ p = n THEN w ELSE A[T][p]]]

\* X holds all that may be chosen in a term before U.
HoldsAll(S, L, A, X, U) ==
  \A T \in Nat, k \in Nat : T < U /\ Choosable(S, L, A, T, k) => Agree(L[T], X, k)
LeadsOn(S, E, V, L, A, S2, n, U) ==
  /\ Moved(S, S2, n) /\ NodeOK(S2[n], n) /\ U \in Terms
  /\ S[n].current_term = U /\ S2[n].current_term = U /\ S2[n].voted_for = S[n].voted_for
  /\ S2[n].role = "Leader" /\ S2[n].commit_index = S[n].commit_index
  /\ Elected(V, U, n) /\ Grown(S[n].log, S2[n].log, U)
  /\ Agree(L[U], S[n].log, Len(L[U]))
  /\ HoldsAll(S, L, A, S[n].log, U)
  /\ Indices(S2[n], Raised(A, n, U, Len(S2[n].log)))

Wins(E, L, A, n, U, Y, E2, L2, A2) ==
  E2 = E \cup {<<U, n>>} /\ L2 = Recorded(L, U, Y) /\ A2 = Raised(A, n, U, Len(Y))

\* Winning, or appending as the leader (become_leader, propose), keeps the
\* invariant: a leader holds all that may have been chosen.
LEMMA LeadStep ==
  ASSUME NEW S, NEW E, NEW V, NEW L, NEW A, NEW S2, NEW n \in Nodes, NEW U, Core(S, E, V, L, A),
         LeadsOn(S, E, V, L, A, S2, n, U),
         NEW E2, NEW L2, NEW A2, Wins(E, L, A, n, U, S2[n].log, E2, L2, A2)
  PROVE  Core(S2, E2, V, L2, A2) /\ Evolves(S, E, V, L, A, S2, E2, V, L2, A2)
<1> E2 = E \cup {<<U, n>>} /\ L2 = Recorded(L, U, S2[n].log) /\ A2 = Raised(A, n, U, Len(S2[n].log))
  BY DEF Wins
<1>1. Typed(S) /\ LogMap(L) /\ Counts(A) /\ LeaderLogs(L) /\ U \in Nat /\ U \in Terms
  BY TermsAreNumbers DEF Core, Ghosts, LeadsOn
<1>2. \A p \in Nodes : p # n => S2[p] = S[p]
  BY DEF LeadsOn, Moved
<1>3. Typed(S2)
  BY <1>1, <1>2 DEF Typed, LeadsOn
<1>4. PICK X \in Seq(Entries), Y \in Seq(Entries) : X = S[n].log /\ Y = S2[n].log
  BY <1>1, <1>3 DEF Typed, NodeOK
<1>5. \A p \in Nodes : /\ S[p].current_term \in Nat /\ S2[p].current_term = S[p].current_term
                       /\ S[p].log \in Seq(Entries) /\ S2[p].voted_for = S[p].voted_for
                       /\ S2[p].commit_index = S[p].commit_index /\ S[p].commit_index \in Nat
  BY <1>1, <1>2 DEF LeadsOn, Typed, NodeOK
<1>6. TermsGrow(S, S2)
  BY <1>5 DEF TermsGrow
<1>7. /\ S[n].current_term = U /\ S2[n].role = "Leader" /\ Elected(V, U, n) /\ Grown(X, Y, U)
      /\ Agree(L[U], X, Len(L[U])) /\ Agree(X, Y, Len(X)) /\ Len(X) \in Nat /\ Len(Y) \in Nat
  BY <1>4 DEF LeadsOn, Grown
<1>8. L2[U] = Y /\ \A T \in Nat : T # U => L2[T] = L[T]
  BY <1>1, <1>4 DEF Recorded
<1>9. A2[U][n] = Len(Y) /\ \A T \in Nat, p \in Nodes : ~(T = U /\ p = n) => A2[T][p] = A[T][p]
  BY <1>1, <1>4 DEF Raised
<1>10. LogMap(L2)
  BY <1>1, <1>8 DEF LogMap
<1>11. Counts(A2)
  BY <1>1, <1>7, <1>9 DEF Counts
<1>12. \A T \in Nat : Len(L[T]) \in Nat /\ Len(L2[T]) \in Nat
  BY <1>1, <1>10, LogAt
<1>13. \A k \in Nat : k <= Len(X) => Agree(X, Y, k)
  BY <1>7, AgreeLess
<1>14. Len(L[U]) <= Len(X) /\ Len(X) <= Len(Y)
  BY <1>7 DEF Agree
<1>15. LogsGrow(L, L2)
  <2> SUFFICES ASSUME NEW T \in Nat PROVE Agree(L[T], L2[T], Len(L[T]))
    BY DEF LogsGrow
  <2>1. CASE T = U
    <3>1. Agree(X, Y, Len(L[U]))
      BY <1>1, <1>12, <1>13, <1>14
    <3> QED BY <1>7, <1>8, <2>1, <3>1, AgreeOn
  <2>2. CASE T # U
    BY <1>8, <1>12, <2>2, AgreeSelf
  <2> QED BY <2>1, <2>2
<1>16. \A T \in Nat, p \in Nodes : A[T][p] \in Nat /\ A[T][p] <= Len(L[T]) /\ (A[T][p] > 0 => T <= S[p].current_term)
  BY <1>1 DEF Core, Accepting, Counts
<1>17. CountsGrow(S, A, A2)
  <2> SUFFICES ASSUME NEW T \in Nat, NEW p \in Nodes
               PROVE  A[T][p] <= A2[T][p] /\ (A[T][p] < A2[T][p] => S[p].current_term <= T)
    BY DEF CountsGrow
  <2>1. CASE T = U /\ p = n
    BY <1>5, <1>7, <1>9, <1>12, <1>14, <1>16, <2>1
  <2>2. CASE ~(T = U /\ p = n)
    BY <1>9, <1>16, <2>2
  <2> QED BY <2>1, <2>2
<1>18. ASSUME NEW T \in Nat, NEW k \in Nat, k <= Len(L[T]), Choosable(S2, L2, A2, T, k)
       PROVE  Choosable(S, L, A, T, k) /\ Agree(L[T], L2[T], k)
  <2>1. Choosable(S, L, A, T, k)
    BY <1>1, <1>3, <1>6, <1>10, <1>11, <1>15, <1>17, <1>18, ChoosableBefore
  <2>2. Agree(L[T], L2[T], Len(L[T]))
    BY <1>15 DEF LogsGrow
  <2> QED BY <1>12, <1>18, <2>1, <2>2, AgreeLess
<1>19. \A W \in Nat : Sorted(L[W])
  BY <1>1 DEF LeaderLogs
<1>20. Match(X, L) /\ Below(X, U)
  BY <1>4, <1>7 DEF Core, NodeLogs
<1>21. Match(Y, L2) /\ Sorted(Y) /\ Below(Y, U)
  BY <1>1, <1>7, <1>8, <1>10, <1>15, <1>19, <1>20, GrownLog
<1>22. LeaderLogs(L2)
  <2> SUFFICES ASSUME NEW T \in Nat PROVE Match(L2[T], L2) /\ Sorted(L2[T]) /\ Below(L2[T], T)
    BY DEF LeaderLogs
  <2>1. CASE T = U
    BY <1>8, <1>21, <2>1
  <2>2. CASE T # U
    <3>1. Match(L[T], L) /\ Sorted(L[T]) /\ Below(L[T], T) /\ L[T] \in Seq(Entries)
      BY <1>1, LogAt DEF LeaderLogs
    <3>2. Match(L[T], L2)
      BY <1>1, <1>10, <1>15, <3>1, MatchGrows
    <3> QED BY <1>8, <2>2, <3>1, <3>2
  <2> QED BY <2>1, <2>2
<1>23. VotesKept(S2, V)
  <2>1. \A p \in Nodes : V[S2[p].current_term][p] = S2[p].voted_for
    BY <1>5 DEF Core, VotesKept
  <2>2. ASSUME NEW T \in Nat, NEW p \in Nodes, V[T][p] # Nil
        PROVE  V[T][p] \in Nodes /\ T <= S2[p].current_term /\ T <= S2[V[T][p]].current_term
    <3>1. V[T][p] \in Nodes /\ T <= S[p].current_term /\ T <= S[V[T][p]].current_term
      BY <2>2 DEF Core, VotesKept
    <3> QED BY <1>5, <3>1
  <2> QED BY <2>1, <2>2 DEF VotesKept
<1>24. WonVotes(S2, E2, V)
  <2>1. WonVotes(S, E, V)
    BY DEF Core
  <2>2. E2 \subseteq Terms \X Nodes
    BY <1>1, <2>1 DEF WonVotes
  <2>3. ASSUME NEW T \in Nat, NEW d \in Nodes, <<T, d>> \in E2
        PROVE  /\ T <= S2[d].current_term /\ (S2[d].current_term = T => S2[d].role # "Candidate")
               /\ Elected(V, T, d)
    <3>1. CASE <<T, d>> \in E
      <4>1. T <= S[d].current_term /\ (S[d].current_term = T => S[d].role # "Candidate") /\ Elected(V, T, d)
        BY <2>1, <3>1 DEF WonVotes
      <4> QED BY <1>2, <1>5, <1>7, <4>1
    <3>2. CASE <<T, d>> = <<U, n>>
      BY <1>1, <1>5, <1>7, <3>2
    <3> QED BY <2>3, <3>1, <3>2
  <2> QED BY <2>2, <2>3 DEF WonVotes
<1>25. ASSUME NEW p \in Nodes, p # n, S[p].role = "Leader" PROVE S[p].current_term # U
  <2>1. <<S[p].current_term, p>> \in E
    BY <1>25 DEF Core, Leading, Leads
  <2>2. Elected(V, S[p].current_term, p)
    BY <1>5, <2>1 DEF Core, WonVotes
  <2> QED BY <1>7, <1>25, <2>2, OneWinner
<1>26. Campaigning(S2, V)
  <2> SUFFICES ASSUME NEW p \in Nodes, S2[p].role = "Candidate"
               PROVE  S2[p].current_term \in Terms /\ \A q \in S2[p].votes_granted : V[S2[p].current_term][q] = p
    BY DEF Campaigning
  <2>1. S2[p] = S[p]
    BY <1>2, <1>7
  <2> QED BY <2>1 DEF Core, Campaigning
<1>27. NodeLogs(S2, L2)
  <2> SUFFICES ASSUME NEW p \in Nodes PROVE Match(S2[p].log, L2) /\ Below(S2[p].log, S2[p].current_term)
    BY DEF NodeLogs
  <2>1. CASE p = n
    BY <1>4, <1>5, <1>7, <1>21, <2>1
  <2>2. CASE p # n
    <3>1. Match(S[p].log, L) /\ Below(S[p].log, S[p].current_term)
      BY DEF Core, NodeLogs
    <3>2. Match(S[p].log, L2)
      BY <1>1, <1>5, <1>10, <1>15, <3>1, MatchGrows
    <3> QED BY <1>2, <2>2, <3>1, <3>2
  <2> QED BY <2>1, <2>2
<1>28. ASSUME NEW T \in Nat, T # U PROVE Won(E2, T) <=> Won(E, T)
  BY <1>28 DEF Won
<1>29. Unwon(E2, L2)
  <2> SUFFICES ASSUME NEW T \in Nat, ~Won(E2, T) PROVE L2[T] = << >>
    BY DEF Unwon
  <2>1. T # U
    BY DEF Won
  <2> QED BY <1>8, <1>28, <2>1 DEF Core, Unwon
<1>30. Leading(S2, E2, L2, A2)
  <2> SUFFICES ASSUME NEW p \in Nodes, S2[p].role = "Leader" PROVE Leads(S2[p], p, E2, L2, A2)
    BY DEF Leading
  <2>1. CASE p = n
    <3>1. Indices(S2[n], A2)
      BY <1>4, <1>7 DEF LeadsOn
    <3>2. <<U, n>> \in E2 /\ S2[n].current_term = U
      BY <1>5, <1>7
    <3> QED BY <1>4, <1>8, <1>9, <2>1, <3>1, <3>2 DEF Leads
  <2>2. CASE p # n
    <3>1. S2[p] = S[p] /\ S[p].current_term # U /\ S[p].current_term \in Nat
      BY <1>2, <1>5, <1>25, <2>2
    <3>2. Leads(S[p], p, E, L, A)
      BY <3>1 DEF Core, Leading
    <3>3. /\ L2[S[p].current_term] = L[S[p].current_term]
          /\ \A q \in Nodes : A2[S[p].current_term][q] = A[S[p].current_term][q]
      BY <1>8, <1>9, <3>1
    <3>4. Indices(S[p], A2)
      BY <3>2, <3>3 DEF Leads, Indices
    <3> QED BY <3>1, <3>2, <3>3, <3>4 DEF Leads
  <2> QED BY <2>1, <2>2
<1>31. Accepting(S2, L2, A2)
  <2> SUFFICES ASSUME NEW T \in Nat, NEW p \in Nodes
               PROVE  A2[T][p] <= Len(L2[T]) /\ (A2[T][p] > 0 => T <= S2[p].current_term)
    BY DEF Accepting
  <2>1. CASE T = U /\ p = n
    BY <1>5, <1>7, <1>8, <1>9, <2>1
  <2>2. CASE ~(T = U /\ p = n)
    <3>1. Len(L[T]) <= Len(L2[T])
      BY <1>15 DEF LogsGrow, Agree
    <3>2. A2[T][p] = A[T][p] /\ S2[p].current_term = S[p].current_term
      BY <1>5, <1>9, <2>2
    <3>3. A[T][p] \in Nat /\ A[T][p] <= Len(L[T]) /\ (A[T][p] > 0 => T <= S[p].current_term)
      BY <1>16
    <3>4. Len(L[T]) \in Nat /\ Len(L2[T]) \in Nat
      BY <1>12
    <3> QED BY <3>1, <3>2, <3>3, <3>4
  <2> QED BY <2>1, <2>2
<1>32. Complete(S2, E2, L2, A2)
  <2> SUFFICES ASSUME NEW T \in Nat, NEW W \in Nat, NEW k \in Nat, T < W, Won(E2, W), Choosable(S2, L2, A2, T, k)
               PROVE  Agree(L2[T], L2[W], k)
    BY DEF Complete
  <2>1. CASE k <= Len(L[T])
    <3>1. Choosable(S, L, A, T, k) /\ Agree(L[T], L2[T], k)
      BY <1>18, <2>1
    <3>2. Agree(L2[T], L[T], k)
      BY <3>1, AgreeBack
    <3>3. CASE W = U
      <4>1. Agree(L[T], X, k)
        BY <1>4, <3>1, <3>3 DEF LeadsOn, HoldsAll
      <4>2. k <= Len(X)
        BY <4>1 DEF Agree
      <4>3. Agree(X, Y, k)
        BY <1>13, <4>2
      <4>4. Agree(L2[T], X, k)
        BY <3>2, <4>1, AgreeOn
      <4> QED BY <1>8, <3>3, <4>3, <4>4, AgreeOn
    <3>4. CASE W # U
      <4>1. Agree(L[T], L[W], k)
        BY <1>28, <3>1, <3>4 DEF Core, Complete
      <4> QED BY <1>8, <3>2, <3>4, <4>1, AgreeOn
    <3> QED BY <3>3, <3>4
  <2>2. CASE ~(k <= Len(L[T]))
    <3>1. k \in 1 .. Len(L2[T])
      BY DEF Choosable
    <3>2. T = U
      BY <1>8, <1>12, <2>2, <3>1
    <3>3. W # U /\ Won(E, W)
      <4>1. W # U
        BY <3>2
      <4> QED BY <1>28, <4>1
    <3>4. PICK d \in Nodes : <<W, d>> \in E
      BY <3>3 DEF Won
    <3>5. PICK P \in Quorums : \A q \in P : V[W][q] = d
      BY <3>4 DEF Core, WonVotes, Elected
    <3>6. PICK Q \in Quorums : \A q \in Q : k <= A2[T][q] \/ S2[q].current_term <= T
      BY DEF Choosable
    <3>7. PICK q \in Nodes : q \in P /\ q \in Q
      BY QuorumsMeet
    <3>8. W <= S[q].current_term
      <4>1. V[W][q] = d /\ d # Nil
        BY <3>5, <3>7, NodesAssumption
      <4> QED BY <4>1 DEF Core, VotesKept
    <3>9. q # n
      BY <1>7, <3>2, <3>8
    <3>10. A2[T][q] = A[T][q] /\ A[T][q] <= Len(L[T]) /\ A[T][q] \in Nat /\ Len(L[T]) \in Nat
      BY <1>9, <1>12, <1>16, <3>9
    <3>11. S2[q].current_term = S[q].current_term /\ S[q].current_term \in Nat
      BY <1>5
    <3>12. k <= A2[T][q] \/ S2[q].current_term <= T
      BY <3>6, <3>7
    <3> QED BY <2>2, <3>8, <3>10, <3>11, <3>12
  <2> QED BY <2>1, <2>2
<1>33. ASSUME NEW T \in Nat, NEW p \in Nodes, NEW k \in Nat, ~(T = U /\ p = n), k <= A2[T][p],
              Choosable(S2, L2, A2, T, k)
       PROVE  k <= A[T][p] /\ Choosable(S, L, A, T, k) /\ Agree(L[T], L2[T], k)
  <2>1. k <= A[T][p] /\ k <= Len(L[T])
    BY <1>9, <1>12, <1>16, <1>33
  <2> QED BY <1>18, <1>33, <2>1
<1>34. Holding(S2, L2, A2)
  <2> SUFFICES ASSUME NEW T \in Nat, NEW p \in Nodes, NEW k \in Nat, k <= A2[T][p], Choosable(S2, L2, A2, T, k)
               PROVE  Agree(S2[p].log, L2[T], k)
    BY DEF Holding
  <2>1. CASE T = U /\ p = n
    <3>1. k <= Len(Y)
      BY <1>9, <2>1
    <3> QED BY <1>4, <1>8, <2>1, <3>1, AgreeSelf
  <2>2. CASE ~(T = U /\ p = n)
    <3>1. k <= A[T][p] /\ Choosable(S, L, A, T, k) /\ Agree(L[T], L2[T], k)
      BY <1>33, <2>2
    <3>2. Agree(S[p].log, L[T], k)
      BY <3>1 DEF Core, Holding
    <3>3. Agree(S[p].log, L2[T], k)
      BY <3>1, <3>2, AgreeOn
    <3>4. CASE p # n
      BY <1>2, <3>3, <3>4
    <3>5. CASE p = n
      <4>1. k <= Len(X)
        BY <1>4, <3>2, <3>5 DEF Agree
      <4>2. Agree(Y, X, k)
        BY <1>13, <4>1, AgreeBack
      <4> QED BY <1>4, <3>3, <3>5, <4>2, AgreeOn
    <3> QED BY <3>4, <3>5
  <2> QED BY <2>1, <2>2
<1>35. UpToDate(S2, V, L2, A2)
  <2> SUFFICES ASSUME NEW d \in Nodes, NEW q \in Nodes, NEW T \in Nat, NEW k \in Nat,
                      S2[d].role = "Candidate", V[S2[d].current_term][q] = d, T < S2[d].current_term,
                      k <= A2[T][q], Choosable(S2, L2, A2, T, k)
               PROVE  Beyond(S2[d].log, T, k)
    BY DEF UpToDate
  <2>1. S2[d] = S[d]
    BY <1>2, <1>7
  <2>2. ~(T = U /\ q = n)
    <3> SUFFICES ASSUME T = U, q = n PROVE FALSE
      OBVIOUS
    <3>1. V[S[d].current_term][n] = d /\ d # Nil /\ S[d].current_term \in Nat
      BY <1>5, <2>1, NodesAssumption
    <3>2. S[d].current_term <= S[n].current_term
      BY <3>1 DEF Core, VotesKept
    <3> QED BY <1>1, <1>7, <2>1, <3>1, <3>2
  <2>3. k <= A[T][q] /\ Choosable(S, L, A, T, k)
    BY <1>33, <2>2
  <2> QED BY <2>1, <2>3 DEF Core, UpToDate
<1>36. ASSUME NEW p \in Nodes
       PROVE  /\ S[p].commit_index <= Len(S[p].log)
              /\ Safe(L2, A2, S[p].log, S[p].commit_index, S[p].current_term)
  <2>1. Safe(L, A, S[p].log, S[p].commit_index, S[p].current_term)
    BY DEF Core, CommitsSafe
  <2>2. S[p].commit_index <= Len(S[p].log)
    BY <1>5, <2>1, SafeWithin
  <2> QED BY <1>1, <1>5, <1>10, <1>11, <1>15, <1>17, <2>1, <2>2, SafeStays
<1>37. ASSUME NEW p \in Nodes PROVE Agree(S[p].log, S2[p].log, S[p].commit_index)
  <2>1. CASE p = n
    BY <1>4, <1>5, <1>13, <1>36, <2>1
  <2>2. CASE p # n
    BY <1>2, <1>36, <2>2, AgreeSelf
  <2> QED BY <2>1, <2>2
<1>38. CommitsSafe(S2, L2, A2)
  <2> SUFFICES ASSUME NEW p \in Nodes PROVE Safe(L2, A2, S2[p].log, S2[p].commit_index, S2[p].current_term)
    BY DEF CommitsSafe
  <2>1. Safe(L2, A2, S2[p].log, S[p].commit_index, S[p].current_term)
    BY <1>36, <1>37, SafeShared
  <2> QED BY <1>5, <2>1
<1>39. CommitsKeep(S, S2)
  BY <1>5, <1>37 DEF CommitsKeep
<1>40. CandidatesKeep(S, S2)
  BY <1>2, <1>7 DEF CandidatesKeep
<1>41. VotesGrow(V, V) /\ E \subseteq E2
  BY DEF VotesGrow
<1>42. Core(S2, E2, V, L2, A2)
  BY <1>3, <1>10, <1>11, <1>22, <1>23, <1>24, <1>26, <1>27, <1>29, <1>30, <1>31, <1>32, <1>34, <1>35, <1>38
     DEF Core, Ghosts
<1>43. Evolves(S, E, V, L, A, S2, E2, V, L2, A2)
  BY <1>6, <1>15, <1>17, <1>39, <1>40, <1>41 DEF Evolves
<1> QED BY <1>42, <1>43

-----------------------------------------------------------------------------
(* A follower that takes over entries of the leader of its term.           *)
Higher(a, w) == IF a < w THEN w ELSE a
Accepts(S, E, L, S2, n, U, w) ==
  /\ Moved(S, S2, n) /\ NodeOK(S2[n], n) /\ U \in Nat /\ w \in Nat /\ Won(E, U)
  /\ S[n].current_term = U /\ S2[n].current_term = U /\ S2[n].voted_for = S[n].voted_for
  /\ S2[n].role = "Follower" /\ S2[n].commit_index = S[n].commit_index
  /\ Match(S2[n].log, L) /\ Agree(S2[n].log, L[U], w) /\ Keeps(S[n].log, S2[n].log, L[U])
  /\ S2[n].log = S[n].log \/ Agree(S2[n].log, L[U], Len(S2[n].log))

\* Taking over entries (handle_append_entries) keeps the invariant: no entry
\* that may be chosen is replaced.
LEMMA AcceptStep ==
  ASSUME NEW S, NEW E, NEW V, NEW L, NEW A, NEW S2, NEW n \in Nodes, NEW U, NEW w, Core(S, E, V, L, A),
         Accepts(S, E, L, S2, n, U, w), NEW A2, A2 = Raised(A, n, U, Higher(A[U][n], w))
  PROVE  /\ Core(S2, E, V, L, A2) /\ Evolves(S, E, V, L, A, S2, E, V, L, A2)
         /\ w <= A2[U][n]
<1>1. Typed(S) /\ LogMap(L) /\ Counts(A) /\ LeaderLogs(L) /\ U \in Nat /\ w \in Nat
  BY DEF Core, Ghosts, Accepts
<1>2. \A p \in Nodes : p # n => S2[p] = S[p]
  BY DEF Accepts, Moved
<1>3. Typed(S2)
  BY <1>1, <1>2 DEF Typed, Accepts
<1>4. PICK X \in Seq(Entries), R \in Seq(Entries) : X = S[n].log /\ R = S2[n].log
  BY <1>1, <1>3 DEF Typed, NodeOK
<1>5. \A p \in Nodes : /\ S[p].current_term \in Nat /\ S2[p].current_term = S[p].current_term
                       /\ S[p].log \in Seq(Entries) /\ S2[p].voted_for = S[p].voted_for
                       /\ S2[p].commit_index = S[p].commit_index /\ S[p].commit_index \in Nat
  BY <1>1, <1>2 DEF Accepts, Typed, NodeOK
<1>6. TermsGrow(S, S2)
  BY <1>5 DEF TermsGrow
<1>7. PICK Y \in Seq(Entries) : Y = L[U]
  BY <1>1, LogAt
<1>8. /\ S[n].current_term = U /\ S2[n].role = "Follower" /\ Match(R, L) /\ Agree(R, Y, w)
      /\ (R = X \/ Agree(R, Y, Len(R)))
      /\ Len(X) \in Nat /\ Len(R) \in Nat /\ Len(Y) \in Nat
  BY <1>4, <1>7 DEF Accepts
<1>9. ASSUME NEW k \in Nat, Agree(X, Y, k) PROVE Agree(R, Y, k)
  BY <1>4, <1>7, <1>9 DEF Accepts, Keeps
<1>10. \A T \in Nat, p \in Nodes : A[T][p] \in Nat /\ A[T][p] <= Len(L[T]) /\ (A[T][p] > 0 => T <= S[p].current_term)
  BY <1>1 DEF Core, Accepting, Counts
<1>11. PICK v : v = Higher(A[U][n], w)
  OBVIOUS
<1>12. v \in Nat /\ A[U][n] <= v /\ w <= v /\ (v = A[U][n] \/ v = w) /\ v <= Len(Y)
  <2>1. A[U][n] \in Nat /\ A[U][n] <= Len(Y) /\ w <= Len(Y)
    BY <1>1, <1>7, <1>8, <1>10 DEF Agree
  <2> QED BY <1>1, <1>11, <2>1 DEF Higher
<1>13. A2[U][n] = v /\ \A T \in Nat, p \in Nodes : ~(T = U /\ p = n) => A2[T][p] = A[T][p]
  BY <1>1, <1>11 DEF Raised
<1>14. Counts(A2)
  BY <1>1, <1>12, <1>13 DEF Counts
<1>15. VotesGrow(V, V) /\ LogsGrow(L, L)
  BY <1>1, SameGrow
<1>16. CountsGrow(S, A, A2)
  <2> SUFFICES ASSUME NEW T \in Nat, NEW p \in Nodes
               PROVE  A[T][p] <= A2[T][p] /\ (A[T][p] < A2[T][p] => S[p].current_term <= T)
    BY DEF CountsGrow
  <2>1. CASE T = U /\ p = n
    BY <1>1, <1>8, <1>12, <1>13, <2>1
  <2>2. CASE ~(T = U /\ p = n)
    <3>1. A2[T][p] = A[T][p] /\ A[T][p] \in Nat
      BY <1>10, <1>13, <2>2
    <3> QED BY <3>1
  <2> QED BY <2>1, <2>2
<1>17. ASSUME NEW T \in Nat, NEW k \in Nat, Choosable(S2, L, A2, T, k) PROVE Choosable(S, L, A, T, k)
  <2>1. k <= Len(L[T])
    BY <1>17 DEF Choosable
  <2> QED BY <1>1, <1>3, <1>6, <1>14, <1>15, <1>16, <1>17, <2>1, ChoosableBefore
<1>18. ASSUME NEW T \in Nat, T < U, NEW k \in Nat, Choosable(S, L, A, T, k) PROVE Agree(L[T], Y, k)
  <2>1. Won(E, U)
    BY DEF Accepts
  <2> QED BY <1>1, <1>7, <1>18, <2>1 DEF Core, Complete
<1>19. VotesKept(S2, V)
  <2>1. \A p \in Nodes : V[S2[p].current_term][p] = S2[p].voted_for
    BY <1>5 DEF Core, VotesKept
  <2>2. ASSUME NEW T \in Nat, NEW p \in Nodes, V[T][p] # Nil
        PROVE  V[T][p] \in Nodes /\ T <= S2[p].current_term /\ T <= S2[V[T][p]].current_term
    <3>1. V[T][p] \in Nodes /\ T <= S[p].current_term /\ T <= S[V[T][p]].current_term
      BY <2>2 DEF Core, VotesKept
    <3> QED BY <1>5, <3>1
  <2> QED BY <2>1, <2>2 DEF VotesKept
<1>20. WonVotes(S2, E, V)
  <2>1. WonVotes(S, E, V)
    BY DEF Core
  <2>2. ASSUME NEW T \in Nat, NEW d \in Nodes, <<T, d>> \in E
        PROVE  /\ T <= S2[d].current_term /\ (S2[d].current_term = T => S2[d].role # "Candidate")
               /\ Elected(V, T, d)
    <3>1. T <= S[d].current_term /\ (S[d].current_term = T => S[d].role # "Candidate") /\ Elected(V, T, d)
      BY <2>1, <2>2 DEF WonVotes
    <3> QED BY <1>2, <1>5, <1>8, <3>1
  <2> QED BY <2>1, <2>2 DEF WonVotes
<1>21. Campaigning(S2, V)
  <2> SUFFICES ASSUME NEW p \in Nodes, S2[p].role = "Candidate"
               PROVE  S2[p].current_term \in Terms /\ \A q \in S2[p].votes_granted : V[S2[p].current_term][q] = p
    BY DEF Campaigning
  <2>1. S2[p] = S[p]
    BY <1>2, <1>8
  <2> QED BY <2>1 DEF Core, Campaigning
<1>22. NodeLogs(S2, L)
  <2> SUFFICES ASSUME NEW p \in Nodes PROVE Match(S2[p].log, L) /\ Below(S2[p].log, S2[p].current_term)
    BY DEF NodeLogs
  <2>1. CASE p # n
    BY <1>2, <2>1 DEF Core, NodeLogs
  <2>2. CASE p = n
    <3>1. Below(X, U) /\ Below(Y, U)
      BY <1>1, <1>4, <1>7, <1>8 DEF Core, NodeLogs, LeaderLogs
    <3>2. Below(R, U)
      <4>1. CASE R = X
        BY <3>1, <4>1
      <4>2. CASE Agree(R, Y, Len(R))
        BY <1>8, <3>1, <4>2 DEF Below, Agree
      <4> QED BY <1>8, <4>1, <4>2
    <3> QED BY <1>4, <1>5, <1>8, <2>2, <3>2
  <2> QED BY <2>1, <2>2
<1>23. Unwon(E, L)
  BY DEF Core
<1>24. Leading(S2, E, L, A2)
  <2> SUFFICES ASSUME NEW p \in Nodes, S2[p].role = "Leader" PROVE Leads(S2[p], p, E, L, A2)
    BY DEF Leading
  <2>1. p # n /\ S2[p] = S[p] /\ S[p].current_term \in Nat
    BY <1>2, <1>5, <1>8
  <2>2. Leads(S[p], p, E, L, A)
    BY <2>1 DEF Core, Leading
  <2>3. A2[S[p].current_term][p] = A[S[p].current_term][p]
    BY <1>13, <2>1
  <2>4. \A q \in Nodes : /\ A[S[p].current_term][q] <= A2[S[p].current_term][q]
                         /\ A[S[p].current_term][q] \in Nat /\ A2[S[p].current_term][q] \in Nat
    BY <1>1, <1>14, <1>16, <2>1 DEF CountsGrow, Counts
  <2>5. Indices(S[p], A2)
    <3> SUFFICES ASSUME NEW q \in Nodes
                 PROVE  /\ S[p].match_index[q] \in Nat /\ S[p].match_index[q] <= A2[S[p].current_term][q]
                        /\ S[p].next_index[q] \in 1 .. Len(S[p].log) + 1
      BY DEF Indices
    <3>1. /\ S[p].match_index[q] \in Nat /\ S[p].match_index[q] <= A[S[p].current_term][q]
          /\ S[p].next_index[q] \in 1 .. Len(S[p].log) + 1
      BY <2>2 DEF Leads, Indices
    <3>2. PICK a \in Nat, b \in Nat : a = A[S[p].current_term][q] /\ b = A2[S[p].current_term][q] /\ a <= b
      BY <2>4
    <3> QED BY <3>1, <3>2
  <2> QED BY <2>1, <2>2, <2>3, <2>5 DEF Leads
<1>25. Accepting(S2, L, A2)
  <2> SUFFICES ASSUME NEW T \in Nat, NEW p \in Nodes
               PROVE  A2[T][p] <= Len(L[T]) /\ (A2[T][p] > 0 => T <= S2[p].current_term)
    BY DEF Accepting
  <2>1. CASE T = U /\ p = n
    BY <1>5, <1>7, <1>8, <1>12, <1>13, <2>1
  <2>2. CASE ~(T = U /\ p = n)
    <3>1. A2[T][p] = A[T][p] /\ S2[p].current_term = S[p].current_term
      BY <1>5, <1>13, <2>2
    <3> QED BY <1>10, <3>1
  <2> QED BY <2>1, <2>2
<1>26. Complete(S2, E, L, A2)
  <2> SUFFICES ASSUME NEW T \in Nat, NEW W \in Nat, NEW k \in Nat, T < W, Won(E, W), Choosable(S2, L, A2, T, k)
               PROVE  Agree(L[T], L[W], k)
    BY DEF Complete
  <2>1. Choosable(S, L, A, T, k)
    BY <1>17
  <2> QED BY <2>1 DEF Core, Complete
<1>27. ASSUME NEW T \in Nat, NEW k \in Nat, k <= A[T][n], Choosable(S, L, A, T, k) PROVE Agree(R, L[T], k)
  <2>1. Agree(X, L[T], k)
    BY <1>4, <1>27 DEF Core, Holding
  <2>2. T <= U
    <3>1. k > 0
      BY <1>27 DEF Choosable
    <3>2. A[T][n] \in Nat /\ (A[T][n] > 0 => T <= U)
      BY <1>8, <1>10
    <3> QED BY <1>27, <3>1, <3>2
  <2>3. CASE T = U
    BY <1>7, <1>9, <2>1, <2>3
  <2>4. CASE T < U
    <3>1. Agree(L[T], Y, k)
      BY <1>18, <1>27, <2>4
    <3>2. Agree(R, Y, k)
      BY <1>9, <2>1, <3>1, AgreeOn
    <3>3. Agree(Y, L[T], k)
      BY <3>1, AgreeBack
    <3> QED BY <3>2, <3>3, AgreeOn
  <2> QED BY <1>1, <2>2, <2>3, <2>4
<1>28. Holding(S2, L, A2)
  <2> SUFFICES ASSUME NEW T \in Nat, NEW p \in Nodes, NEW k \in Nat, k <= A2[T][p], Choosable(S2, L, A2, T, k)
               PROVE  Agree(S2[p].log, L[T], k)
    BY DEF Holding
  <2>1. Choosable(S, L, A, T, k)
    BY <1>17
  <2>2. CASE p # n
    <3>1. k <= A[T][p]
      BY <1>13, <2>2
    <3>2. Agree(S[p].log, L[T], k)
      BY <2>1, <3>1 DEF Core, Holding
    <3> QED BY <1>2, <2>2, <3>2
  <2>3. CASE p = n /\ k <= A[T][n]
    BY <1>4, <1>27, <2>1, <2>3
  <2>4. CASE p = n /\ ~(k <= A[T][n])
    <3>1. T = U
      BY <1>13, <2>4
    <3>2. k <= w
      BY <1>12, <1>13, <2>4, <3>1
    <3>3. Agree(R, Y, k)
      BY <1>1, <1>8, <3>2, AgreeLess
    <3> QED BY <1>4, <1>7, <2>4, <3>1, <3>3
  <2> QED BY <2>2, <2>3, <2>4
<1>29. UpToDate(S2, V, L, A2)
  <2> SUFFICES ASSUME NEW d \in Nodes, NEW q \in Nodes, NEW T \in Nat, NEW k \in Nat,
                      S2[d].role = "Candidate", V[S2[d].current_term][q] = d, T < S2[d].current_term,
                      k <= A2[T][q], Choosable(S2, L, A2, T, k)
               PROVE  Beyond(S2[d].log, T, k)
    BY DEF UpToDate
  <2>1. S2[d] = S[d]
    BY <1>2, <1>8
  <2>2. ~(T = U /\ q = n)
    <3> SUFFICES ASSUME T = U, q = n PROVE FALSE
      OBVIOUS
    <3>1. V[S[d].current_term][n] = d /\ d # Nil /\ S[d].current_term \in Nat
      BY <1>5, <2>1, NodesAssumption
    <3>2. S[d].current_term <= S[n].current_term
      BY <3>1 DEF Core, VotesKept
    <3> QED BY <1>1, <1>8, <2>1, <3>1, <3>2
  <2>3. k <= A[T][q] /\ Choosable(S, L, A, T, k)
    BY <1>13, <1>17, <2>2
  <2> QED BY <2>1, <2>3 DEF Core, UpToDate
<1>30. ASSUME NEW p \in Nodes
       PROVE  /\ S[p].commit_index <= Len(S[p].log)
              /\ Safe(L, A, S[p].log, S[p].commit_index, S[p].current_term)
  <2>1. Safe(L, A, S[p].log, S[p].commit_index, S[p].current_term)
    BY DEF Core, CommitsSafe
  <2> QED BY <1>5, <2>1, SafeWithin
<1>31. ASSUME NEW p \in Nodes PROVE Agree(S[p].log, S2[p].log, S[p].commit_index)
  <2>1. CASE p # n
    BY <1>2, <1>30, <2>1, AgreeSelf
  <2>2. CASE p = n
    <3>1. PICK c \in Nat : c = S[n].commit_index
      BY <1>5
    <3>2. CASE c = 0
      BY <1>4, <1>8, <2>2, <3>1, <3>2 DEF Agree
    <3>3. CASE c # 0
      <4>1. PICK T \in Nat, k \in Nat : T <= U /\ c <= k /\ Chosen(L, A, T, k) /\ Agree(X, L[T], c)
        BY <1>4, <1>8, <1>30, <3>1, <3>3 DEF Safe
      <4>2. Choosable(S, L, A, T, k)
        BY <4>1, ChosenChoosable
      <4>3. Agree(X, Y, c)
        <5>1. CASE T = U
          BY <1>7, <4>1, <5>1
        <5>2. CASE T < U
          <6>1. Agree(L[T], Y, k)
            BY <1>18, <4>2, <5>2
          <6>2. Agree(L[T], Y, c)
            BY <4>1, <6>1, <1>1, <1>8, LogAt, AgreeLess
          <6> QED BY <4>1, <6>2, AgreeOn
        <5> QED BY <1>1, <4>1, <5>1, <5>2
      <4>4. Agree(Y, R, c)
        BY <1>9, <4>3, AgreeBack
      <4> QED BY <1>4, <2>2, <3>1, <4>3, <4>4, AgreeOn
    <3> QED BY <3>2, <3>3
  <2> QED BY <2>1, <2>2
<1>32. CommitsSafe(S2, L, A2)
  <2> SUFFICES ASSUME NEW p \in Nodes PROVE Safe(L, A2, S2[p].log, S2[p].commit_index, S2[p].current_term)
    BY DEF CommitsSafe
  <2>1. Safe(L, A2, S[p].log, S[p].commit_index, S[p].current_term)
    BY <1>1, <1>5, <1>14, <1>15, <1>16, <1>30, SafeStays
  <2>2. Safe(L, A2, S2[p].log, S[p].commit_index, S[p].current_term)
    BY <1>31, <2>1, SafeShared
  <2> QED BY <1>5, <2>2
<1>33. CommitsKeep(S, S2)
  BY <1>5, <1>31 DEF CommitsKeep
<1>34. CandidatesKeep(S, S2)
  BY <1>2, <1>8 DEF CandidatesKeep
<1>35. Core(S2, E, V, L, A2)
  BY <1>1, <1>3, <1>14, <1>19, <1>20, <1>21, <1>22, <1>23, <1>24, <1>25, <1>26, <1>28, <1>29, <1>32
     DEF Core, Ghosts
<1>36. Evolves(S, E, V, L, A, S2, E, V, L, A2)
  BY <1>6, <1>15, <1>16, <1>33, <1>34 DEF Evolves
<1> QED BY <1>12, <1>13, <1>35, <1>36

-----------------------------------------------------------------------------
(* Who may lead.                                                           *)

\* A candidate that a majority voted for holds all that may have been chosen.
LEMMA WinnerHoldsAll ==
  ASSUME NEW S, NEW E, NEW V, NEW L, NEW A, Core(S, E, V, L, A), NEW n \in Nodes, S[n].role = "Candidate",
         NEW U, U = S[n].current_term, Elected(V, U, n)
  PROVE  HoldsAll(S, L, A, S[n].log, U) /\ Agree(L[U], S[n].log, Len(L[U]))
<1>1. Typed(S) /\ LogMap(L) /\ Counts(A) /\ LeaderLogs(L)
  BY DEF Core, Ghosts
<1>2. U \in Nat /\ \A p \in Nodes : S[p].current_term \in Nat
  BY <1>1 DEF Typed, NodeOK
<1>3. PICK X \in Seq(Entries) : X = S[n].log
  BY <1>1 DEF Typed, NodeOK
<1>4. ~Won(E, U)
  <2> SUFFICES ASSUME NEW c \in Nodes, <<U, c>> \in E PROVE FALSE
    BY DEF Won
  <2>1. Elected(V, U, c) /\ (S[c].current_term = U => S[c].role # "Candidate")
    BY <1>2 DEF Core, WonVotes
  <2>2. c = n
    BY <2>1, OneWinner
  <2> QED BY <2>1, <2>2
<1>5. L[U] = << >>
  BY <1>2, <1>4 DEF Core, Unwon
<1>6. Agree(L[U], X, Len(L[U]))
  BY <1>3, <1>5 DEF Agree
<1>7. \A W \in Nat : Sorted(L[W])
  BY <1>1 DEF LeaderLogs
<1>8. Match(X, L)
  BY <1>3 DEF Core, NodeLogs
<1>9. ASSUME NEW T \in Nat, NEW k \in Nat, T < U, Choosable(S, L, A, T, k) PROVE Agree(L[T], X, k)
  <2>1. PICK P \in Quorums : \A q \in P : V[U][q] = n
    BY DEF Elected
  <2>2. PICK Q \in Quorums : \A q \in Q : k <= A[T][q] \/ S[q].current_term <= T
    BY <1>9 DEF Choosable
  <2>3. PICK q \in Nodes : q \in P /\ q \in Q
    BY QuorumsMeet
  <2>4. V[U][q] = n /\ n # Nil
    BY <2>1, <2>3, NodesAssumption
  <2>5. U <= S[q].current_term
    BY <1>2, <2>4 DEF Core, VotesKept
  <2>6. k <= A[T][q]
    BY <1>2, <1>9, <2>2, <2>3, <2>5
  <2>7. Beyond(X, T, k)
    BY <1>3, <1>9, <2>4, <2>6 DEF Core, UpToDate
  <2>8. Len(X) \in 1 .. Len(X)
    BY <2>7 DEF Beyond
  <2>9. PICK W \in Nat : W = X[Len(X)].term
    BY <2>8, EntryTerm
  <2>10. Agree(X, L[W], Len(X))
    BY <1>8, <2>8, <2>9 DEF Match
  <2>11. L[W] # << >>
    BY <2>8, <2>10 DEF Agree
  <2>12. Won(E, W)
    BY <2>11 DEF Core, Unwon
  <2>13. T < W => Agree(L[T], L[W], k)
    BY <1>9, <2>12 DEF Core, Complete
  <2>14. k \in 1 .. Len(L[T]) /\ L[T][k].term = T
    BY <1>9 DEF Choosable
  <2> QED BY <1>1, <1>7, <1>8, <2>7, <2>9, <2>13, <2>14, BeyondHolds
<1> QED BY <1>3, <1>6, <1>9 DEF HoldsAll

\* And so does the leader it becomes, from then on.
LEMMA LeaderHoldsAll ==
  ASSUME NEW S, NEW E, NEW V, NEW L, NEW A, Core(S, E, V, L, A), NEW n \in Nodes, S[n].role = "Leader",
         NEW U, U = S[n].current_term
  PROVE  /\ HoldsAll(S, L, A, S[n].log, U) /\ Agree(L[U], S[n].log, Len(L[U]))
         /\ Elected(V, U, n) /\ U \in Terms /\ <<U, n>> \in E
<1>1. Typed(S) /\ LogMap(L)
  BY DEF Core, Ghosts
<1>2. U \in Nat
  BY <1>1 DEF Typed, NodeOK
<1>3. <<U, n>> \in E /\ S[n].log = L[U]
  BY DEF Core, Leading, Leads
<1>4. Elected(V, U, n) /\ U \in Terms
  BY <1>2, <1>3 DEF Core, WonVotes
<1>5. Won(E, U)
  BY <1>3 DEF Won
<1>6. HoldsAll(S, L, A, S[n].log, U)
  BY <1>2, <1>3, <1>5 DEF Core, Complete, HoldsAll
<1>7. Len(L[U]) \in Nat
  BY <1>1, <1>2, LogAt
<1> QED BY <1>3, <1>4, <1>6, <1>7, AgreeSelf

-----------------------------------------------------------------------------
(* Two steps make one.                                                     *)

\* What holds of two steps in turn holds of both as one.
LEMMA EvolvesOn ==
  ASSUME NEW S, NEW E, NEW V, NEW L, NEW A, NEW S1, NEW E1, NEW V1, NEW L1, NEW A1,
         NEW S2, NEW E2, NEW V2, NEW L2, NEW A2,
         Core(S, E, V, L, A), Core(S1, E1, V1, L1, A1), Core(S2, E2, V2, L2, A2),
         Evolves(S, E, V, L, A, S1, E1, V1, L1, A1), Evolves(S1, E1, V1, L1, A1, S2, E2, V2, L2, A2)
  PROVE  Evolves(S, E, V, L, A, S2, E2, V2, L2, A2)
<1>1. /\ Typed(S) /\ LogMap(L) /\ Counts(A) /\ Typed(S1) /\ LogMap(L1) /\ Counts(A1)
      /\ Typed(S2) /\ LogMap(L2) /\ Counts(A2)
  BY DEF Core, Ghosts
<1>2. \A p \in Nodes : /\ S[p].current_term \in Nat /\ S1[p].current_term \in Nat /\ S2[p].current_term \in Nat
                       /\ S[p].current_term <= S1[p].current_term /\ S1[p].current_term <= S2[p].current_term
  BY <1>1 DEF Typed, NodeOK, Evolves, TermsGrow
<1>3. TermsGrow(S, S2)
  BY <1>2 DEF TermsGrow
<1>4. E \subseteq E2
  BY DEF Evolves
<1>5. VotesGrow(V, V2)
  BY DEF Evolves, VotesGrow
<1>6. LogsGrow(L, L2)
  <2> SUFFICES ASSUME NEW T \in Nat PROVE Agree(L[T], L2[T], Len(L[T]))
    BY DEF LogsGrow
  <2>1. Agree(L[T], L1[T], Len(L[T])) /\ Agree(L1[T], L2[T], Len(L1[T]))
    BY DEF Evolves, LogsGrow
  <2>2. Len(L[T]) \in Nat /\ Len(L1[T]) \in Nat /\ Len(L2[T]) \in Nat
    BY <1>1, LogAt
  <2>3. Len(L[T]) <= Len(L1[T])
    BY <2>1 DEF Agree
  <2>4. Agree(L1[T], L2[T], Len(L[T]))
    BY <2>1, <2>2, <2>3, AgreeLess
  <2> QED BY <2>1, <2>4, AgreeOn
<1>7. CountsGrow(S, A, A2)
  <2> SUFFICES ASSUME NEW T \in Nat, NEW p \in Nodes
               PROVE  A[T][p] <= A2[T][p] /\ (A[T][p] < A2[T][p] => S[p].current_term <= T)
    BY DEF CountsGrow
  <2>1. /\ A[T][p] <= A1[T][p] /\ (A[T][p] < A1[T][p] => S[p].current_term <= T)
        /\ A1[T][p] <= A2[T][p] /\ (A1[T][p] < A2[T][p] => S1[p].current_term <= T)
    BY DEF Evolves, CountsGrow
  <2>2. A[T][p] \in Nat /\ A1[T][p] \in Nat /\ A2[T][p] \in Nat
    BY <1>1 DEF Counts
  <2> QED BY <1>2, <2>1, <2>2
<1>8. CandidatesKeep(S, S2)
  <2> SUFFICES ASSUME NEW p \in Nodes, S2[p].role = "Candidate", S2[p].current_term = S[p].current_term
               PROVE  S[p].role = "Candidate" /\ S2[p].log = S[p].log
    BY DEF CandidatesKeep
  <2>1. S1[p].current_term = S[p].current_term
    BY <1>2
  <2>2. S1[p].role = "Candidate" /\ S2[p].log = S1[p].log
    BY <2>1 DEF Evolves, CandidatesKeep
  <2> QED BY <2>1, <2>2 DEF Evolves, CandidatesKeep
<1>9. CommitsKeep(S, S2)
  <2> SUFFICES ASSUME NEW p \in Nodes
               PROVE  /\ S[p].commit_index <= S2[p].commit_index
                      /\ Agree(S[p].log, S2[p].log, S[p].commit_index)
    BY DEF CommitsKeep
  <2>1. /\ S[p].commit_index <= S1[p].commit_index /\ S1[p].commit_index <= S2[p].commit_index
        /\ Agree(S[p].log, S1[p].log, S[p].commit_index) /\ Agree(S1[p].log, S2[p].log, S1[p].commit_index)
    BY DEF Evolves, CommitsKeep
  <2>2. /\ S[p].commit_index \in Nat /\ S1[p].commit_index \in Nat /\ S2[p].commit_index \in Nat
        /\ S1[p].log \in Seq(Entries) /\ S2[p].log \in Seq(Entries)
    BY <1>1 DEF Typed, NodeOK
  <2>3. Len(S1[p].log) \in Nat /\ Len(S2[p].log) \in Nat
    BY <2>2
  <2>4. Agree(S1[p].log, S2[p].log, S[p].commit_index)
    BY <2>1, <2>2, <2>3, AgreeLess
  <2> QED BY <2>1, <2>2, <2>4, AgreeOn
<1> QED BY <1>3, <1>4, <1>5, <1>6, <1>7, <1>8, <1>9 DEF Evolves

-----------------------------------------------------------------------------
(***************************************************************************)
(* What each input of RaftState does to the invariant: requests (handle),  *)
(* replies (handle_reply), timeouts (tick) and client mutations (propose), *)
(* and what a node sends in answer to them.                                *)
(*                                                                         *)
(* A request is sound when what it says of its sender's log and commit     *)
(* index is true of the leader log of its term; a reply is backed when the *)
(* vote or the acknowledgement it reports was given. Both stay so forever, *)
(* which is why late, repeated and reordered requests do no harm.          *)
(***************************************************************************)

-----------------------------------------------------------------------------
(* The states of a node, the requests and the replies.                     *)
RaftStates ==
  [id : Nodes, role : Role, current_term : {0} \cup Terms, voted_for : Nodes \cup {Nil},
   leader_id : Nodes \cup {Nil}, log : Seq(Entries), base_index : {0}, base_term : {0},
   snapshot : {{}}, commit_index : Nat, last_applied : Nat, votes_granted : SUBSET Nodes,
   next_index : [Nodes -> Nat], match_index : [Nodes -> Nat], pending_reset : {<< >>}]
Messages ==
  [type : {"RequestVote"}, from : Nodes, to : Nodes, term : Terms, last_log_index : Nat, last_log_term : Nat]
  \cup [type : {"AppendEntries"}, from : Nodes, to : Nodes, term : Terms, prev_log_index : Nat,
        prev_log_term : Nat, leader_commit : Nat, entries : Seq(Entries)]

\* A candidate asks with its log, as long as it is one.
Asks(m, s) ==
  /\ m.term <= s.current_term
  /\ m.term = s.current_term /\ s.role = "Candidate" =>
       m.last_log_index = Len(s.log) /\ m.last_log_term = last_log_term(s)
\* A leader sends a piece of its log, and no commit index that is not of it.
Tells(m, E, L, A) ==
  /\ <<m.term, m.from>> \in E /\ Carries(m, L[m.term])
  /\ m.leader_commit <= m.prev_log_index + Len(m.entries)
  /\ Safe(L, A, L[m.term], m.leader_commit, m.term)
Sound(m, S, E, L, A) ==
  /\ m \in Messages /\ m.to # m.from
  /\ m.type = "RequestVote" => Asks(m, S[m.from])
  /\ m.type = "AppendEntries" => Tells(m, E, L, A)

\* What the reply r of node p promises to node n.
Backed(r, p, n, V, A) ==
  /\ r.term \in {0} \cup Terms /\ r.type \in {"Vote", "Append"}
  /\ r.type = "Vote" /\ r.granted => V[r.term][p] = n
  /\ r.type = "Append" => r.match_index \in Nat /\ (r.success => r.match_index <= A[r.term][p])

\* The longest prefix committed is of a chosen entry.
Settled(C, L, A) == C \in Seq(Entries) /\ \E t \in Nat : Safe(L, A, C, Len(C), t)

\* A node's term is a number.
LEMMA TermOrNone == ASSUME NEW T, T \in {0} \cup Terms PROVE T \in Nat
<1>1. CASE T = 0
  BY <1>1
<1>2. CASE T \in Terms
  BY <1>2, TermsAreNumbers
<1> QED BY <1>1, <1>2

\* What the provers need of the type of a RaftState.
LEMMA StateFacts ==
  ASSUME NEW s \in RaftStates
  PROVE  /\ s.current_term \in Nat /\ s.log \in Seq(Entries) /\ s.base_index = 0 /\ s.base_term = 0
         /\ s.commit_index \in Nat /\ NodeOK(s, s.id)
<1>1. s.current_term \in Nat
  <2>1. s.current_term \in {0} \cup Terms
    BY DEF RaftStates
  <2> QED BY <2>1, TermOrNone
<1>2. s.log \in Seq(Entries)
  BY DEF RaftStates
<1>3. s.base_index = 0 /\ s.base_term = 0 /\ s.commit_index \in Nat /\ s.role \in Role
  BY DEF RaftStates
<1>4. s.votes_granted \subseteq Nodes
  BY DEF RaftStates
<1> QED BY <1>1, <1>2, <1>3, <1>4 DEF NodeOK

\* What the provers need of the type of a request.
LEMMA MessageFacts ==
  ASSUME NEW m \in Messages
  PROVE  /\ m.from \in Nodes /\ m.to \in Nodes /\ m.term \in Terms /\ m.term \in Nat
         /\ m.type \in {"RequestVote", "AppendEntries"}
         /\ m.type = "AppendEntries" => /\ m.prev_log_index \in Nat /\ m.leader_commit \in Nat
                                        /\ m.entries \in Seq(Entries)
BY TermsAreNumbers DEF Messages

\* A request carries a piece of its sender's log when that log is longer, too.
LEMMA CarriesOn ==
  ASSUME NEW X \in Seq(Entries), NEW Y \in Seq(Entries), Agree(X, Y, Len(X)), NEW m, Carries(m, X)
  PROVE  Carries(m, Y)
<1>1. PICK p \in Nat, e \in Seq(Entries) : p = m.prev_log_index /\ e = m.entries
  BY DEF Carries
<1>2. p + Len(e) <= Len(X) /\ \A i \in 1 .. Len(e) : e[i] = X[p + i]
  BY <1>1 DEF Carries, Segment
<1>3. Len(X) <= Len(Y) /\ \A j \in 1 .. Len(X) : X[j] = Y[j]
  BY DEF Agree
<1>4. Len(X) \in Nat /\ Len(Y) \in Nat /\ Len(e) \in Nat
  OBVIOUS
<1>5. ASSUME NEW i \in 1 .. Len(e) PROVE e[i] = Y[p + i]
  <2>1. p + i \in 1 .. Len(X)
    BY <1>2, <1>4
  <2> QED BY <1>2, <1>3, <2>1
<1>6. p + Len(e) <= Len(Y)
  BY <1>2, <1>3, <1>4
<1>7. p > 0 => m.prev_log_term = Y[p].term
  <2> SUFFICES ASSUME p > 0 PROVE m.prev_log_term = Y[p].term
    OBVIOUS
  <2>1. p \in 1 .. Len(X)
    BY <1>2, <1>4
  <2>2. m.prev_log_term = X[p].term
    BY <1>1 DEF Carries
  <2> QED BY <1>3, <2>1, <2>2
<1> QED BY <1>1, <1>5, <1>6, <1>7 DEF Carries, Segment

\* A request that was sound when it was made is sound whenever its receiver
\* handles it, however late.
LEMMA SoundStays ==
  ASSUME NEW S, NEW E, NEW V, NEW L, NEW A, NEW S2, NEW E2, NEW V2, NEW L2, NEW A2,
         Core(S, E, V, L, A), Core(S2, E2, V2, L2, A2), Evolves(S, E, V, L, A, S2, E2, V2, L2, A2),
         NEW m, Sound(m, S, E, L, A)
  PROVE  Sound(m, S2, E2, L2, A2)
<1>1. Typed(S) /\ LogMap(L) /\ Counts(A) /\ Typed(S2) /\ LogMap(L2) /\ Counts(A2)
  BY DEF Core, Ghosts
<1>2. m \in Messages /\ m.to # m.from
  BY DEF Sound
<1>3. PICK T \in Nat, f \in Nodes : T = m.term /\ f = m.from
  BY <1>2, MessageFacts
<1>4. CASE m.type = "RequestVote"
  <2>1. Asks(m, S[f])
    BY <1>3, <1>4 DEF Sound
  <2>2. S[f].current_term <= S2[f].current_term /\ S[f].current_term \in Nat /\ S2[f].current_term \in Nat
    BY <1>1 DEF Evolves, TermsGrow, Typed, NodeOK
  <2>3. T <= S2[f].current_term
    BY <1>3, <2>1, <2>2 DEF Asks
  <2>4. ASSUME T = S2[f].current_term, S2[f].role = "Candidate"
        PROVE  m.last_log_index = Len(S2[f].log) /\ m.last_log_term = last_log_term(S2[f])
    <3>1. S[f].current_term = S2[f].current_term
      BY <1>3, <2>1, <2>2, <2>4 DEF Asks
    <3>2. S[f].role = "Candidate" /\ S2[f].log = S[f].log
      BY <2>4, <3>1 DEF Evolves, CandidatesKeep
    <3>3. S[f].base_term = S2[f].base_term
      BY <1>1 DEF Typed, NodeOK
    <3> QED BY <1>3, <2>1, <2>4, <3>1, <3>2, <3>3 DEF Asks, last_log_term
  <2> QED BY <1>2, <1>3, <1>4, <2>3, <2>4 DEF Sound, Asks
<1>5. CASE m.type = "AppendEntries"
  <2>1. Tells(m, E, L, A)
    BY <1>5 DEF Sound
  <2>2. PICK X \in Seq(Entries), Y \in Seq(Entries) : X = L[T] /\ Y = L2[T]
    BY <1>1, LogAt
  <2>3. Agree(X, Y, Len(X))
    BY <2>2 DEF Evolves, LogsGrow
  <2>4. Carries(m, Y)
    BY <1>3, <2>1, <2>2, <2>3, CarriesOn DEF Tells
  <2>5. PICK c \in Nat : c = m.leader_commit
    BY <1>2, <1>5, MessageFacts
  <2>6. Safe(L, A, X, c, T)
    BY <1>3, <2>1, <2>2, <2>5 DEF Tells
  <2>7. c <= Len(X)
    BY <2>6, SafeWithin
  <2>8. Agree(X, Y, c)
    BY <2>3, <2>7, AgreeLess
  <2>9. Safe(L2, A2, X, c, T)
    BY <1>1, <2>6, SafeStays DEF Evolves
  <2>10. Safe(L2, A2, Y, c, T)
    BY <2>8, <2>9, SafeShared
  <2>11. <<T, f>> \in E2
    BY <1>3, <2>1 DEF Tells, Evolves
  <2>12. Tells(m, E2, L2, A2)
    BY <1>3, <2>1, <2>2, <2>4, <2>5, <2>10, <2>11 DEF Tells
  <2> QED BY <1>2, <1>5, <2>12 DEF Sound
<1> QED BY <1>2, <1>4, <1>5, MessageFacts

\* What a reply promises holds whenever the sender takes it, however late.
LEMMA BackedStays ==
  ASSUME NEW S, NEW E, NEW V, NEW L, NEW A, NEW S2, NEW E2, NEW V2, NEW L2, NEW A2,
         Core(S, E, V, L, A), Core(S2, E2, V2, L2, A2), Evolves(S, E, V, L, A, S2, E2, V2, L2, A2),
         NEW r, NEW p \in Nodes, NEW n \in Nodes, Backed(r, p, n, V, A)
  PROVE  Backed(r, p, n, V2, A2)
<1>1. Counts(A) /\ Counts(A2)
  BY DEF Core, Ghosts
<1>2. PICK T \in Nat : T = r.term
  BY TermOrNone DEF Backed
<1>3. r.type = "Vote" /\ r.granted => V2[T][p] = n
  BY <1>2, NodesAssumption DEF Backed, Evolves, VotesGrow
<1>4. A[T][p] \in Nat /\ A2[T][p] \in Nat /\ A[T][p] <= A2[T][p]
  BY <1>1 DEF Evolves, CountsGrow, Counts
<1>5. r.type = "Append" => r.match_index \in Nat /\ (r.success => r.match_index <= A2[T][p])
  BY <1>2, <1>4 DEF Backed
<1> QED BY <1>2, <1>3, <1>5 DEF Backed

\* What was committed anywhere stays settled.
LEMMA SettledStays ==
  ASSUME NEW S, NEW E, NEW V, NEW L, NEW A, NEW S2, NEW E2, NEW V2, NEW L2, NEW A2,
         Core(S, E, V, L, A), Core(S2, E2, V2, L2, A2), Evolves(S, E, V, L, A, S2, E2, V2, L2, A2),
         NEW C, Settled(C, L, A)
  PROVE  Settled(C, L2, A2)
<1>1. LogMap(L) /\ Counts(A) /\ LogMap(L2) /\ Counts(A2)
  BY DEF Core, Ghosts
<1>2. PICK t \in Nat : Safe(L, A, C, Len(C), t)
  BY DEF Settled
<1>3. C \in Seq(Entries)
  BY DEF Settled
<1>4. PICK c \in Nat : c = Len(C)
  BY <1>3
<1>5. LogsGrow(L, L2) /\ CountsGrow(S, A, A2) /\ t <= t
  BY DEF Evolves
<1>6. Safe(L2, A2, C, c, t)
  BY <1>1, <1>2, <1>3, <1>4, <1>5, SafeStays
<1> QED BY <1>3, <1>4, <1>6 DEF Settled

-----------------------------------------------------------------------------
(* A node's own steps.                                                     *)
NodeState(s, n) == s \in RaftStates /\ s.id = n /\ s.last_applied <= s.commit_index
Put(S, n, t) == [p \in Nodes |-> IF p = n THEN t ELSE S[p]]
Reaches(S, E, V, L, A, S2, E2, V2, L2, A2) ==
  Core(S2, E2, V2, L2, A2) /\ Evolves(S, E, V, L, A, S2, E2, V2, L2, A2)

\* The types of a node's state include those the invariant speaks of.
LEMMA NodeStateOK == ASSUME NEW n, NEW s, NodeState(s, n) PROVE NodeOK(s, n)
BY StateFacts DEF NodeState

\* A state of the nodes between two steps of node n.
LEMMA PutAt ==
  ASSUME NEW S, NEW n \in Nodes, NEW t, NEW S2, Moved(S, S2, n)
  PROVE  Moved(S, Put(S, n, t), n) /\ Put(S, n, t)[n] = t /\ Moved(Put(S, n, t), S2, n)
BY DEF Put, Moved

\* Two steps of a node that keep the invariant make one that does.
LEMMA ReachesOn ==
  ASSUME NEW S, NEW E, NEW V, NEW L, NEW A, NEW S1, NEW E1, NEW V1, NEW L1, NEW A1,
         NEW S2, NEW E2, NEW V2, NEW L2, NEW A2, Core(S, E, V, L, A),
         Reaches(S, E, V, L, A, S1, E1, V1, L1, A1), Reaches(S1, E1, V1, L1, A1, S2, E2, V2, L2, A2)
  PROVE  Reaches(S, E, V, L, A, S2, E2, V2, L2, A2)
BY EvolvesOn DEF Reaches

\* The log and what is committed of it stay; the term rises, or all does but
\* perhaps a role that is given up.
Like(s, t) ==
  /\ t.current_term = s.current_term /\ t.voted_for = s.voted_for
  /\ \/ t.role = "Follower"
     \/ /\ t.role = s.role /\ t.votes_granted = s.votes_granted
        /\ t.next_index = s.next_index /\ t.match_index = s.match_index
Rises(s, t) == s.current_term < t.current_term /\ t.voted_for = Nil /\ t.role = "Follower"
Quiet(s, t) == t.log = s.log /\ t.commit_index = s.commit_index /\ (Like(s, t) \/ Rises(s, t))

\* A step that keeps log, commit index and vote, or rises to a new term without
\* a vote, needs no new ghosts (observe_term, drain_apply, note_revived).
LEMMA QuietStep ==
  ASSUME NEW S, NEW E, NEW V, NEW L, NEW A, Core(S, E, V, L, A), NEW n \in Nodes, NEW t,
         NodeState(t, n), Quiet(S[n], t), NEW S2, Moved(S, S2, n), S2[n] = t
  PROVE  Reaches(S, E, V, L, A, S2, E, V, L, A)
<1>1. PICK s : s = S[n]
  OBVIOUS
<1>2. /\ NodeOK(s, n) /\ s.voted_for = V[s.current_term][n]
      /\ Safe(L, A, s.log, s.commit_index, s.current_term)
  BY <1>1 DEF Core, Typed, VotesKept, CommitsSafe
<1>3. s.current_term \in Nat /\ s.commit_index \in Nat /\ s.log \in Seq(Entries)
  BY <1>2 DEF NodeOK
<1>4. NodeOK(t, n)
  BY NodeStateOK
<1>5. t.current_term \in Nat /\ t.log = s.log /\ t.commit_index = s.commit_index
  BY <1>1, <1>4 DEF NodeOK, Quiet
<1>6. s.current_term <= t.current_term
  BY <1>1, <1>3, <1>5 DEF Quiet, Like, Rises
<1>7. Safe(L, A, t.log, t.commit_index, t.current_term)
  <2>1. LogMap(L) /\ Counts(A)
    BY DEF Core, Ghosts
  <2>2. LogsGrow(L, L) /\ CountsGrow(S, A, A)
    BY <2>1, SameGrow
  <2> QED BY <1>2, <1>3, <1>5, <1>6, <2>1, <2>2, SafeStays
<1>8. t.voted_for = V[t.current_term][n]
  <2>1. CASE Like(s, t)
    BY <1>2, <2>1 DEF Like
  <2>2. CASE Rises(s, t)
    <3>1. V[t.current_term][n] # Nil => t.current_term <= s.current_term
      BY <1>1, <1>5 DEF Core, VotesKept
    <3> QED BY <1>3, <1>5, <2>2, <3>1 DEF Rises
  <2> QED BY <1>1, <2>1, <2>2 DEF Quiet
<1>9. t.role # "Follower" => Like(s, t) /\ t.role = s.role /\ t.votes_granted = s.votes_granted
                             /\ t.next_index = s.next_index /\ t.match_index = s.match_index
  BY <1>1 DEF Quiet, Like, Rises
<1>10. t.role = "Candidate" => \A q \in t.votes_granted : V[t.current_term][q] = n
  BY <1>1, <1>9 DEF Like, Core, Campaigning
<1>11. t.role = "Leader" => Indices(t, A)
  <2> SUFFICES ASSUME t.role = "Leader" PROVE Indices(t, A)
    OBVIOUS
  <2>1. Indices(s, A)
    BY <1>1, <1>9 DEF Core, Leading, Leads
  <2> QED BY <1>5, <1>9, <2>1 DEF Indices, Like
<1>12. Stays(S, V, L, A, S2, n)
  <2>1. NodeOK(S2[n], n) /\ S2[n].log = S[n].log /\ S[n].commit_index <= S2[n].commit_index
    BY <1>1, <1>3, <1>4, <1>5
  <2>2. S2[n].role # "Follower" => S2[n].role = S[n].role /\ S2[n].current_term = S[n].current_term
    BY <1>1, <1>9 DEF Like
  <2> QED BY <1>1, <1>6, <1>7, <1>8, <1>10, <1>11, <2>1, <2>2 DEF Stays
<1> QED BY <1>12, StayStep DEF Reaches

\* observe_term() is such a step.
LEMMA Observed ==
  ASSUME NEW n, NEW s, NodeState(s, n), NEW T, T \in {0} \cup Terms, NEW t, t = observe_term(s, T)
  PROVE  /\ NodeState(t, n) /\ Quiet(s, t)
         /\ IF T > s.current_term THEN t.current_term = T /\ Rises(s, t) ELSE t = s
<1>1. CASE T > s.current_term
  <2>1. t = [s EXCEPT !.current_term = T, !.voted_for = Nil, !.role = "Follower", !.leader_id = Nil,
                      !.votes_granted = {}]
    BY <1>1 DEF observe_term
  <2>2. s \in RaftStates
    BY DEF NodeState
  <2>3. t \in RaftStates
    BY <2>1, <2>2 DEF RaftStates, Role
  <2>4. /\ t.id = s.id /\ t.last_applied = s.last_applied /\ t.log = s.log /\ t.commit_index = s.commit_index
        /\ t.current_term = T /\ t.role = "Follower" /\ t.voted_for = Nil
    BY <2>1, <2>2 DEF RaftStates
  <2>5. Rises(s, t)
    <3>1. s.current_term \in Nat /\ t.current_term \in Nat
      BY <2>2, <2>3, StateFacts
    <3> QED BY <1>1, <2>4, <3>1 DEF Rises
  <2> QED BY <1>1, <2>3, <2>4, <2>5 DEF NodeState, Quiet
<1>2. CASE ~(T > s.current_term)
  BY <1>2 DEF observe_term, Quiet, Like
<1> QED BY <1>1, <1>2

\* The same, as a follower of node f.
Follow(s, T, f) == [observe_term(s, T) EXCEPT !.role = "Follower", !.leader_id = f]

\* So is following the sender of an AppendEntries that is not stale.
LEMMA Following ==
  ASSUME NEW n, NEW s, NodeState(s, n), NEW T \in Terms, ~(T < s.current_term), NEW f \in Nodes,
         NEW t, t = Follow(s, T, f)
  PROVE  NodeState(t, n) /\ Quiet(s, t) /\ t.current_term = T /\ t.role = "Follower"
<1>1. PICK o : o = observe_term(s, T)
  OBVIOUS
<1>2. /\ NodeState(o, n) /\ Quiet(s, o)
      /\ IF T > s.current_term THEN o.current_term = T /\ Rises(s, o) ELSE o = s
  BY <1>1, Observed
<1>3. o \in RaftStates /\ t = [o EXCEPT !.role = "Follower", !.leader_id = f]
  BY <1>1, <1>2 DEF NodeState, Follow
<1>4. t \in RaftStates
  BY <1>3 DEF RaftStates, Role
<1>5. /\ t.id = o.id /\ t.last_applied = o.last_applied /\ t.log = o.log /\ t.commit_index = o.commit_index
      /\ t.current_term = o.current_term /\ t.role = "Follower" /\ t.voted_for = o.voted_for
  BY <1>3 DEF RaftStates
<1>6. T \in Nat /\ s.current_term \in Nat
  BY TermsAreNumbers, StateFacts DEF NodeState
<1>7. o.current_term = T
  BY <1>2, <1>6
<1>8. Quiet(s, t)
  BY <1>2, <1>5 DEF Quiet, Like, Rises
<1> QED BY <1>2, <1>4, <1>5, <1>7, <1>8 DEF NodeState

-----------------------------------------------------------------------------
(* Requests.                                                               *)

\* A voter's log vouches for that of a candidate at least as up to date.
LEMMA UpToDateIsBeyond ==
  ASSUME NEW X \in Seq(Entries), NEW Y \in Seq(Entries), NEW T \in Nat, NEW k \in Nat, k > 0, Beyond(X, T, k),
         NEW s, s.log = X, s.base_index = 0, s.base_term = 0, NEW c, c.log = Y, c.base_term = 0,
         NEW m, m.last_log_index = Len(Y), m.last_log_term = last_log_term(c), up_to_date(s, m)
  PROVE  Beyond(Y, T, k)
<1>1. PICK i : i = Len(X)
  OBVIOUS
<1>2. PICK j : j = Len(Y)
  OBVIOUS
<1>3. i \in Nat /\ j \in Nat /\ i > 0
  BY <1>1, <1>2 DEF Beyond
<1>4. i \in 1 .. Len(X) /\ X # << >>
  BY <1>1, <1>3
<1>5. PICK x : x = X[i].term
  OBVIOUS
<1>6. x \in Nat /\ (x > T \/ (x = T /\ i >= k))
  BY <1>1, <1>4, <1>5, EntryTerm DEF Beyond
<1>7. last_log_term(s) = x /\ last_log_index(s) = i
  BY <1>1, <1>3, <1>4, <1>5 DEF last_log_term, last_log_index
<1>8. m.last_log_term > x \/ (m.last_log_term = x /\ j >= i)
  BY <1>2, <1>7 DEF up_to_date
<1>9. CASE Y = << >>
  <2>1. j = 0 /\ m.last_log_term = 0
    BY <1>2, <1>9 DEF last_log_term
  <2> QED BY <1>3, <1>6, <1>8, <2>1
<1>10. CASE Y # << >>
  <2>1. m.last_log_term = Y[j].term /\ j > 0
    BY <1>2, <1>3, <1>10 DEF last_log_term
  <2>2. Y[j].term \in Nat
    BY <1>2, <1>3, <2>1, EntryTerm
  <2> QED BY <1>2, <1>3, <1>6, <1>8, <2>1, <2>2 DEF Beyond
<1> QED BY <1>9, <1>10

\* What a node acknowledged, its own log is up to date with.
LEMMA OwnIsBeyond ==
  ASSUME NEW S, NEW E, NEW V, NEW L, NEW A, Core(S, E, V, L, A), NEW n \in Nodes,
         NEW T \in Nat, NEW k \in Nat, k <= A[T][n], Choosable(S, L, A, T, k)
  PROVE  Beyond(S[n].log, T, k) /\ k > 0
<1>1. Typed(S) /\ LogMap(L) /\ LeaderLogs(L)
  BY DEF Core, Ghosts
<1>2. PICK X \in Seq(Entries) : X = S[n].log
  BY <1>1 DEF Typed, NodeOK
<1>3. Agree(X, L[T], k)
  BY <1>2 DEF Core, Holding
<1>4. k \in 1 .. Len(L[T]) /\ L[T][k].term = T
  BY DEF Choosable
<1>5. Match(X, L)
  BY <1>2 DEF Core, NodeLogs
<1>6. \A W \in Nat : Sorted(L[W])
  BY <1>1 DEF LeaderLogs
<1> QED BY <1>1, <1>2, <1>3, <1>4, <1>5, <1>6, HeldIsBehind

\* handle(): the answer to m moves its receiver as the ghosts allow.
Handled(S, E, V, L, A, n, m, h) ==
  /\ NodeState(h.state, n)
  /\ \A S2 : Moved(S, S2, n) /\ S2[n] = h.state =>
       \E V2, L2, A2 : /\ Reaches(S, E, V, L, A, S2, E, V2, L2, A2)
                       /\ Backed(h.reply, n, m.from, V2, A2)

\* handle_request_vote() moves its node as the ghosts allow, and a granted vote
\* is one that was cast.
LEMMA VoteHandled ==
  ASSUME NEW S, NEW E, NEW V, NEW L, NEW A, Core(S, E, V, L, A), NEW n \in Nodes, NodeState(S[n], n),
         NEW m, Sound(m, S, E, L, A), m.to = n, m.type = "RequestVote", NEW h, h = handle_request_vote(S[n], m)
  PROVE  Handled(S, E, V, L, A, n, m, h)
<1>1. PICK s : s = S[n]
  OBVIOUS
<1>2. m \in Messages /\ m.to # m.from /\ Asks(m, S[m.from])
  BY DEF Sound
<1>3. PICK U \in Terms : U = m.term
  BY <1>2, MessageFacts
<1>4. PICK c \in Nodes : c = m.from
  BY <1>2, MessageFacts
<1>5. U \in Nat /\ NodeState(s, n) /\ s \in RaftStates /\ s.current_term \in Nat /\ c # n
  BY <1>1, <1>2, <1>3, <1>4, TermsAreNumbers, StateFacts DEF NodeState
<1>6. PICK t : t = observe_term(s, U)
  OBVIOUS
<1>7. NodeState(t, n) /\ Quiet(s, t) /\ IF U > s.current_term THEN t.current_term = U /\ Rises(s, t) ELSE t = s
  BY <1>5, <1>6, Observed
<1>8. t \in RaftStates /\ t.current_term \in {0} \cup Terms /\ s.current_term \in {0} \cup Terms
  BY <1>5, <1>7 DEF NodeState, RaftStates
<1>9. CASE U < s.current_term
  <2>1. h.state = s /\ h.reply = VoteReply(s, FALSE)
    BY <1>1, <1>3, <1>9 DEF handle_request_vote, answer
  <2>2. Backed(h.reply, n, c, V, A)
    BY <1>8, <2>1 DEF Backed, VoteReply
  <2>3. ASSUME NEW S2, Moved(S, S2, n), S2[n] = s PROVE Reaches(S, E, V, L, A, S2, E, V, L, A)
    <3>1. Quiet(S[n], s)
      BY <1>1 DEF Quiet, Like
    <3> QED BY <1>5, <2>3, <3>1, QuietStep
  <2> QED BY <1>4, <1>5, <2>1, <2>2, <2>3 DEF Handled
<1>10. CASE ~(U < s.current_term) /\ ~(t.voted_for \in {Nil, m.from} /\ up_to_date(t, m))
  <2>1. h.state = t /\ h.reply = VoteReply(t, FALSE)
    BY <1>1, <1>3, <1>6, <1>10 DEF handle_request_vote, answer
  <2>2. Backed(h.reply, n, c, V, A)
    BY <1>8, <2>1 DEF Backed, VoteReply
  <2>3. ASSUME NEW S2, Moved(S, S2, n), S2[n] = t PROVE Reaches(S, E, V, L, A, S2, E, V, L, A)
    BY <1>1, <1>7, <2>3, QuietStep
  <2> QED BY <1>4, <1>7, <2>1, <2>2, <2>3 DEF Handled
<1>11. CASE ~(U < s.current_term) /\ t.voted_for \in {Nil, m.from} /\ up_to_date(t, m)
  <2>1. PICK u : u = [t EXCEPT !.voted_for = m.from, !.role = "Follower"]
    OBVIOUS
  <2>2. h.state = u /\ h.reply = VoteReply(t, TRUE)
    BY <1>1, <1>3, <1>6, <1>11, <2>1 DEF handle_request_vote, answer
  <2>3. u \in RaftStates
    BY <1>4, <1>8, <2>1 DEF RaftStates, Role
  <2>4. /\ u.id = t.id /\ u.last_applied = t.last_applied /\ u.log = t.log /\ u.commit_index = t.commit_index
        /\ u.current_term = t.current_term /\ u.role = "Follower" /\ u.voted_for = c
    BY <1>4, <1>8, <2>1 DEF RaftStates
  <2>5. NodeState(u, n) /\ NodeOK(u, n)
    BY <1>7, <2>3, <2>4, NodeStateOK DEF NodeState
  <2>6. t.current_term = U
    BY <1>5, <1>7, <1>11
  <2>7. V[U][n] \in {Nil, c}
    <3>1. CASE U > s.current_term
      <4>1. V[U][n] # Nil => U <= s.current_term
        BY <1>1, <1>5 DEF Core, VotesKept
      <4> QED BY <1>5, <3>1, <4>1
    <3>2. CASE ~(U > s.current_term)
      <4>1. t = s /\ s.current_term = U
        BY <1>7, <2>6, <3>2
      <4>2. V[U][n] = s.voted_for
        BY <1>1, <4>1 DEF Core, VotesKept
      <4> QED BY <1>4, <1>11, <4>1, <4>2
    <3> QED BY <3>1, <3>2
  <2>8. t.log = s.log /\ t.commit_index = s.commit_index
    BY <1>7 DEF Quiet
  <2>9. ASSUME NEW S2, Moved(S, S2, n), S2[n] = u
        PROVE  \E V2, L2, A2 : Reaches(S, E, V, L, A, S2, E, V2, L2, A2) /\ Backed(h.reply, n, m.from, V2, A2)
    <3>1. S2[c] = S[c]
      BY <1>5, <2>9 DEF Moved
    <3>2. U <= S2[c].current_term
      BY <1>2, <1>3, <1>4, <3>1 DEF Asks
    <3>3. ASSUME S2[c].role = "Candidate", S2[c].current_term = U, NEW T \in Nat, NEW k \in Nat, T < U,
                 k <= A[T][n], Choosable(S, L, A, T, k)
          PROVE  Beyond(S2[c].log, T, k)
      <4>1. m.last_log_index = Len(S[c].log) /\ m.last_log_term = last_log_term(S[c])
        BY <1>2, <1>3, <1>4, <3>1, <3>3 DEF Asks
      <4>2. Beyond(s.log, T, k) /\ k > 0
        BY <1>1, <3>3, OwnIsBeyond
      <4>3. NodeOK(S[c], c)
        BY DEF Core, Typed
      <4>4. S[c].log \in Seq(Entries) /\ S[c].base_term = 0
        BY <4>3 DEF NodeOK
      <4>5. t.log \in Seq(Entries) /\ t.base_index = 0 /\ t.base_term = 0
        BY <1>8, StateFacts
      <4> QED BY <1>11, <2>8, <3>1, <4>1, <4>2, <4>4, <4>5, UpToDateIsBeyond
    <3>4. Voting(S, V, L, A, S2, n, c, U)
      <4>1. S2[n].log = S[n].log /\ S2[n].commit_index = S[n].commit_index
        BY <1>1, <2>4, <2>8, <2>9
      <4>2. S[n].current_term <= U
        BY <1>1, <1>5, <1>11
      <4> QED BY <1>5, <2>4, <2>5, <2>6, <2>7, <2>9, <3>2, <3>3, <4>1, <4>2 DEF Voting
    <3>5. PICK V2 : V2 = Cast(V, n, c, U)
      OBVIOUS
    <3>6. Reaches(S, E, V, L, A, S2, E, V2, L, A) /\ V2[U][n] = c
      BY <3>4, <3>5, VoteStep DEF Reaches
    <3>7. Backed(h.reply, n, m.from, V2, A)
      BY <1>4, <1>8, <2>2, <2>6, <3>6 DEF Backed, VoteReply
    <3> QED BY <3>6, <3>7
  <2> QED BY <2>2, <2>5, <2>9 DEF Handled
<1> QED BY <1>9, <1>10, <1>11

\* The entries of m are taken over, and then its commit index.
Taken(t, m) == [t EXCEPT !.log = merge(t, m)]
Caught(u, c) == [u EXCEPT !.commit_index = c]

\* A consistent AppendEntries of the node's term is taken over: its entries, its
\* commit index, and what the success reply will promise.
LEMMA Accepted ==
  ASSUME NEW S, NEW E, NEW V, NEW L, NEW A, Core(S, E, V, L, A), NEW n \in Nodes, NEW t, t = S[n], NodeState(t, n),
         NEW m, m \in Messages, m.type = "AppendEntries", Tells(m, E, L, A), consistent(t, m),
         t.current_term = m.term, t.role = "Follower",
         NEW u, u = Taken(t, m), NEW v, v = Caught(u, follower_commit(t, m, last_log_index(u))),
         NEW w, w = m.prev_log_index + Len(m.entries)
  PROVE  /\ NodeState(v, n)
         /\ \A S2 : Moved(S, S2, n) /\ S2[n] = v =>
              \E A2 : Reaches(S, E, V, L, A, S2, E, V, L, A2) /\ w \in Nat /\ w <= A2[m.term][n]
<1>1. PICK U \in Terms : U = m.term
  BY MessageFacts
<1>2. U \in Nat /\ LogMap(L) /\ Counts(A) /\ LeaderLogs(L)
  BY TermsAreNumbers DEF Core, Ghosts
<1>3. PICK X \in Seq(Entries) : X = t.log
  BY StateFacts DEF NodeState
<1>4. PICK Y \in Seq(Entries) : Y = L[U]
  BY <1>2, LogAt
<1>5. PICK R : R = merge(t, m)
  OBVIOUS
<1>6. t \in RaftStates /\ t.base_index = 0 /\ t.commit_index \in Nat
  BY StateFacts DEF NodeState
<1>7. Match(Y, L) /\ Match(X, L) /\ Carries(m, Y)
  BY <1>1, <1>2, <1>3, <1>4 DEF LeaderLogs, Core, NodeLogs, Tells
<1>8. /\ R \in Seq(Entries) /\ Match(R, L) /\ w \in Nat /\ Agree(R, Y, w) /\ Keeps(X, R, Y)
      /\ R = X \/ Agree(R, Y, Len(R))
  BY <1>3, <1>5, <1>6, <1>7, Merged
<1>9. u = [t EXCEPT !.log = R]
  BY <1>5 DEF Taken
<1>10. u \in RaftStates
  BY <1>6, <1>8, <1>9 DEF RaftStates
<1>11. /\ u.id = t.id /\ u.last_applied = t.last_applied /\ u.log = R /\ u.commit_index = t.commit_index
       /\ u.current_term = t.current_term /\ u.role = t.role /\ u.voted_for = t.voted_for
  BY <1>6, <1>9 DEF RaftStates
<1>12. NodeState(u, n) /\ NodeOK(u, n)
  BY <1>10, <1>11, NodeStateOK DEF NodeState
<1>13. PICK lc \in Nat : lc = m.leader_commit
  BY MessageFacts
<1>14. lc <= w /\ Safe(L, A, Y, lc, U)
  BY <1>1, <1>4, <1>13 DEF Tells
<1>15. last_log_index(u) = Len(R) /\ Len(R) \in Nat /\ Len(Y) \in Nat /\ w <= Len(R)
  <2>1. u.base_index = 0 /\ Len(R) \in Nat /\ Len(Y) \in Nat
    BY <1>8, <1>10, StateFacts
  <2>2. w <= Len(R)
    BY <1>8 DEF Agree
  <2>3. last_log_index(u) = Len(R)
    BY <1>11, <2>1 DEF last_log_index
  <2> QED BY <2>1, <2>2, <2>3
<1>16. PICK c : c = follower_commit(t, m, last_log_index(u))
  OBVIOUS
<1>17. c \in Nat /\ t.commit_index <= c /\ (c = t.commit_index \/ c = lc)
  BY <1>6, <1>8, <1>13, <1>14, <1>15, <1>16 DEF follower_commit
<1>18. v = [u EXCEPT !.commit_index = c]
  BY <1>16 DEF Caught
<1>19. v \in RaftStates
  BY <1>10, <1>17, <1>18 DEF RaftStates
<1>20. /\ v.id = u.id /\ v.last_applied = u.last_applied /\ v.log = R /\ v.commit_index = c
       /\ v.current_term = u.current_term /\ v.role = u.role /\ v.voted_for = u.voted_for
  BY <1>10, <1>11, <1>18 DEF RaftStates
<1>21. v.last_applied <= v.commit_index
  <2>1. t.last_applied \in Nat /\ t.last_applied <= t.commit_index
    BY <1>6 DEF RaftStates, NodeState
  <2> QED BY <1>6, <1>11, <1>17, <1>20, <2>1
<1>22. NodeState(v, n) /\ NodeOK(v, n)
  BY <1>11, <1>12, <1>19, <1>20, <1>21, NodeStateOK DEF NodeState
<1>23. ASSUME NEW S2, Moved(S, S2, n), S2[n] = v
       PROVE  \E A2 : Reaches(S, E, V, L, A, S2, E, V, L, A2) /\ w \in Nat /\ w <= A2[m.term][n]
  <2>1. PICK S1 : S1 = Put(S, n, u)
    OBVIOUS
  <2>2. Moved(S, S1, n) /\ S1[n] = u /\ Moved(S1, S2, n)
    BY <1>23, <2>1, PutAt
  <2>3. Won(E, U)
    BY <1>1, MessageFacts DEF Tells, Won
  <2>4. Accepts(S, E, L, S1, n, U, w)
    <3>1. S1[n].log = R /\ S[n].log = X
      BY <1>3, <1>11, <2>2
    <3>2. /\ Match(S1[n].log, L) /\ Agree(S1[n].log, L[U], w) /\ Keeps(S[n].log, S1[n].log, L[U])
          /\ S1[n].log = S[n].log \/ Agree(S1[n].log, L[U], Len(S1[n].log))
      BY <1>4, <1>8, <3>1
    <3>3. /\ S[n].current_term = U /\ S1[n].current_term = U /\ S1[n].voted_for = S[n].voted_for
          /\ S1[n].role = "Follower" /\ S1[n].commit_index = S[n].commit_index
      BY <1>1, <1>11, <2>2
    <3> QED BY <1>2, <1>8, <1>12, <2>2, <2>3, <3>2, <3>3 DEF Accepts
  <2>5. PICK A2 : A2 = Raised(A, n, U, Higher(A[U][n], w))
    OBVIOUS
  <2>6. Reaches(S, E, V, L, A, S1, E, V, L, A2) /\ w <= A2[U][n]
    BY <2>4, <2>5, AcceptStep DEF Reaches
  <2>7. Core(S1, E, V, L, A2) /\ CountsGrow(S, A, A2)
    BY <2>6 DEF Reaches, Evolves
  <2>8. Safe(L, A2, R, c, U)
    <3>1. CASE c = t.commit_index
      <4>1. Safe(L, A2, S1[n].log, S1[n].commit_index, S1[n].current_term)
        BY <2>7 DEF Core, CommitsSafe
      <4> QED BY <1>1, <1>11, <2>2, <3>1, <4>1
    <3>2. CASE c = lc
      <4>1. Counts(A2) /\ LogsGrow(L, L)
        BY <1>2, <2>7, SameGrow DEF Core, Ghosts
      <4>2. Safe(L, A2, Y, lc, U)
        BY <1>2, <1>14, <2>7, <4>1, SafeStays
      <4>3. Agree(R, Y, lc)
        BY <1>8, <1>14, <1>15, AgreeLess
      <4>4. Agree(Y, R, lc)
        BY <4>3, AgreeBack
      <4> QED BY <3>2, <4>2, <4>4, SafeShared
    <3> QED BY <1>17, <3>1, <3>2
  <2>9. Stays(S1, V, L, A2, S2, n)
    <3>1. S2[n].log = S1[n].log /\ S1[n].current_term <= S2[n].current_term /\ S1[n].commit_index <= S2[n].commit_index
      BY <1>1, <1>2, <1>11, <1>17, <1>20, <1>23, <2>2
    <3>2. S2[n].voted_for = V[S2[n].current_term][n]
      <4>1. S1[n].voted_for = V[S1[n].current_term][n]
        BY <2>7 DEF Core, VotesKept
      <4> QED BY <1>11, <1>20, <1>23, <2>2, <4>1
    <3>3. S2[n].role = "Follower"
      BY <1>11, <1>20, <1>23
    <3>4. Safe(L, A2, S2[n].log, S2[n].commit_index, S2[n].current_term)
      BY <1>1, <1>11, <1>20, <1>23, <2>8
    <3> QED BY <1>22, <1>23, <2>2, <3>1, <3>2, <3>3, <3>4 DEF Stays
  <2>10. Reaches(S1, E, V, L, A2, S2, E, V, L, A2)
    BY <2>7, <2>9, StayStep DEF Reaches
  <2>11. Reaches(S, E, V, L, A, S2, E, V, L, A2)
    BY <2>6, <2>10, ReachesOn
  <2> QED BY <1>1, <1>8, <2>6, <2>11
<1> QED BY <1>22, <1>23

\* handle_append_entries() moves its node as the ghosts allow, and its reply
\* promises no more than was acknowledged.
LEMMA AppendHandled ==
  ASSUME NEW S, NEW E, NEW V, NEW L, NEW A, Core(S, E, V, L, A), NEW n \in Nodes, NodeState(S[n], n),
         NEW m, Sound(m, S, E, L, A), m.to = n, m.type = "AppendEntries", NEW h, h = handle_append_entries(S[n], m)
  PROVE  Handled(S, E, V, L, A, n, m, h)
<1>1. PICK s : s = S[n]
  OBVIOUS
<1>2. m \in Messages /\ Tells(m, E, L, A)
  BY DEF Sound
<1>3. PICK U \in Terms : U = m.term
  BY <1>2, MessageFacts
<1>4. PICK f \in Nodes : f = m.from
  BY <1>2, MessageFacts
<1>5. /\ U \in Nat /\ NodeState(s, n) /\ s \in RaftStates /\ s.current_term \in Nat
      /\ s.current_term \in {0} \cup Terms
  BY <1>1, <1>3, TermsAreNumbers, StateFacts DEF NodeState, RaftStates
<1>6. CASE U < s.current_term
  <2>1. h.state = s /\ h.reply = AppendReply(s, FALSE, 0)
    BY <1>1, <1>3, <1>6 DEF handle_append_entries, answer
  <2>2. Backed(h.reply, n, f, V, A)
    BY <1>5, <2>1 DEF Backed, AppendReply
  <2>3. ASSUME NEW S2, Moved(S, S2, n), S2[n] = s PROVE Reaches(S, E, V, L, A, S2, E, V, L, A)
    <3>1. Quiet(S[n], s)
      BY <1>1 DEF Quiet, Like
    <3> QED BY <1>5, <2>3, <3>1, QuietStep
  <2> QED BY <1>4, <1>5, <2>1, <2>2, <2>3 DEF Handled
<1>7. PICK t : t = Follow(s, U, f)
  OBVIOUS
<1>8. CASE ~(U < s.current_term) /\ ~consistent(t, m)
  <2>1. NodeState(t, n) /\ Quiet(s, t) /\ t.current_term = U
    BY <1>5, <1>7, <1>8, Following
  <2>2. t.base_index = 0 /\ t.log \in Seq(Entries) /\ m.prev_log_index \in Nat
    BY <1>2, <2>1, StateFacts, MessageFacts DEF NodeState
  <2>3. last_log_index(t) \in Nat
    BY <2>2 DEF last_log_index
  <2>4. PICK hint : hint = IF m.prev_log_index > last_log_index(t) THEN last_log_index(t) ELSE m.prev_log_index - 1
    OBVIOUS
  <2>5. hint \in Nat
    <3>1. m.prev_log_index > last_log_index(t) \/ m.prev_log_index > 0
      BY <1>8, <2>2, <2>3 DEF consistent
    <3> QED BY <2>2, <2>3, <2>4, <3>1
  <2>6. h.state = t /\ h.reply = AppendReply(t, FALSE, hint)
    BY <1>1, <1>3, <1>4, <1>7, <1>8, <2>4 DEF handle_append_entries, answer, Follow
  <2>7. Backed(h.reply, n, f, V, A)
    BY <2>1, <2>5, <2>6 DEF Backed, AppendReply
  <2>8. ASSUME NEW S2, Moved(S, S2, n), S2[n] = t PROVE Reaches(S, E, V, L, A, S2, E, V, L, A)
    BY <1>1, <2>1, <2>8, QuietStep
  <2> QED BY <1>4, <2>1, <2>6, <2>7, <2>8 DEF Handled
<1>9. CASE ~(U < s.current_term) /\ consistent(t, m)
  <2>1. NodeState(t, n) /\ Quiet(s, t) /\ t.current_term = U /\ t.role = "Follower"
    BY <1>5, <1>7, <1>9, Following
  <2>2. PICK u : u = Taken(t, m)
    OBVIOUS
  <2>3. PICK v : v = Caught(u, follower_commit(t, m, last_log_index(u)))
    OBVIOUS
  <2>4. PICK w : w = m.prev_log_index + Len(m.entries)
    OBVIOUS
  <2>5. follower_commit(s, m, last_log_index(u)) = follower_commit(t, m, last_log_index(u))
    BY <2>1 DEF follower_commit, Quiet
  <2>6. h.state = v /\ h.reply = AppendReply(t, TRUE, w)
    BY <1>1, <1>3, <1>4, <1>7, <1>9, <2>2, <2>3, <2>4, <2>5
       DEF handle_append_entries, answer, Follow, Taken, Caught
  <2>7. PICK S1 : S1 = Put(S, n, t)
    OBVIOUS
  <2>8. Moved(S, S1, n) /\ S1[n] = t
    BY <2>7, PutAt DEF Moved
  <2>9. Reaches(S, E, V, L, A, S1, E, V, L, A)
    BY <1>1, <2>1, <2>8, QuietStep
  <2>10. Core(S1, E, V, L, A)
    BY <2>9 DEF Reaches
  <2>11. /\ NodeState(v, n)
         /\ \A S2 : Moved(S1, S2, n) /\ S2[n] = v =>
              \E A2 : Reaches(S1, E, V, L, A, S2, E, V, L, A2) /\ w \in Nat /\ w <= A2[m.term][n]
    BY <1>2, <1>3, <1>9, <2>1, <2>2, <2>3, <2>4, <2>8, <2>10, Accepted
  <2>12. ASSUME NEW S2, Moved(S, S2, n), S2[n] = v
         PROVE  \E V2, L2, A2 : Reaches(S, E, V, L, A, S2, E, V2, L2, A2) /\ Backed(h.reply, n, m.from, V2, A2)
    <3>1. Moved(S1, S2, n)
      BY <2>7, <2>12, PutAt
    <3>2. PICK A2 : Reaches(S1, E, V, L, A, S2, E, V, L, A2) /\ w \in Nat /\ w <= A2[m.term][n]
      BY <2>11, <2>12, <3>1
    <3>3. Reaches(S, E, V, L, A, S2, E, V, L, A2)
      BY <2>9, <3>2, ReachesOn
    <3>4. Backed(h.reply, n, m.from, V, A2)
      BY <1>3, <2>1, <2>6, <3>2 DEF Backed, AppendReply
    <3> QED BY <3>3, <3>4
  <2> QED BY <2>6, <2>11, <2>12 DEF Handled
<1> QED BY <1>6, <1>8, <1>9

\* handle() moves its node as the ghosts allow, whatever sound request it gets.
LEMMA RequestHandled ==
  ASSUME NEW S, NEW E, NEW V, NEW L, NEW A, Core(S, E, V, L, A), NEW n \in Nodes, NodeState(S[n], n),
         NEW m, Sound(m, S, E, L, A), m.to = n, NEW h, h = handle(S[n], m)
  PROVE  Handled(S, E, V, L, A, n, m, h)
<1>1. m.type \in {"RequestVote", "AppendEntries"}
  BY MessageFacts DEF Sound
<1>2. CASE m.type = "RequestVote"
  <2>1. h = handle_request_vote(S[n], m)
    BY <1>2 DEF handle
  <2> QED BY <1>2, <2>1, VoteHandled
<1>3. CASE m.type = "AppendEntries"
  <2>1. h = handle_append_entries(S[n], m)
    BY <1>3 DEF handle
  <2> QED BY <1>3, <2>1, AppendHandled
<1> QED BY <1>1, <1>2, <1>3

-----------------------------------------------------------------------------
(* Elections.                                                              *)
Roll(E, t, n) == IF t.role = "Leader" THEN E \cup {<<t.current_term, n>>} ELSE E
Driven(S, E, V, L, A, n, t) ==
  /\ NodeState(t, n)
  /\ \A S2 : Moved(S, S2, n) /\ S2[n] = t =>
       \E V2, L2, A2 : Reaches(S, E, V, L, A, S2, Roll(E, t, n), V2, L2, A2)

\* Who leads after a step that elects nobody has won before.
LEMMA RollKeeps ==
  ASSUME NEW S, NEW E, NEW V, NEW L, NEW A, Core(S, E, V, L, A), NEW n \in Nodes
  PROVE  Roll(E, S[n], n) = E
<1>1. S[n].role = "Leader" => <<S[n].current_term, n>> \in E
  BY DEF Core, Leading, Leads
<1> QED BY <1>1 DEF Roll

\* A quiet step elects nobody.
LEMMA QuietDriven ==
  ASSUME NEW S, NEW E, NEW V, NEW L, NEW A, Core(S, E, V, L, A), NEW n \in Nodes, NEW t,
         NodeState(t, n), Quiet(S[n], t)
  PROVE  Driven(S, E, V, L, A, n, t)
<1> SUFFICES ASSUME NEW S2, Moved(S, S2, n), S2[n] = t
             PROVE  Reaches(S, E, V, L, A, S2, Roll(E, t, n), V, L, A)
  BY DEF Driven
<1>1. Reaches(S, E, V, L, A, S2, E, V, L, A)
  BY QuietStep
<1>2. Roll(E, t, n) = E
  BY <1>1, RollKeeps DEF Reaches
<1> QED BY <1>1, <1>2

\* One step, and then another of the same node.
LEMMA DrivenOn ==
  ASSUME NEW S, NEW E, NEW V, NEW L, NEW A, Core(S, E, V, L, A), NEW n \in Nodes, NEW t,
         NEW S1, Moved(S, S1, n), NEW E1, NEW V1, NEW L1, NEW A1, Reaches(S, E, V, L, A, S1, E1, V1, L1, A1),
         Driven(S1, E1, V1, L1, A1, n, t), Roll(E1, t, n) = Roll(E, t, n)
  PROVE  Driven(S, E, V, L, A, n, t)
<1>1. NodeState(t, n)
  BY DEF Driven
<1>2. ASSUME NEW S2, Moved(S, S2, n), S2[n] = t
      PROVE  \E V2, L2, A2 : Reaches(S, E, V, L, A, S2, Roll(E, t, n), V2, L2, A2)
  <2>1. Moved(S1, S2, n)
    BY <1>2 DEF Moved
  <2>2. PICK V2, L2, A2 : Reaches(S1, E1, V1, L1, A1, S2, Roll(E, t, n), V2, L2, A2)
    BY <1>2, <2>1 DEF Driven
  <2>3. Reaches(S, E, V, L, A, S2, Roll(E, t, n), V2, L2, A2)
    BY <2>2, ReachesOn
  <2> QED BY <2>3
<1> QED BY <1>1, <1>2 DEF Driven

\* An appended entry makes a log grow.
LEMMA GrownByOne ==
  ASSUME NEW X \in Seq(Entries), NEW e \in Entries, NEW U, e.term = U, NEW Y, Y = Append(X, e)
  PROVE  Y \in Seq(Entries) /\ Grown(X, Y, U) /\ Len(Y) = Len(X) + 1
<1>1. Y \in Seq(Entries) /\ Len(Y) = Len(X) + 1 /\ Len(X) \in Nat
  OBVIOUS
<1>2. \A i \in 1 .. Len(X) : Y[i] = X[i]
  OBVIOUS
<1>3. Y[Len(X) + 1] = e
  OBVIOUS
<1>4. \A i \in 1 .. Len(Y) : i > Len(X) => i = Len(X) + 1
  BY <1>1
<1> QED BY <1>1, <1>2, <1>3, <1>4 DEF Grown, Agree

\* A log that stays has grown.
LEMMA GrownByNone == ASSUME NEW X \in Seq(Entries), NEW U PROVE Grown(X, X, U)
<1>1. Len(X) \in Nat /\ \A i \in 1 .. Len(X) : ~(i > Len(X))
  OBVIOUS
<1> QED BY <1>1 DEF Grown, Agree

\* A leader, new or old, whose log has grown by entries of its term.
Longer(s, t, U) ==
  /\ s.current_term = U /\ t.current_term = U /\ t.voted_for = s.voted_for /\ t.role = "Leader"
  /\ t.commit_index = s.commit_index /\ Grown(s.log, t.log, U)

\* A leader with a longer log, elected by a majority and holding all that may be
\* chosen, is what the invariant allows.
LEMMA LongerDriven ==
  ASSUME NEW S, NEW E, NEW V, NEW L, NEW A, Core(S, E, V, L, A), NEW n \in Nodes, NEW U \in Terms,
         Elected(V, U, n), HoldsAll(S, L, A, S[n].log, U), Agree(L[U], S[n].log, Len(L[U])),
         NEW t, NodeState(t, n), Longer(S[n], t, U), Indices(t, Raised(A, n, U, Len(t.log)))
  PROVE  Driven(S, E, V, L, A, n, t)
<1> SUFFICES ASSUME NEW S2, Moved(S, S2, n), S2[n] = t
             PROVE  \E V2, L2, A2 : Reaches(S, E, V, L, A, S2, Roll(E, t, n), V2, L2, A2)
  BY DEF Driven
<1>1. NodeOK(t, n)
  BY NodeStateOK
<1>2. LeadsOn(S, E, V, L, A, S2, n, U)
  BY <1>1 DEF LeadsOn, Longer
<1>3. PICK E2, L2, A2 : Wins(E, L, A, n, U, S2[n].log, E2, L2, A2)
  BY DEF Wins
<1>6. Reaches(S, E, V, L, A, S2, E2, V, L2, A2)
  BY <1>2, <1>3, LeadStep DEF Reaches
<1>7. Roll(E, t, n) = E2
  BY <1>3 DEF Roll, Longer, Wins
<1> QED BY <1>6, <1>7

\* become_leader(), after a majority voted for n.
LEMMA BecomesLeader ==
  ASSUME NEW S, NEW E, NEW V, NEW L, NEW A, Core(S, E, V, L, A), NEW n \in Nodes, NEW s, s = S[n],
         NodeState(s, n), s.role = "Candidate", Elected(V, s.current_term, n), NEW t, t = become_leader(s)
  PROVE  Driven(S, E, V, L, A, n, t) /\ t.role = "Leader" /\ t.current_term = s.current_term
<1>1. PICK U : U = s.current_term
  OBVIOUS
<1>2. U \in Terms
  BY <1>1 DEF Core, Campaigning
<1>3. HoldsAll(S, L, A, S[n].log, U) /\ Agree(L[U], S[n].log, Len(L[U]))
  BY <1>1, WinnerHoldsAll
<1>4. s \in RaftStates /\ s.base_index = 0
  BY StateFacts DEF NodeState
<1>5. PICK X \in Seq(Entries) : X = s.log
  BY <1>4, StateFacts
<1>6. PICK Y : Y = IF last_log_index(s) > s.commit_index THEN Append(X, [term |-> U, op |-> Noop]) ELSE X
  OBVIOUS
<1>7. Y \in Seq(Entries) /\ Grown(X, Y, U)
  <2>1. [term |-> U, op |-> Noop] \in Entries
    BY <1>2 DEF Entries
  <2>2. CASE last_log_index(s) > s.commit_index
    BY <1>6, <2>1, <2>2, GrownByOne
  <2>3. CASE ~(last_log_index(s) > s.commit_index)
    BY <1>6, <2>3, GrownByNone
  <2> QED BY <2>2, <2>3
<1>8. PICK k \in Nat : k = Len(Y)
  BY <1>7
<1>9. t = [s EXCEPT !.role = "Leader", !.leader_id = n, !.log = Y,
                    !.next_index = [p \in Nodes |-> k + 1], !.match_index = [p \in Nodes |-> 0]]
  <2>1. s.id = n
    BY DEF NodeState
  <2>2. s.base_index + Len(Y) + 1 = k + 1
    BY <1>4, <1>8
  <2> QED BY <1>1, <1>5, <1>6, <2>1, <2>2 DEF become_leader
<1>10. t \in RaftStates
  <2>1. [p \in Nodes |-> k + 1] \in [Nodes -> Nat] /\ [p \in Nodes |-> 0] \in [Nodes -> Nat]
    OBVIOUS
  <2> QED BY <1>4, <1>7, <1>9, <2>1 DEF RaftStates, Role
<1>11. /\ t.id = s.id /\ t.last_applied = s.last_applied /\ t.log = Y /\ t.commit_index = s.commit_index
       /\ t.current_term = s.current_term /\ t.role = "Leader" /\ t.voted_for = s.voted_for
       /\ t.next_index = [p \in Nodes |-> k + 1] /\ t.match_index = [p \in Nodes |-> 0]
  BY <1>4, <1>9 DEF RaftStates
<1>12. NodeState(t, n)
  BY <1>10, <1>11 DEF NodeState
<1>13. Longer(S[n], t, U)
  BY <1>1, <1>5, <1>7, <1>11 DEF Longer
<1>14. Indices(t, Raised(A, n, U, Len(t.log)))
  <2>1. U \in Nat /\ Counts(A)
    BY <1>2, TermsAreNumbers DEF Core, Ghosts
  <2> SUFFICES ASSUME NEW p \in Nodes
               PROVE  /\ t.match_index[p] \in Nat /\ t.match_index[p] <= Raised(A, n, U, Len(t.log))[t.current_term][p]
                      /\ t.next_index[p] \in 1 .. Len(t.log) + 1
    BY DEF Indices
  <2>2. t.match_index[p] = 0 /\ t.next_index[p] = k + 1 /\ Len(t.log) = k /\ t.current_term = U
    BY <1>1, <1>8, <1>11
  <2>3. Raised(A, n, U, k)[U][p] \in Nat
    BY <2>1 DEF Raised, Counts
  <2> QED BY <2>2, <2>3
<1>15. Driven(S, E, V, L, A, n, t)
  BY <1>1, <1>2, <1>3, <1>12, <1>13, <1>14, LongerDriven
<1> QED BY <1>11, <1>15

\* Votes of a majority elect.
LEMMA MajorityElects ==
  ASSUME NEW V, NEW U, NEW n, NEW Q, Q \subseteq Nodes, Cardinality(Q) >= majority, \A q \in Q : V[U][q] = n
  PROVE  Elected(V, U, n)
BY DEF Elected, Quorums

\* timeout(): a node votes for itself in the next term.
Campaign(s, n, U) ==
  [s EXCEPT !.current_term = U, !.role = "Candidate", !.voted_for = n, !.votes_granted = {n}, !.leader_id = Nil]

\* The vote for itself with which a node starts an election (start_election).
LEMMA CampaignStep ==
  ASSUME NEW S, NEW E, NEW V, NEW L, NEW A, Core(S, E, V, L, A), NEW n \in Nodes, NEW s, s = S[n],
         NodeState(s, n), NEW U \in Terms, U > s.current_term, NEW t, t = Campaign(s, n, U)
  PROVE  /\ NodeState(t, n) /\ t.role = "Candidate" /\ t.current_term = U
         /\ \A S2 : Moved(S, S2, n) /\ S2[n] = t =>
              \E V2 : Reaches(S, E, V, L, A, S2, E, V2, L, A) /\ V2[U][n] = n
<1>1. s \in RaftStates /\ U \in Nat /\ s.current_term \in Nat
  BY StateFacts, TermsAreNumbers DEF NodeState
<1>2. t \in RaftStates
  BY <1>1 DEF RaftStates, Role, Campaign
<1>3. /\ t.id = s.id /\ t.last_applied = s.last_applied /\ t.log = s.log /\ t.commit_index = s.commit_index
      /\ t.current_term = U /\ t.role = "Candidate" /\ t.voted_for = n /\ t.votes_granted = {n}
  BY <1>1 DEF RaftStates, Campaign
<1>4. NodeState(t, n) /\ NodeOK(t, n)
  BY <1>2, <1>3, NodeStateOK DEF NodeState
<1>5. ASSUME NEW S2, Moved(S, S2, n), S2[n] = t
      PROVE  \E V2 : Reaches(S, E, V, L, A, S2, E, V2, L, A) /\ V2[U][n] = n
  <2>1. V[U][n] = Nil
    <3>1. V[U][n] # Nil => U <= s.current_term
      BY <1>1 DEF Core, VotesKept
    <3> QED BY <1>1, <3>1
  <2>2. ASSUME NEW T \in Nat, NEW k \in Nat, T < U, k <= A[T][n], Choosable(S, L, A, T, k)
        PROVE  Beyond(S2[n].log, T, k)
    BY <1>3, <1>5, <2>2, OwnIsBeyond
  <2>3. Voting(S, V, L, A, S2, n, n, U)
    <3>1. S[n].current_term < U /\ S[n].current_term <= U /\ U <= S2[n].current_term
      BY <1>1, <1>3, <1>5
    <3> QED BY <1>1, <1>3, <1>4, <1>5, <2>1, <2>2, <3>1 DEF Voting
  <2>4. PICK V2 : V2 = Cast(V, n, n, U)
    OBVIOUS
  <2>5. Reaches(S, E, V, L, A, S2, E, V2, L, A) /\ V2[U][n] = n
    BY <2>3, <2>4, VoteStep DEF Reaches
  <2> QED BY <2>5
<1> QED BY <1>3, <1>4, <1>5

\* start_election(), a group of one included, which is won at once.
LEMMA StartsElection ==
  ASSUME NEW S, NEW E, NEW V, NEW L, NEW A, Core(S, E, V, L, A), NEW n \in Nodes, NEW s, s = S[n],
         NodeState(s, n), s.current_term + 1 \in Terms, NEW t, t = start_election(s)
  PROVE  Driven(S, E, V, L, A, n, t) /\ t.current_term \in Terms
<1>1. PICK U \in Terms : U = s.current_term + 1
  OBVIOUS
<1>2. s.id = n /\ s.current_term \in Nat /\ U > s.current_term
  BY <1>1, StateFacts DEF NodeState
<1>3. PICK c : c = Campaign(s, n, U)
  OBVIOUS
<1>4. /\ NodeState(c, n) /\ c.role = "Candidate" /\ c.current_term = U
      /\ \A S2 : Moved(S, S2, n) /\ S2[n] = c =>
           \E V2 : Reaches(S, E, V, L, A, S2, E, V2, L, A) /\ V2[U][n] = n
  BY <1>2, <1>3, CampaignStep
<1>5. t = IF majority = 1 THEN become_leader(c) ELSE c
  BY <1>1, <1>2, <1>3 DEF start_election, Campaign
<1>6. CASE majority # 1
  <2>1. t = c
    BY <1>5, <1>6
  <2>2. Roll(E, c, n) = E
    BY <1>4 DEF Roll
  <2>3. Driven(S, E, V, L, A, n, c)
    BY <1>4, <2>2 DEF Driven
  <2> QED BY <1>4, <2>1, <2>3
<1>7. CASE majority = 1
  <2>1. PICK S1 : S1 = Put(S, n, c)
    OBVIOUS
  <2>2. Moved(S, S1, n) /\ S1[n] = c
    BY <2>1, PutAt DEF Moved
  <2>3. PICK V1 : Reaches(S, E, V, L, A, S1, E, V1, L, A) /\ V1[U][n] = n
    BY <1>4, <2>2
  <2>4. Elected(V1, U, n)
    <3>1. Cardinality({n}) >= majority /\ {n} \subseteq Nodes
      <4>1. Cardinality({n}) = 1
        BY FS_Singleton
      <4> QED BY <1>7, <4>1
    <3>2. \A q \in {n} : V1[U][q] = n
      BY <2>3
    <3> QED BY <3>1, <3>2, MajorityElects
  <2>5. Core(S1, E, V1, L, A)
    BY <2>3 DEF Reaches
  <2>6. t = become_leader(c)
    BY <1>5, <1>7
  <2>7. Driven(S1, E, V1, L, A, n, t) /\ t.role = "Leader" /\ t.current_term = c.current_term
    BY <1>4, <2>2, <2>4, <2>5, <2>6, BecomesLeader
  <2>8. Driven(S, E, V, L, A, n, t)
    BY <2>2, <2>3, <2>7, DrivenOn
  <2> QED BY <1>4, <2>7, <2>8
<1> QED BY <1>6, <1>7

-----------------------------------------------------------------------------
(* A leader's bookkeeping.                                                 *)

\* The leader stays, with other indices and perhaps more committed.
Tended(s, t) ==
  /\ s.role = "Leader" /\ t.role = "Leader" /\ t.current_term = s.current_term
  /\ t.voted_for = s.voted_for /\ t.log = s.log /\ s.commit_index <= t.commit_index

\* A leader that changes its indices, or commits what is safe, keeps the
\* invariant.
LEMMA TendedStep ==
  ASSUME NEW S, NEW E, NEW V, NEW L, NEW A, Core(S, E, V, L, A), NEW n \in Nodes, NEW t, NodeState(t, n),
         Tended(S[n], t), Indices(t, A), Safe(L, A, t.log, t.commit_index, t.current_term),
         NEW S2, Moved(S, S2, n), S2[n] = t
  PROVE  Reaches(S, E, V, L, A, S2, E, V, L, A)
<1>1. NodeOK(t, n) /\ NodeOK(S[n], n) /\ S[n].voted_for = V[S[n].current_term][n]
  BY NodeStateOK DEF Core, Typed, VotesKept
<1>2. S[n].current_term <= t.current_term
  BY <1>1 DEF Tended, NodeOK
<1>3. Stays(S, V, L, A, S2, n)
  BY <1>1, <1>2 DEF Stays, Tended
<1> QED BY <1>3, StayStep DEF Reaches

\* advance_commit(): an entry of the leader's term that a majority holds is
\* chosen.
LEMMA AgreedIsChosen ==
  ASSUME NEW S, NEW E, NEW V, NEW L, NEW A, Core(S, E, V, L, A), NEW n \in Nodes, NEW s, s = S[n],
         NodeState(s, n), s.role = "Leader", NEW c \in 1 .. Len(s.log), s.log[c].term = s.current_term,
         Cardinality({p \in peers(s) : s.match_index[p] >= c}) + 1 >= majority
  PROVE  Chosen(L, A, s.current_term, c)
<1>1. PICK U : U = s.current_term
  OBVIOUS
<1>2. Leads(s, n, E, L, A)
  BY DEF Core, Leading
<1>3. s.log = L[U] /\ A[U][n] = Len(s.log) /\ Indices(s, A)
  BY <1>1, <1>2 DEF Leads
<1>4. U \in Nat /\ s.log \in Seq(Entries) /\ s.id = n /\ Counts(A)
  BY <1>1, StateFacts DEF NodeState, Core, Ghosts
<1>5. PICK P : P = {p \in peers(s) : s.match_index[p] >= c}
  OBVIOUS
<1>6. P \subseteq Nodes /\ n \notin P
  BY <1>4, <1>5 DEF peers
<1>7. IsFiniteSet(P)
  BY <1>6, NodesAssumption, FS_Subset
<1>8. Cardinality(P \cup {n}) = Cardinality(P) + 1
  BY <1>6, <1>7, FS_AddElement
<1>9. P \cup {n} \in Quorums
  BY <1>5, <1>6, <1>8 DEF Quorums
<1>10. ASSUME NEW q \in P \cup {n} PROVE c <= A[U][q]
  <2>1. CASE q = n
    BY <1>3, <2>1
  <2>2. CASE q \in P
    <3>1. s.match_index[q] >= c /\ q \in Nodes
      BY <1>5, <1>6, <2>2
    <3>2. s.match_index[q] \in Nat /\ s.match_index[q] <= A[U][q] /\ A[U][q] \in Nat
      BY <1>1, <1>3, <1>4, <3>1 DEF Indices, Counts
    <3> QED BY <3>1, <3>2
  <2> QED BY <2>1, <2>2
<1> QED BY <1>1, <1>3, <1>9, <1>10 DEF Chosen

\* advance_commit() commits only what is chosen.
LEMMA AdvanceDriven ==
  ASSUME NEW S, NEW E, NEW V, NEW L, NEW A, Core(S, E, V, L, A), NEW n \in Nodes, NEW s, s = S[n],
         NodeState(s, n), s.role = "Leader", NEW t, t = advance_commit(s)
  PROVE  Driven(S, E, V, L, A, n, t) /\ Tended(s, t) /\ t.next_index = s.next_index
<1>1. s \in RaftStates /\ s.current_term \in Nat /\ s.log \in Seq(Entries) /\ s.base_index = 0 /\ s.commit_index \in Nat
  BY StateFacts DEF NodeState
<1>2. PICK k \in Nat : k = Len(s.log)
  BY <1>1
<1>3. last_log_index(s) = k
  BY <1>1, <1>2 DEF last_log_index
<1>4. PICK G : G = agreed(s)
  OBVIOUS
<1>5. PICK c : c = IF G = {} THEN s.commit_index ELSE CHOOSE i \in G : \A j \in G : j <= i
  OBVIOUS
<1>6. c = s.commit_index \/ c \in G
  <2>1. CASE G = {}
    BY <1>5, <2>1
  <2>2. CASE G # {}
    <3>1. G \subseteq 0 .. k
      BY <1>1, <1>3, <1>4 DEF agreed
    <3>2. \E i \in G : \A j \in G : j <= i
      BY <2>2, <3>1, GreatestElement
    <3> QED BY <1>5, <2>2, <3>2
  <2> QED BY <2>1, <2>2
<1>7. c \in Nat /\ s.commit_index <= c /\ (c # s.commit_index => c \in 1 .. k)
  BY <1>1, <1>3, <1>4, <1>6 DEF agreed
<1>8. t = [s EXCEPT !.commit_index = c]
  BY <1>4, <1>5 DEF advance_commit
<1>9. t \in RaftStates
  BY <1>1, <1>7, <1>8 DEF RaftStates
<1>10. /\ t.id = s.id /\ t.last_applied = s.last_applied /\ t.log = s.log /\ t.commit_index = c
       /\ t.current_term = s.current_term /\ t.role = s.role /\ t.voted_for = s.voted_for
       /\ t.next_index = s.next_index /\ t.match_index = s.match_index
  BY <1>1, <1>8 DEF RaftStates
<1>11. NodeState(t, n)
  <2>1. s.last_applied \in Nat /\ s.last_applied <= s.commit_index
    BY <1>1 DEF RaftStates, NodeState
  <2>2. t.last_applied <= t.commit_index
    BY <1>1, <1>7, <1>10, <2>1
  <2> QED BY <1>9, <1>10, <2>2 DEF NodeState
<1>12. Tended(s, t)
  BY <1>7, <1>10 DEF Tended
<1>13. Leads(s, n, E, L, A)
  BY DEF Core, Leading
<1>14. Indices(t, A)
  BY <1>10, <1>13 DEF Leads, Indices
<1>15. Safe(L, A, t.log, t.commit_index, t.current_term)
  <2>1. CASE c = s.commit_index
    <3>1. Safe(L, A, s.log, s.commit_index, s.current_term)
      BY DEF Core, CommitsSafe
    <3> QED BY <1>10, <2>1, <3>1
  <2>2. CASE c # s.commit_index
    <3>1. c \in G /\ c \in 1 .. k
      BY <1>6, <1>7, <2>2
    <3>2. term_at(s, c) = s.log[c].term
      BY <1>1, <1>3, <3>1 DEF term_at
    <3>3. s.log[c].term = s.current_term /\ Cardinality({p \in peers(s) : s.match_index[p] >= c}) + 1 >= majority
      BY <1>4, <3>1, <3>2 DEF agreed
    <3>4. Chosen(L, A, s.current_term, c)
      BY <1>2, <3>1, <3>3, AgreedIsChosen
    <3>5. Agree(s.log, L[s.current_term], c)
      BY <1>2, <1>13, <3>1, AgreeSelf DEF Leads
    <3> QED BY <1>1, <1>7, <1>10, <3>4, <3>5 DEF Safe
  <2> QED BY <2>1, <2>2
<1>16. ASSUME NEW S2, Moved(S, S2, n), S2[n] = t PROVE Reaches(S, E, V, L, A, S2, Roll(E, t, n), V, L, A)
  <2>1. Reaches(S, E, V, L, A, S2, E, V, L, A)
    BY <1>11, <1>12, <1>14, <1>15, <1>16, TendedStep
  <2>2. Roll(E, t, n) = E
    BY <1>16, <2>1, RollKeeps DEF Reaches
  <2> QED BY <2>1, <2>2
<1>17. Driven(S, E, V, L, A, n, t)
  BY <1>11, <1>16 DEF Driven
<1> QED BY <1>10, <1>12, <1>17

\* A leader notes that node f acknowledged i entries, or where to try next.
Noted(s, f, i, j) == [s EXCEPT !.match_index[f] = i, !.next_index[f] = j]

\* Noting an acknowledgement, or backing up next_index, keeps the invariant.
LEMMA NotedStep ==
  ASSUME NEW S, NEW E, NEW V, NEW L, NEW A, Core(S, E, V, L, A), NEW n \in Nodes, NEW s, s = S[n],
         NodeState(s, n), s.role = "Leader", NEW f \in Nodes, NEW i \in Nat, i <= A[s.current_term][f],
         NEW j, j \in 1 .. Len(s.log) + 1, NEW t, t = Noted(s, f, i, j)
  PROVE  /\ NodeState(t, n) /\ Tended(s, t)
         /\ \A S2 : Moved(S, S2, n) /\ S2[n] = t => Reaches(S, E, V, L, A, S2, E, V, L, A)
<1>1. s \in RaftStates /\ s.commit_index \in Nat /\ s.log \in Seq(Entries)
  BY StateFacts DEF NodeState
<1>2. s.match_index \in [Nodes -> Nat] /\ s.next_index \in [Nodes -> Nat]
  BY <1>1 DEF RaftStates
<1>3. PICK mi : mi = [s.match_index EXCEPT ![f] = i]
  OBVIOUS
<1>4. PICK ni : ni = [s.next_index EXCEPT ![f] = j]
  OBVIOUS
<1>5. j \in Nat
  BY <1>1
<1>6. mi \in [Nodes -> Nat] /\ ni \in [Nodes -> Nat]
  BY <1>2, <1>3, <1>4, <1>5
<1>7. /\ mi[f] = i /\ \A p \in Nodes : p # f => mi[p] = s.match_index[p]
      /\ ni[f] = j /\ \A p \in Nodes : p # f => ni[p] = s.next_index[p]
  BY <1>2, <1>3, <1>4
<1>8. t = [s EXCEPT !.match_index = mi, !.next_index = ni]
  BY <1>1, <1>3, <1>4 DEF Noted, RaftStates
<1>9. t \in RaftStates
  BY <1>1, <1>6, <1>8 DEF RaftStates
<1>10. /\ t.id = s.id /\ t.last_applied = s.last_applied /\ t.log = s.log /\ t.commit_index = s.commit_index
       /\ t.current_term = s.current_term /\ t.role = s.role /\ t.voted_for = s.voted_for
       /\ t.next_index = ni /\ t.match_index = mi
  BY <1>1, <1>8 DEF RaftStates
<1>11. NodeState(t, n)
  BY <1>9, <1>10 DEF NodeState
<1>12. Tended(s, t)
  BY <1>1, <1>10 DEF Tended
<1>13. Indices(s, A)
  BY DEF Core, Leading, Leads
<1>14. Indices(t, A)
  <2> SUFFICES ASSUME NEW p \in Nodes
               PROVE  /\ mi[p] \in Nat /\ mi[p] <= A[s.current_term][p] /\ ni[p] \in 1 .. Len(s.log) + 1
    BY <1>10 DEF Indices
  <2>1. CASE p = f
    BY <1>7, <2>1
  <2>2. CASE p # f
    BY <1>7, <1>13, <2>2 DEF Indices
  <2> QED BY <2>1, <2>2
<1>15. Safe(L, A, t.log, t.commit_index, t.current_term)
  BY <1>10 DEF Core, CommitsSafe
<1>16. ASSUME NEW S2, Moved(S, S2, n), S2[n] = t PROVE Reaches(S, E, V, L, A, S2, E, V, L, A)
  BY <1>11, <1>12, <1>14, <1>15, <1>16, TendedStep
<1> QED BY <1>11, <1>12, <1>16

\* The outgoing messages are what a leader sends from its new state.
Sends(s) == {replicate_to(s, p) : p \in peers(s)}
Outs(q, s) == q = << >> \/ (s.role = "Leader" /\ q \in Seq(Sends(s)))

\* The peers in the order of the code's list.
LEMMA PeerList == ASSUME NEW s PROVE peer_list(s) \in Seq(peers(s))
<1>1. PICK P : P = peers(s)
  OBVIOUS
<1>2. IsFiniteSet(P)
  BY <1>1, NodesAssumption, FS_Subset DEF peers
<1>3. PICK k \in Nat : ExistsBijection(1 .. k, P)
  BY <1>2, FS_NatBijection
<1>4. Cardinality(P) = k
  BY <1>3, FS_CountingElements
<1>5. PICK f \in Bijection(1 .. k, P) : TRUE
  BY <1>3 DEF ExistsBijection
<1>6. f \in [1 .. k -> P] /\ IsInjective(f)
  BY <1>5 DEF Bijection, Injection, Surjection, IsInjective
<1>7. SetToSeq(P) \in [1 .. k -> P]
  BY <1>4, <1>6 DEF SetToSeq
<1>8. SetToSeq(P) \in Seq(P)
  BY <1>7
<1> QED BY <1>1, <1>8 DEF peer_list

\* replicate() sends to the peers what replicate_to() makes for each.
LEMMA Replicates == ASSUME NEW s PROVE replicate(s) \in Seq(Sends(s))
<1>1. PICK P : P = peer_list(s)
  OBVIOUS
<1>2. P \in Seq(peers(s))
  BY <1>1, PeerList
<1>3. DOMAIN P = 1 .. Len(P) /\ Len(P) \in Nat /\ \A i \in 1 .. Len(P) : P[i] \in peers(s)
  BY <1>2
<1>4. \A i \in 1 .. Len(P) : replicate_to(s, P[i]) \in Sends(s)
  BY <1>3 DEF Sends
<1>5. replicate(s) = [i \in 1 .. Len(P) |-> replicate_to(s, P[i])]
  BY <1>1, <1>3 DEF replicate
<1> QED BY <1>3, <1>4, <1>5

\* So does an answer to one peer.
LEMMA ReplicatesOne ==
  ASSUME NEW s, NEW f \in peers(s) PROVE <<replicate_to(s, f)>> \in Seq(Sends(s))
<1>1. replicate_to(s, f) \in Sends(s)
  BY DEF Sends
<1> QED BY <1>1

\* handle_append_ack().
LEMMA AckDriven ==
  ASSUME NEW S, NEW E, NEW V, NEW L, NEW A, Core(S, E, V, L, A), NEW n \in Nodes, NEW s, s = S[n],
         NodeState(s, n), NEW f \in Nodes, f # n, NEW r, Backed(r, f, n, V, A), r.type = "Append",
         ~(r.term > s.current_term), NEW h, h = handle_append_ack(s, f, r)
  PROVE  Driven(S, E, V, L, A, n, h.state) /\ Outs(h.outs, h.state)
<1>1. /\ s \in RaftStates /\ s.current_term \in Nat /\ s.id = n /\ r.term \in Nat /\ r.match_index \in Nat
      /\ s.log \in Seq(Entries) /\ f \in peers(s)
  <2>1. r.term \in Nat
    BY TermOrNone DEF Backed
  <2>2. r.match_index \in Nat
    BY DEF Backed
  <2> QED BY <2>1, <2>2, StateFacts DEF NodeState, peers
<1>2. CASE s.role # "Leader" \/ r.term < s.current_term
  <2>1. h.state = s /\ h.outs = << >>
    BY <1>2 DEF handle_append_ack, sends
  <2>2. Quiet(s, s)
    BY DEF Quiet, Like
  <2> QED BY <2>1, <2>2, QuietDriven DEF Outs
<1>3. CASE s.role = "Leader" /\ ~(r.term < s.current_term) /\ r.success
  <2>1. r.term = s.current_term
    BY <1>1, <1>3
  <2>2. PICK i \in Nat : i = r.match_index
    BY <1>1
  <2>3. PICK a : a = Noted(s, f, i, i + 1)
    OBVIOUS
  <2>4. i <= A[s.current_term][f]
    BY <1>3, <2>1, <2>2 DEF Backed
  <2>5. i + 1 \in 1 .. Len(s.log) + 1
    <3>1. s.log = L[s.current_term]
      BY <1>3 DEF Core, Leading, Leads
    <3>2. A[s.current_term][f] \in Nat /\ A[s.current_term][f] <= Len(s.log)
      BY <1>1, <3>1 DEF Core, Ghosts, Counts, Accepting
    <3> QED BY <1>1, <2>4, <3>2
  <2>6. /\ NodeState(a, n) /\ Tended(s, a)
        /\ \A S2 : Moved(S, S2, n) /\ S2[n] = a => Reaches(S, E, V, L, A, S2, E, V, L, A)
    BY <1>3, <2>3, <2>4, <2>5, NotedStep
  <2>7. PICK t : t = advance_commit(a)
    OBVIOUS
  <2>8. PICK S1 : S1 = Put(S, n, a)
    OBVIOUS
  <2>9. Moved(S, S1, n) /\ S1[n] = a
    BY <2>8, PutAt DEF Moved
  <2>10. Reaches(S, E, V, L, A, S1, E, V, L, A)
    BY <2>6, <2>9
  <2>11. Core(S1, E, V, L, A) /\ a.role = "Leader"
    BY <2>6, <2>10 DEF Reaches, Tended
  <2>12. Driven(S1, E, V, L, A, n, t) /\ Tended(a, t)
    BY <2>6, <2>7, <2>9, <2>11, AdvanceDriven
  <2>13. Driven(S, E, V, L, A, n, t)
    BY <2>9, <2>10, <2>12, DrivenOn
  <2>14. t.role = "Leader" /\ peers(t) = peers(s)
    BY <1>1, <2>12 DEF Tended, Driven, NodeState, peers
  <2>15. h.state = t /\ (h.outs = << >> \/ h.outs = <<replicate_to(t, f)>> \/ h.outs = replicate(t))
    BY <1>3, <2>2, <2>3, <2>7 DEF handle_append_ack, sends, Noted
  <2>16. Outs(h.outs, t)
    BY <1>1, <2>14, <2>15, Replicates, ReplicatesOne DEF Outs
  <2> QED BY <2>13, <2>15, <2>16
<1>4. CASE s.role = "Leader" /\ ~(r.term < s.current_term) /\ ~r.success
  <2>1. s.match_index \in [Nodes -> Nat] /\ s.next_index \in [Nodes -> Nat]
    BY <1>1 DEF RaftStates
  <2>2. Indices(s, A)
    BY <1>4 DEF Core, Leading, Leads
  <2>3. PICK i \in Nat : i = s.match_index[f]
    BY <2>1
  <2>4. i <= A[s.current_term][f] /\ s.next_index[f] \in 1 .. Len(s.log) + 1
    BY <2>2, <2>3 DEF Indices
  <2>5. PICK j : j = LET hint == r.match_index + 1
                         fewer == IF s.next_index[f] > 2 THEN s.next_index[f] - 1 ELSE 1
                     IN  IF hint < fewer THEN hint ELSE fewer
    OBVIOUS
  <2>6. j \in 1 .. Len(s.log) + 1
    <3>1. PICK k \in Nat : k = Len(s.log)
      BY <1>1
    <3>2. PICK a \in 1 .. k + 1 : a = s.next_index[f]
      BY <2>4, <3>1
    <3>3. PICK b \in Nat : b = r.match_index
      BY <1>1
    <3>4. PICK c \in 1 .. k + 1 : c = IF a > 2 THEN a - 1 ELSE 1
      BY <3>1
    <3>5. j = IF b + 1 < c THEN b + 1 ELSE c
      BY <2>5, <3>2, <3>3, <3>4
    <3> QED BY <3>1, <3>5
  <2>7. PICK t : t = Noted(s, f, i, j)
    OBVIOUS
  <2>8. t = back(s, f, r)
    <3>1. [s.match_index EXCEPT ![f] = i] = s.match_index
      BY <2>1, <2>3
    <3> QED BY <1>1, <2>5, <2>7, <3>1 DEF Noted, back, RaftStates
  <2>9. /\ NodeState(t, n) /\ Tended(s, t)
        /\ \A S2 : Moved(S, S2, n) /\ S2[n] = t => Reaches(S, E, V, L, A, S2, E, V, L, A)
    BY <1>4, <2>4, <2>6, <2>7, NotedStep
  <2>10. ASSUME NEW S2, Moved(S, S2, n), S2[n] = t PROVE Reaches(S, E, V, L, A, S2, Roll(E, t, n), V, L, A)
    <3>1. Reaches(S, E, V, L, A, S2, E, V, L, A)
      BY <2>9, <2>10
    <3>2. Roll(E, t, n) = E
      BY <2>10, <3>1, RollKeeps DEF Reaches
    <3> QED BY <3>1, <3>2
  <2>11. Driven(S, E, V, L, A, n, t)
    BY <2>9, <2>10 DEF Driven
  <2>12. t.role = "Leader" /\ peers(t) = peers(s)
    BY <1>1, <2>9 DEF Tended, NodeState, peers
  <2>13. h.state = t /\ h.outs = <<replicate_to(t, f)>>
    BY <1>4, <2>8 DEF handle_append_ack, sends
  <2>14. Outs(h.outs, t)
    BY <1>1, <2>12, <2>13, ReplicatesOne DEF Outs
  <2> QED BY <2>11, <2>13, <2>14
<1> QED BY <1>2, <1>3, <1>4

\* handle_vote().
Counted(s, f) == [s EXCEPT !.votes_granted = @ \cup {f}]

\* Counting a vote that was cast keeps the invariant (handle_vote).
LEMMA CountedStep ==
  ASSUME NEW S, NEW E, NEW V, NEW L, NEW A, Core(S, E, V, L, A), NEW n \in Nodes, NEW s, s = S[n],
         NodeState(s, n), s.role = "Candidate", NEW f \in Nodes, V[s.current_term][f] = n,
         NEW t, t = Counted(s, f)
  PROVE  /\ NodeState(t, n) /\ t.role = "Candidate" /\ t.current_term = s.current_term
         /\ t.votes_granted \subseteq Nodes /\ \A q \in t.votes_granted : V[s.current_term][q] = n
         /\ \A S2 : Moved(S, S2, n) /\ S2[n] = t => Reaches(S, E, V, L, A, S2, E, V, L, A)
<1>1. s \in RaftStates /\ s.commit_index \in Nat /\ s.current_term \in Nat
  BY StateFacts DEF NodeState
<1>2. s.votes_granted \subseteq Nodes
  BY <1>1 DEF RaftStates
<1>3. PICK g : g = s.votes_granted \cup {f}
  OBVIOUS
<1>4. t = [s EXCEPT !.votes_granted = g]
  BY <1>3 DEF Counted
<1>5. g \in SUBSET Nodes
  BY <1>2, <1>3
<1>6. t \in RaftStates
  BY <1>1, <1>4, <1>5 DEF RaftStates
<1>7. /\ t.id = s.id /\ t.last_applied = s.last_applied /\ t.log = s.log /\ t.commit_index = s.commit_index
      /\ t.current_term = s.current_term /\ t.role = s.role /\ t.voted_for = s.voted_for
      /\ t.votes_granted = g
  BY <1>1, <1>4 DEF RaftStates
<1>8. NodeState(t, n) /\ NodeOK(t, n)
  BY <1>6, <1>7, NodeStateOK DEF NodeState
<1>9. \A q \in g : V[s.current_term][q] = n
  BY <1>3 DEF Core, Campaigning
<1>10. s.voted_for = V[s.current_term][n] /\ Safe(L, A, s.log, s.commit_index, s.current_term)
  BY DEF Core, VotesKept, CommitsSafe
<1>11. ASSUME NEW S2, Moved(S, S2, n), S2[n] = t PROVE Reaches(S, E, V, L, A, S2, E, V, L, A)
  <2>1. S[n].current_term <= S2[n].current_term /\ S[n].commit_index <= S2[n].commit_index
    BY <1>1, <1>7, <1>11
  <2>2. Stays(S, V, L, A, S2, n)
    BY <1>7, <1>8, <1>9, <1>10, <1>11, <2>1 DEF Stays
  <2> QED BY <2>2, StayStep DEF Reaches
<1> QED BY <1>5, <1>7, <1>8, <1>9, <1>11

\* handle_vote() moves the candidate as the ghosts allow: a majority of counted
\* votes elects it.
LEMMA VoteDriven ==
  ASSUME NEW S, NEW E, NEW V, NEW L, NEW A, Core(S, E, V, L, A), NEW n \in Nodes, NEW s, s = S[n],
         NodeState(s, n), NEW f \in Nodes, NEW r, Backed(r, f, n, V, A), r.type = "Vote",
         ~(r.term > s.current_term), NEW h, h = handle_vote(s, f, r)
  PROVE  Driven(S, E, V, L, A, n, h.state) /\ Outs(h.outs, h.state)
<1>1. s.current_term \in Nat /\ r.term \in Nat
  BY StateFacts, TermOrNone DEF NodeState, Backed
<1>2. CASE s.role # "Candidate" \/ r.term < s.current_term \/ ~r.granted
  <2>1. h.state = s /\ h.outs = << >>
    BY <1>2 DEF handle_vote, sends
  <2>2. Quiet(s, s)
    BY DEF Quiet, Like
  <2> QED BY <2>1, <2>2, QuietDriven DEF Outs
<1>3. CASE s.role = "Candidate" /\ ~(r.term < s.current_term) /\ r.granted
  <2>1. r.term = s.current_term
    BY <1>1, <1>3
  <2>2. V[s.current_term][f] = n
    BY <1>3, <2>1 DEF Backed
  <2>3. PICK t : t = Counted(s, f)
    OBVIOUS
  <2>4. /\ NodeState(t, n) /\ t.role = "Candidate" /\ t.current_term = s.current_term
        /\ t.votes_granted \subseteq Nodes /\ \A q \in t.votes_granted : V[s.current_term][q] = n
        /\ \A S2 : Moved(S, S2, n) /\ S2[n] = t => Reaches(S, E, V, L, A, S2, E, V, L, A)
    BY <1>3, <2>2, <2>3, CountedStep
  <2>5. CASE ~(Cardinality(t.votes_granted) >= majority)
    <3>1. h.state = t /\ h.outs = << >>
      BY <1>3, <2>3, <2>5 DEF handle_vote, sends, Counted
    <3>2. Roll(E, t, n) = E
      BY <2>4 DEF Roll
    <3>3. Driven(S, E, V, L, A, n, t)
      BY <2>4, <3>2 DEF Driven
    <3> QED BY <3>1, <3>3 DEF Outs
  <2>6. CASE Cardinality(t.votes_granted) >= majority
    <3>1. PICK u : u = become_leader(t)
      OBVIOUS
    <3>2. h.state = u /\ h.outs = replicate(u)
      BY <1>3, <2>3, <2>6, <3>1 DEF handle_vote, sends, Counted
    <3>3. PICK S1 : S1 = Put(S, n, t)
      OBVIOUS
    <3>4. Moved(S, S1, n) /\ S1[n] = t
      BY <3>3, PutAt DEF Moved
    <3>5. Reaches(S, E, V, L, A, S1, E, V, L, A)
      BY <2>4, <3>4
    <3>6. Core(S1, E, V, L, A)
      BY <3>5 DEF Reaches
    <3>7. Elected(V, t.current_term, n)
      BY <2>4, <2>6, MajorityElects
    <3>8. Driven(S1, E, V, L, A, n, u) /\ u.role = "Leader"
      BY <2>4, <3>1, <3>4, <3>6, <3>7, BecomesLeader
    <3>9. Driven(S, E, V, L, A, n, u)
      BY <3>4, <3>5, <3>8, DrivenOn
    <3>10. Outs(replicate(u), u)
      BY <3>8, Replicates DEF Outs
    <3> QED BY <3>2, <3>9, <3>10
  <2> QED BY <2>5, <2>6
<1> QED BY <1>2, <1>3

\* handle_reply() moves the sender as the ghosts allow, whatever reply was
\* backed when it was made.
LEMMA ReplyDriven ==
  ASSUME NEW S, NEW E, NEW V, NEW L, NEW A, Core(S, E, V, L, A), NEW n \in Nodes, NEW s, s = S[n],
         NodeState(s, n), NEW f \in Nodes, f # n, NEW r, Backed(r, f, n, V, A),
         NEW h, h = handle_reply(s, f, r)
  PROVE  Driven(S, E, V, L, A, n, h.state) /\ Outs(h.outs, h.state)
<1>1. r.term \in {0} \cup Terms /\ r.type \in {"Vote", "Append"}
  BY DEF Backed
<1>2. CASE r.term > s.current_term
  <2>1. PICK t : t = observe_term(s, r.term)
    OBVIOUS
  <2>2. h.state = t /\ h.outs = << >>
    BY <1>2, <2>1 DEF handle_reply, sends
  <2>3. NodeState(t, n) /\ Quiet(s, t)
    BY <1>1, <2>1, Observed
  <2> QED BY <2>2, <2>3, QuietDriven DEF Outs
<1>3. CASE ~(r.term > s.current_term) /\ r.type = "Vote"
  <2>1. h = handle_vote(s, f, r)
    BY <1>3 DEF handle_reply
  <2> QED BY <1>3, <2>1, VoteDriven
<1>4. CASE ~(r.term > s.current_term) /\ r.type = "Append"
  <2>1. h = handle_append_ack(s, f, r)
    BY <1>4 DEF handle_reply
  <2> QED BY <1>4, <2>1, AckDriven
<1> QED BY <1>1, <1>2, <1>3, <1>4

\* propose().
Proposed(s, e) == [s EXCEPT !.log = Append(@, e)]

\* Appending a client's mutation as the leader keeps the invariant.
LEMMA ProposedDriven ==
  ASSUME NEW S, NEW E, NEW V, NEW L, NEW A, Core(S, E, V, L, A), NEW n \in Nodes, NEW s, s = S[n],
         NodeState(s, n), s.role = "Leader", NEW e \in Entries, e.term = s.current_term,
         NEW t, t = Proposed(s, e)
  PROVE  Driven(S, E, V, L, A, n, t) /\ t.role = "Leader" /\ t.current_term = s.current_term
<1>1. PICK U : U = s.current_term
  OBVIOUS
<1>2. /\ HoldsAll(S, L, A, S[n].log, U) /\ Agree(L[U], S[n].log, Len(L[U]))
      /\ Elected(V, U, n) /\ U \in Terms
  BY <1>1, LeaderHoldsAll
<1>3. s \in RaftStates /\ U \in Nat /\ Counts(A)
  BY <1>2, TermsAreNumbers DEF NodeState, Core, Ghosts
<1>4. PICK X \in Seq(Entries) : X = s.log
  BY <1>3, StateFacts
<1>5. PICK Y : Y = Append(X, e)
  OBVIOUS
<1>6. Y \in Seq(Entries) /\ Grown(X, Y, U) /\ Len(Y) = Len(X) + 1
  BY <1>1, <1>5, GrownByOne
<1>7. PICK k \in Nat : k = Len(X)
  OBVIOUS
<1>8. t = [s EXCEPT !.log = Y]
  BY <1>4, <1>5 DEF Proposed
<1>9. t \in RaftStates
  BY <1>3, <1>6, <1>8 DEF RaftStates
<1>10. /\ t.id = s.id /\ t.last_applied = s.last_applied /\ t.log = Y /\ t.commit_index = s.commit_index
       /\ t.current_term = s.current_term /\ t.role = s.role /\ t.voted_for = s.voted_for
       /\ t.next_index = s.next_index /\ t.match_index = s.match_index
  BY <1>3, <1>8 DEF RaftStates
<1>11. NodeState(t, n)
  BY <1>9, <1>10 DEF NodeState
<1>12. Longer(S[n], t, U)
  BY <1>1, <1>4, <1>6, <1>10 DEF Longer
<1>13. Indices(t, Raised(A, n, U, Len(t.log)))
  <2>1. A[U][n] = k /\ Indices(s, A)
    BY <1>1, <1>4, <1>7 DEF Core, Leading, Leads
  <2>2. Len(t.log) = k + 1
    BY <1>6, <1>7, <1>10
  <2> SUFFICES ASSUME NEW p \in Nodes
               PROVE  /\ t.match_index[p] \in Nat /\ t.match_index[p] <= Raised(A, n, U, k + 1)[t.current_term][p]
                      /\ t.next_index[p] \in 1 .. Len(t.log) + 1
    BY <2>2 DEF Indices
  <2>3. /\ s.match_index[p] \in Nat /\ s.match_index[p] <= A[U][p] /\ s.next_index[p] \in 1 .. k + 1
    BY <1>1, <1>4, <1>7, <2>1 DEF Indices
  <2>4. Raised(A, n, U, k + 1)[U][p] = IF p = n THEN k + 1 ELSE A[U][p]
    BY <1>3 DEF Raised
  <2>5. A[U][p] \in Nat
    BY <1>3 DEF Counts
  <2>6. A[U][p] <= Raised(A, n, U, k + 1)[U][p]
    BY <2>1, <2>4, <2>5
  <2>7. Raised(A, n, U, k + 1)[U][p] \in Nat
    BY <2>4, <2>5
  <2> QED BY <1>1, <1>10, <2>2, <2>3, <2>5, <2>6, <2>7
<1>14. Driven(S, E, V, L, A, n, t)
  BY <1>2, <1>11, <1>12, <1>13, LongerDriven
<1> QED BY <1>10, <1>14

\* propose() keeps the invariant, in a group of one too, which commits at once.
LEMMA ProposeDriven ==
  ASSUME NEW S, NEW E, NEW V, NEW L, NEW A, Core(S, E, V, L, A), NEW n \in Nodes, NEW s, s = S[n],
         NodeState(s, n), s.role = "Leader", NEW op \in AllOps, NEW t, t = propose(s, op)
  PROVE  Driven(S, E, V, L, A, n, t)
<1>1. PICK e : e = [term |-> s.current_term, op |-> op]
  OBVIOUS
<1>2. s.current_term \in Terms
  BY LeaderHoldsAll
<1>3. e \in Entries /\ e.term = s.current_term
  BY <1>1, <1>2 DEF Entries
<1>4. PICK a : a = Proposed(s, e)
  OBVIOUS
<1>5. Driven(S, E, V, L, A, n, a) /\ a.role = "Leader" /\ a.current_term = s.current_term
  BY <1>3, <1>4, ProposedDriven
<1>6. t = IF peers(s) = {} THEN advance_commit(a) ELSE a
  BY <1>1, <1>4 DEF propose, Proposed
<1>7. CASE peers(s) # {}
  BY <1>5, <1>6, <1>7
<1>8. CASE peers(s) = {}
  <2>1. PICK S1 : S1 = Put(S, n, a)
    OBVIOUS
  <2>2. Moved(S, S1, n) /\ S1[n] = a
    BY <2>1, PutAt DEF Moved
  <2>3. PICK E1 : E1 = Roll(E, a, n)
    OBVIOUS
  <2>4. NodeState(a, n) /\ \E V2, L2, A2 : Reaches(S, E, V, L, A, S1, E1, V2, L2, A2)
    BY <1>5, <2>2, <2>3 DEF Driven
  <2>5. PICK V1, L1, A1 : Reaches(S, E, V, L, A, S1, E1, V1, L1, A1)
    BY <2>4
  <2>6. Core(S1, E1, V1, L1, A1)
    BY <2>5 DEF Reaches
  <2>7. Driven(S1, E1, V1, L1, A1, n, t) /\ Tended(a, t)
    BY <1>5, <1>6, <1>8, <2>2, <2>4, <2>6, AdvanceDriven
  <2>8. Roll(E1, t, n) = Roll(E, t, n)
    BY <1>5, <2>3, <2>7 DEF Roll, Tended
  <2> QED BY <2>2, <2>5, <2>7, <2>8, DrivenOn
<1> QED BY <1>7, <1>8

-----------------------------------------------------------------------------
(* What is sent is sound.                                                  *)

\* The entries from an index on, as replicate_to() sends them.
LEMMA RestIsSegment ==
  ASSUME NEW X \in Seq(Entries), NEW d \in 1 .. Len(X) + 1, NEW W, W = Part(X, d, Len(X))
  PROVE  W \in Seq(Entries) /\ Len(W) = Len(X) - d + 1 /\ Segment(W, X, d - 1)
<1>1. PICK n \in Nat : n = Len(X)
  OBVIOUS
<1>2. d \in Nat /\ d > 0 /\ d <= n + 1
  BY <1>1
<1>3. W \in Seq(Entries) /\ Len(W) = n - d + 1 /\ \A j \in 1 .. n - d + 1 : W[j] = X[d + j - 1]
  BY <1>1, <1>2 DEF Part
<1>4. ASSUME NEW j \in 1 .. n - d + 1 PROVE W[j] = X[(d - 1) + j]
  <2>1. d + j - 1 = (d - 1) + j
    BY <1>2
  <2> QED BY <1>3, <2>1
<1>5. (d - 1) + (n - d + 1) <= n
  BY <1>2
<1> QED BY <1>1, <1>3, <1>4, <1>5 DEF Segment

\* What replicate_to() makes of a leader's state is a sound request.
LEMMA SendsAreSound ==
  ASSUME NEW S, NEW E, NEW V, NEW L, NEW A, Core(S, E, V, L, A), NEW n \in Nodes, NEW s, s = S[n],
         NodeState(s, n), s.role = "Leader", NEW m \in Sends(s)
  PROVE  Sound(m, S, E, L, A) /\ m.from = n
<1>1. PICK p \in peers(s) : m = replicate_to(s, p)
  BY DEF Sends
<1>2. s \in RaftStates /\ s.id = n /\ s.base_index = 0 /\ s.base_term = 0 /\ s.commit_index \in Nat
  BY StateFacts DEF NodeState
<1>3. p \in Nodes /\ p # n
  BY <1>1, <1>2 DEF peers
<1>4. PICK U \in Terms : U = s.current_term
  BY LeaderHoldsAll
<1>5. PICK X \in Seq(Entries) : X = s.log
  BY <1>2, StateFacts
<1>6. <<U, n>> \in E /\ X = L[U] /\ Indices(s, A)
  BY <1>4, <1>5 DEF Core, Leading, Leads
<1>7. PICK k \in Nat : k = Len(X)
  OBVIOUS
<1>8. PICK d \in 1 .. k + 1 : d = s.next_index[p]
  BY <1>3, <1>5, <1>6, <1>7 DEF Indices
<1>9. PICK W : W = Part(X, d, k)
  OBVIOUS
<1>10. W \in Seq(Entries) /\ Len(W) = k - d + 1 /\ Segment(W, X, d - 1)
  BY <1>7, <1>8, <1>9, RestIsSegment
<1>11. PICK b : b = term_at(s, d - 1)
  OBVIOUS
<1>12. b \in Nat /\ (d - 1 > 0 => b = X[d - 1].term)
  <2>1. last_log_index(s) = k
    BY <1>2, <1>5, <1>7 DEF last_log_index
  <2>2. CASE d = 1
    <3>1. d - 1 = 0
      BY <2>2
    <3>2. term_at(s, 0) = 0
      BY <1>2 DEF term_at
    <3>3. b = 0
      BY <1>11, <3>1, <3>2
    <3> QED BY <3>1, <3>3
  <2>3. CASE d # 1
    <3>1. d - 1 \in 1 .. k
      BY <1>8, <2>3
    <3>2. b = X[d - 1].term
      BY <1>2, <1>5, <1>11, <2>1, <3>1 DEF term_at
    <3>3. X[d - 1].term \in Nat
      BY <1>7, <3>1, EntryTerm
    <3> QED BY <3>2, <3>3
  <2> QED BY <2>2, <2>3
<1>13. m = [type |-> "AppendEntries", from |-> n, to |-> p, term |-> U, prev_log_index |-> d - 1,
            prev_log_term |-> b, leader_commit |-> s.commit_index, entries |-> W]
  <2>1. ~(s.next_index[p] <= s.base_index) /\ s.next_index[p] - s.base_index = d
    BY <1>2, <1>8
  <2>2. m = append_entries(s, p)
    BY <1>1, <2>1 DEF replicate_to
  <2> QED BY <1>2, <1>4, <1>5, <1>7, <1>8, <1>9, <1>11, <2>1, <2>2 DEF append_entries, Part
<1>14. m \in Messages
  <2>1. d - 1 \in Nat
    BY <1>8
  <2> QED BY <1>2, <1>3, <1>4, <1>10, <1>12, <1>13, <2>1 DEF Messages
<1>15. /\ m.type = "AppendEntries" /\ m.from = n /\ m.to = p /\ m.term = U /\ m.prev_log_index = d - 1
       /\ m.prev_log_term = b /\ m.leader_commit = s.commit_index /\ m.entries = W
  BY <1>13
<1>16. Carries(m, X)
  BY <1>8, <1>10, <1>12, <1>15 DEF Carries
<1>17. Safe(L, A, X, s.commit_index, U)
  BY <1>4, <1>5 DEF Core, CommitsSafe
<1>18. s.commit_index <= k
  BY <1>2, <1>7, <1>17, SafeWithin
<1>19. s.commit_index <= (d - 1) + Len(W)
  <2>1. (d - 1) + (k - d + 1) = k
    BY <1>8
  <2> QED BY <1>10, <1>18, <2>1
<1>20. Tells(m, E, L, A)
  BY <1>6, <1>15, <1>16, <1>17, <1>19 DEF Tells
<1> QED BY <1>3, <1>14, <1>15, <1>20 DEF Sound

Requests(s) == {request_vote(s, p) : p \in peers(s)}

\* What request_vote() makes of a node's state is a sound request.
LEMMA RequestsAreSound ==
  ASSUME NEW S, NEW E, NEW V, NEW L, NEW A, NEW n \in Nodes, NEW s, s = S[n],
         NodeState(s, n), s.current_term \in Terms, NEW m \in Requests(s)
  PROVE  Sound(m, S, E, L, A) /\ m.from = n
<1>1. PICK p \in peers(s) : m = request_vote(s, p)
  BY DEF Requests
<1>2. s \in RaftStates /\ s.id = n /\ s.base_index = 0 /\ s.base_term = 0 /\ s.current_term \in Nat
  BY StateFacts DEF NodeState
<1>3. p \in Nodes /\ p # n
  BY <1>1, <1>2 DEF peers
<1>4. PICK X \in Seq(Entries) : X = s.log
  BY <1>2, StateFacts
<1>5. PICK i \in Nat : i = last_log_index(s)
  BY <1>2, <1>4 DEF last_log_index
<1>6. i = Len(s.log)
  BY <1>2, <1>4, <1>5 DEF last_log_index
<1>7. PICK b \in Nat : b = last_log_term(s)
  <2>1. CASE X = << >>
    BY <1>2, <1>4, <2>1 DEF last_log_term
  <2>2. CASE X # << >>
    <3>1. Len(X) \in 1 .. Len(X)
      BY <2>2
    <3>2. X[Len(X)].term \in Nat
      BY <3>1, EntryTerm
    <3> QED BY <1>4, <2>2, <3>2 DEF last_log_term
  <2> QED BY <2>1, <2>2
<1>8. m = [type |-> "RequestVote", from |-> n, to |-> p, term |-> s.current_term,
           last_log_index |-> i, last_log_term |-> b]
  BY <1>1, <1>2, <1>5, <1>7 DEF request_vote
<1>9. m \in Messages
  BY <1>3, <1>8 DEF Messages
<1>10. /\ m.type = "RequestVote" /\ m.from = n /\ m.to = p /\ m.term = s.current_term /\ m.last_log_index = i
       /\ m.last_log_term = b
  BY <1>8
<1>11. Asks(m, s)
  BY <1>2, <1>6, <1>7, <1>10 DEF Asks
<1> QED BY <1>3, <1>9, <1>10, <1>11 DEF Sound

\* timeout(): the state after it, and what is sent.
LEMMA TimeoutDriven ==
  ASSUME NEW S, NEW E, NEW V, NEW L, NEW A, Core(S, E, V, L, A), NEW n \in Nodes, NEW s, s = S[n],
         NodeState(s, n), s.role # "Leader" => s.current_term + 1 \in Terms, NEW t, t = timeout(s)
  PROVE  Driven(S, E, V, L, A, n, t) /\ (t.role # "Leader" => t.current_term \in Terms)
<1>1. CASE s.role = "Leader"
  <2>1. t = s /\ Quiet(s, s)
    BY <1>1 DEF timeout, Quiet, Like
  <2> QED BY <1>1, <2>1, QuietDriven
<1>2. CASE s.role # "Leader"
  <2>1. t = start_election(s)
    BY <1>2 DEF timeout
  <2> QED BY <1>2, <2>1, StartsElection
<1> QED BY <1>1, <1>2

\* tick() sends entries as a leader and asks for votes otherwise.
LEMMA TimeoutSends ==
  ASSUME NEW s PROVE timeout_outs(s) \in Seq(IF s.role = "Leader" THEN Sends(s) ELSE Requests(s))
<1>1. CASE s.role = "Leader"
  BY <1>1, Replicates DEF timeout_outs
<1>2. CASE s.role # "Leader"
  <2>1. PICK P : P = peer_list(s)
    OBVIOUS
  <2>2. P \in Seq(peers(s))
    BY <2>1, PeerList
  <2>3. DOMAIN P = 1 .. Len(P) /\ Len(P) \in Nat /\ \A i \in 1 .. Len(P) : P[i] \in peers(s)
    BY <2>2
  <2>4. \A i \in 1 .. Len(P) : request_vote(s, P[i]) \in Requests(s)
    BY <2>3 DEF Requests
  <2>5. timeout_outs(s) = [i \in 1 .. Len(P) |-> request_vote(s, P[i])]
    BY <1>2, <2>1, <2>3 DEF timeout_outs
  <2>6. timeout_outs(s) \in Seq(Requests(s))
    BY <2>3, <2>4, <2>5
  <2> QED BY <1>2, <2>6
<1> QED BY <1>1, <1>2
=============================================================================
