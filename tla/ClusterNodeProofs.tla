------------------------- MODULE ClusterNodeProofs --------------------------
(***************************************************************************)
(* Theorems about ClusterNode: its inductive invariant, that every action  *)
(* keeps it, and the safety properties that follow for every group of      *)
(* nodes. Inv is about votes, logs and messages, Served about what the     *)
(* nodes have applied.                                                     *)
(***************************************************************************)
EXTENDS RaftLogs

-----------------------------------------------------------------------------
(* The whole group: the nodes, and what is queued, answered and late.      *)
Sent(n, S, E, L, A) == {m \in Messages : m.from = n /\ Sound(m, S, E, L, A)}
Wired(S, E, V, L, A, Q, F, W) ==
  /\ \A n \in Nodes, t \in Threads : Q[n][t] \in Seq(Sent(n, S, E, L, A))
  /\ \A n \in Nodes, t \in Threads : F[n][t] # Nil => F[n][t].to \in Nodes /\ Backed(F[n][t].reply, F[n][t].to, n, V, A)
  /\ \A m \in W : Sound(m, S, E, L, A)
Holds(S, E, V, L, A, Q, F, W, C) ==
  Core(S, E, V, L, A) /\ Wired(S, E, V, L, A, Q, F, W) /\ Settled(C, L, A)

\* A sequence over a set is one over a larger set.
LEMMA SeqOfMore == ASSUME NEW G, NEW H, G \subseteq H, NEW q \in Seq(G) PROVE q \in Seq(H)
<1>1. Len(q) \in Nat /\ q \in [1 .. Len(q) -> G]
  BY LenProperties
<1>2. q \in [1 .. Len(q) -> H]
  BY <1>1
<1> QED BY <1>1, <1>2, SeqDef

\* What was queued, answered or committed stays so.
LEMMA HoldsOn ==
  ASSUME NEW S, NEW E, NEW V, NEW L, NEW A, NEW Q, NEW F, NEW W, NEW C, Holds(S, E, V, L, A, Q, F, W, C),
         NEW S2, NEW E2, NEW V2, NEW L2, NEW A2, Reaches(S, E, V, L, A, S2, E2, V2, L2, A2)
  PROVE  Holds(S2, E2, V2, L2, A2, Q, F, W, C) /\ CommitsKeep(S, S2)
<1>1. Core(S, E, V, L, A) /\ Core(S2, E2, V2, L2, A2) /\ Evolves(S, E, V, L, A, S2, E2, V2, L2, A2)
  BY DEF Holds, Reaches
<1>2. ASSUME NEW m, Sound(m, S, E, L, A) PROVE Sound(m, S2, E2, L2, A2)
  BY <1>1, <1>2, SoundStays
<1>3. ASSUME NEW n \in Nodes, NEW t \in Threads PROVE Q[n][t] \in Seq(Sent(n, S2, E2, L2, A2))
  <2>1. PICK G : G = Sent(n, S, E, L, A)
    OBVIOUS
  <2>2. PICK H : H = Sent(n, S2, E2, L2, A2)
    OBVIOUS
  <2>3. G \subseteq H
    BY <1>2, <2>1, <2>2 DEF Sent
  <2>4. PICK q : q = Q[n][t]
    OBVIOUS
  <2>5. q \in Seq(G)
    BY <2>1, <2>4 DEF Holds, Wired
  <2>6. q \in Seq(H)
    BY <2>3, <2>5, SeqOfMore
  <2> QED BY <2>2, <2>4, <2>6
<1>4. ASSUME NEW n \in Nodes, NEW t \in Threads, F[n][t] # Nil
      PROVE  F[n][t].to \in Nodes /\ Backed(F[n][t].reply, F[n][t].to, n, V2, A2)
  <2>1. F[n][t].to \in Nodes /\ Backed(F[n][t].reply, F[n][t].to, n, V, A)
    BY <1>4 DEF Holds, Wired
  <2>2. PICK p \in Nodes : p = F[n][t].to
    BY <2>1
  <2>3. PICK r : r = F[n][t].reply
    OBVIOUS
  <2>4. Backed(r, p, n, V2, A2)
    BY <1>1, <2>1, <2>2, <2>3, BackedStays
  <2> QED BY <2>1, <2>2, <2>3, <2>4
<1>5. \A m \in W : Sound(m, S2, E2, L2, A2)
  BY <1>2 DEF Holds, Wired
<1>6. Settled(C, L2, A2)
  BY <1>1, SettledStays DEF Holds
<1>7. CommitsKeep(S, S2)
  BY <1>1 DEF Evolves
<1> QED BY <1>1, <1>3, <1>4, <1>5, <1>6, <1>7 DEF Holds, Wired

-----------------------------------------------------------------------------
(* The history variable committed.                                         *)
Longest(C, t) == IF t.commit_index > Len(C) THEN SubSeq(t.log, 1, t.commit_index) ELSE C

\* The committed prefix of a node is settled.
LEMMA LongestIsSettled ==
  ASSUME NEW S, NEW E, NEW V, NEW L, NEW A, Core(S, E, V, L, A), NEW n \in Nodes, NEW t, t = S[n], NodeState(t, n),
         NEW C, Settled(C, L, A), NEW D, D = Longest(C, t)
  PROVE  Settled(D, L, A)
<1>1. CASE ~(t.commit_index > Len(C))
  BY <1>1 DEF Longest
<1>2. CASE t.commit_index > Len(C)
  <2>1. PICK X \in Seq(Entries) : X = t.log
    BY StateFacts DEF NodeState
  <2>2. PICK c \in Nat : c = t.commit_index
    BY StateFacts DEF NodeState
  <2>3. PICK u \in Nat : u = t.current_term
    BY StateFacts DEF NodeState
  <2>4. Safe(L, A, X, c, u)
    BY <2>1, <2>2, <2>3 DEF Core, CommitsSafe
  <2>5. c <= Len(X)
    BY <2>4, SafeWithin
  <2>6. PICK Y : Y = Part(X, 1, c)
    OBVIOUS
  <2>7. Y \in Seq(Entries) /\ Len(Y) = c /\ Agree(Y, X, c)
    BY <2>5, <2>6, AgreeSelf, KeptPart
  <2>8. Safe(L, A, Y, c, u)
    BY <2>4, <2>7, AgreeBack, SafeShared
  <2>9. D = Y
    BY <1>2, <2>1, <2>2, <2>6 DEF Longest, Part
  <2> QED BY <2>7, <2>8, <2>9 DEF Settled
<1> QED BY <1>1, <1>2

-----------------------------------------------------------------------------
(* becomes(): one node's step as the rest of the group sees it.            *)
Turns(S, E, C, n, t, S2, E2, C2) ==
  Moved(S, S2, n) /\ S2[n] = t /\ E2 = Roll(E, t, n) /\ C2 = Longest(C, t)

\* When a node moves as the ghosts allow, all that is queued, in flight, late or
\* committed stays vouched for.
LEMMA DrivenHolds ==
  ASSUME NEW S, NEW E, NEW V, NEW L, NEW A, NEW Q, NEW F, NEW W, NEW C, Holds(S, E, V, L, A, Q, F, W, C),
         NEW n \in Nodes, NEW t, Driven(S, E, V, L, A, n, t), NEW S2, NEW E2, NEW C2, Turns(S, E, C, n, t, S2, E2, C2)
  PROVE  CommitsKeep(S, S2) /\ \E V2, L2, A2 : Holds(S2, E2, V2, L2, A2, Q, F, W, C2)
<1>1. NodeState(t, n) /\ Moved(S, S2, n) /\ S2[n] = t /\ E2 = Roll(E, t, n) /\ C2 = Longest(C, t)
  BY DEF Driven, Turns
<1>2. PICK V2, L2, A2 : Reaches(S, E, V, L, A, S2, Roll(E, t, n), V2, L2, A2)
  BY <1>1 DEF Driven
<1>3. Holds(S2, E2, V2, L2, A2, Q, F, W, C) /\ CommitsKeep(S, S2)
  BY <1>1, <1>2, HoldsOn
<1>4. Settled(C2, L2, A2)
  BY <1>1, <1>3, LongestIsSettled DEF Holds
<1>5. Holds(S2, E2, V2, L2, A2, Q, F, W, C2)
  BY <1>3, <1>4 DEF Holds
<1> QED BY <1>3, <1>5

\* The same for a node that handles a request, and its reply is backed.
LEMMA HandledHolds ==
  ASSUME NEW S, NEW E, NEW V, NEW L, NEW A, NEW Q, NEW F, NEW W, NEW C, Holds(S, E, V, L, A, Q, F, W, C),
         NEW n \in Nodes, NEW m, NEW h, Handled(S, E, V, L, A, n, m, h), NEW t, t = h.state,
         NEW S2, NEW E2, NEW C2, Turns(S, E, C, n, t, S2, E2, C2)
  PROVE  /\ CommitsKeep(S, S2)
         /\ \E V2, L2, A2 : Holds(S2, E2, V2, L2, A2, Q, F, W, C2) /\ Backed(h.reply, n, m.from, V2, A2)
<1>1. NodeState(t, n) /\ Moved(S, S2, n) /\ S2[n] = t /\ E2 = Roll(E, t, n) /\ C2 = Longest(C, t)
  BY DEF Handled, Turns
<1>2. PICK V2, L2, A2 : Reaches(S, E, V, L, A, S2, E, V2, L2, A2) /\ Backed(h.reply, n, m.from, V2, A2)
  BY <1>1 DEF Handled
<1>3. Holds(S2, E, V2, L2, A2, Q, F, W, C) /\ CommitsKeep(S, S2)
  BY <1>2, HoldsOn
<1>4. E2 = E
  <2>1. Core(S2, E, V2, L2, A2)
    BY <1>3 DEF Holds
  <2>2. Roll(E, S2[n], n) = E
    BY <2>1, RollKeeps
  <2> QED BY <1>1, <2>2
<1>5. Settled(C2, L2, A2)
  BY <1>1, <1>3, LongestIsSettled DEF Holds
<1>6. Holds(S2, E2, V2, L2, A2, Q, F, W, C2)
  BY <1>3, <1>4, <1>5 DEF Holds
<1> QED BY <1>2, <1>3, <1>6

Mailboxes == [Nodes -> [Threads -> Seq(Messages)]]
Requeue(Q, n, t, q) == [Q EXCEPT ![n][t] = q]
Land(F, n, t, f) == [F EXCEPT ![n][t] = f]
Trays(F) == DOMAIN F = Nodes /\ \A n \in Nodes : DOMAIN F[n] = Threads

\* What replacing one queue does.
LEMMA QueueAt ==
  ASSUME NEW Q \in Mailboxes, NEW n \in Nodes, NEW t \in Threads, NEW q \in Seq(Messages),
         NEW Q2, Q2 = Requeue(Q, n, t, q)
  PROVE  /\ Q2 \in Mailboxes /\ Q2[n][t] = q
         /\ \A p \in Nodes, u \in Threads : (p # n \/ u # t) => Q2[p][u] = Q[p][u]
BY DEF Mailboxes, Requeue

\* What is queued are requests.
LEMMA SentAreMessages ==
  ASSUME NEW n, NEW S, NEW E, NEW L, NEW A, NEW q \in Seq(Sent(n, S, E, L, A)) PROVE q \in Seq(Messages)
<1>1. PICK G : G = Sent(n, S, E, L, A)
  OBVIOUS
<1>2. G \subseteq Messages
  BY <1>1 DEF Sent
<1> QED BY <1>1, <1>2, SeqOfMore

\* A queue may be replaced by one of sound requests of its node.
LEMMA Requeued ==
  ASSUME NEW S, NEW E, NEW V, NEW L, NEW A, NEW Q \in Mailboxes, NEW F, NEW W, NEW C,
         Holds(S, E, V, L, A, Q, F, W, C), NEW n \in Nodes, NEW t \in Threads,
         NEW q, q \in Seq(Sent(n, S, E, L, A)), NEW Q2, Q2 = Requeue(Q, n, t, q)
  PROVE  Holds(S, E, V, L, A, Q2, F, W, C)
<1>1. q \in Seq(Messages)
  BY SentAreMessages
<1>2. Q2[n][t] = q /\ \A p \in Nodes, u \in Threads : (p # n \/ u # t) => Q2[p][u] = Q[p][u]
  BY <1>1, QueueAt
<1>3. ASSUME NEW p \in Nodes, NEW u \in Threads PROVE Q2[p][u] \in Seq(Sent(p, S, E, L, A))
  <2>1. CASE p = n /\ u = t
    BY <1>2, <2>1
  <2>2. CASE p # n \/ u # t
    BY <1>2, <2>2 DEF Holds, Wired
  <2> QED BY <2>1, <2>2
<1> QED BY <1>3 DEF Holds, Wired

\* A round trip may end, or be answered by a backed reply.
LEMMA Landed ==
  ASSUME NEW S, NEW E, NEW V, NEW L, NEW A, NEW Q, NEW F, NEW W, NEW C, Trays(F),
         Holds(S, E, V, L, A, Q, F, W, C), NEW n \in Nodes, NEW t \in Threads,
         NEW f, f # Nil => f.to \in Nodes /\ Backed(f.reply, f.to, n, V, A), NEW F2, F2 = Land(F, n, t, f)
  PROVE  Holds(S, E, V, L, A, Q, F2, W, C)
<1>1. F2[n][t] = f /\ \A p \in Nodes, u \in Threads : (p # n \/ u # t) => F2[p][u] = F[p][u]
  BY DEF Land, Trays
<1>2. ASSUME NEW p \in Nodes, NEW u \in Threads, F2[p][u] # Nil
      PROVE  F2[p][u].to \in Nodes /\ Backed(F2[p][u].reply, F2[p][u].to, p, V, A)
  <2>1. CASE p = n /\ u = t
    BY <1>1, <1>2, <2>1
  <2>2. CASE p # n \/ u # t
    BY <1>1, <1>2, <2>2 DEF Holds, Wired
  <2> QED BY <2>1, <2>2
<1> QED BY <1>2 DEF Holds, Wired

-----------------------------------------------------------------------------
(* The inductive invariant of ClusterNode.                                 *)
Owned == st \in [Nodes -> RaftStates] /\ \A n \in Nodes : NodeState(st[n], n)
Framed == queue \in Mailboxes /\ Trays(flight)
Flying ==
  \A n \in Nodes, t \in Threads : flight[n][t] # Nil =>
    flight[n][t].to \in Nodes /\ flight[n][t].to # n /\ queue[n][t] # << >>
Resting == proposed \subseteq Nodes /\ \A n \in proposed : queue[n][ClientThread] = << >>
Applying ==
  /\ applying \in [Nodes -> Seq(AllOps \cup {Noop})] /\ store \in [Nodes -> SUBSET Triples]
  /\ config \in [Nodes -> [epoch : Nat, members : SUBSET Members]] /\ alive \in [Nodes -> BOOLEAN]
Local == Owned /\ Framed /\ Flying /\ Resting /\ Applying
Vouched == \E V, L, A : Holds(st, elected, V, L, A, queue, flight, late, committed)
Inv == Local /\ Vouched
Kept == CommitsKeep(st, st')

\* becomes() moves one node and lets the history variables follow.
LEMMA Becoming ==
  ASSUME Owned, NEW n \in Nodes, NEW s, becomes(n, s), NodeState(s, n)
  PROVE  Turns(st, elected, committed, n, s, st', elected', committed') /\ Owned'
<1>1. Moved(st, st', n) /\ st'[n] = s
  BY DEF Owned, becomes, Moved
<1>2. s \in RaftStates
  BY DEF NodeState
<1>3. Owned'
  BY <1>2 DEF Owned, becomes
<1>4. elected' = Roll(elected, s, n) /\ committed' = Longest(committed, s)
  BY DEF becomes, Roll, Longest
<1> QED BY <1>1, <1>3, <1>4 DEF Turns

\* One thread's queue is replaced.
LEMMA QueueSet ==
  ASSUME Framed, NEW n \in Nodes, NEW t \in Threads, NEW q \in Seq(Messages), queue' = Requeue(queue, n, t, q)
  PROVE  /\ queue' \in Mailboxes /\ queue'[n][t] = q
         /\ \A p \in Nodes, u \in Threads : (p # n \/ u # t) => queue'[p][u] = queue[p][u]
<1>1. PICK Q \in Mailboxes : Q = queue
  BY DEF Framed
<1>2. PICK Q2 : Q2 = Requeue(Q, n, t, q)
  OBVIOUS
<1>3. /\ Q2 \in Mailboxes /\ Q2[n][t] = q
      /\ \A p \in Nodes, u \in Threads : (p # n \/ u # t) => Q2[p][u] = Q[p][u]
  BY <1>2, QueueAt
<1>4. queue' = Q2
  BY <1>1, <1>2
<1> QED BY <1>1, <1>3, <1>4

\* The thread of the clients is one of the node's threads.
LEMMA ClientIsThread == ClientThread \in Threads /\ "driver" \in Threads
BY BoundsAssumption DEF ClientThread

\* A node that becomes a state the ghosts allow keeps the invariant.
LEMMA DrivenStep ==
  ASSUME Owned, NEW V, NEW L, NEW A, Holds(st, elected, V, L, A, queue, flight, late, committed),
         NEW n \in Nodes, NEW s, Driven(st, elected, V, L, A, n, s), becomes(n, s)
  PROVE  /\ Owned' /\ Kept
         /\ \E V2, L2, A2 : Holds(st', elected', V2, L2, A2, queue, flight, late, committed')
<1>1. Turns(st, elected, committed, n, s, st', elected', committed') /\ Owned'
  BY Becoming DEF Driven
<1>2. PICK S : S = st
  OBVIOUS
<1>3. PICK E : E = elected
  OBVIOUS
<1>4. PICK C : C = committed
  OBVIOUS
<1>5. PICK S2 : S2 = st'
  OBVIOUS
<1>6. PICK E2 : E2 = elected'
  OBVIOUS
<1>7. PICK C2 : C2 = committed'
  OBVIOUS
<1>8. PICK Q : Q = queue
  OBVIOUS
<1>9. PICK F : F = flight
  OBVIOUS
<1>10. PICK W : W = late
  OBVIOUS
<1>11. Holds(S, E, V, L, A, Q, F, W, C) /\ Driven(S, E, V, L, A, n, s) /\ Turns(S, E, C, n, s, S2, E2, C2)
  BY <1>1, <1>2, <1>3, <1>4, <1>5, <1>6, <1>7, <1>8, <1>9, <1>10
<1>12. CommitsKeep(S, S2) /\ \E V2, L2, A2 : Holds(S2, E2, V2, L2, A2, Q, F, W, C2)
  BY <1>11, DrivenHolds
<1>13. PICK V2, L2, A2 : Holds(S2, E2, V2, L2, A2, Q, F, W, C2)
  BY <1>12
<1>14. Holds(st', elected', V2, L2, A2, queue, flight, late, committed')
  BY <1>5, <1>6, <1>7, <1>8, <1>9, <1>10, <1>13
<1>15. Kept
  BY <1>2, <1>5, <1>12 DEF Kept
<1> QED BY <1>1, <1>14, <1>15

\* A node that becomes the answer to a sound request keeps the invariant.
LEMMA HandledStep ==
  ASSUME Owned, NEW V, NEW L, NEW A, Holds(st, elected, V, L, A, queue, flight, late, committed),
         NEW n \in Nodes, NEW m, Sound(m, st, elected, L, A), m.to = n,
         NEW h, h = handle(st[n], m), becomes(n, h.state)
  PROVE  /\ Owned' /\ Kept
         /\ \E V2, L2, A2 : /\ Holds(st', elected', V2, L2, A2, queue, flight, late, committed')
                            /\ Backed(h.reply, n, m.from, V2, A2)
<1>2. PICK S : S = st
  OBVIOUS
<1>3. PICK E : E = elected
  OBVIOUS
<1>4. PICK C : C = committed
  OBVIOUS
<1>5. PICK S2 : S2 = st'
  OBVIOUS
<1>6. PICK E2 : E2 = elected'
  OBVIOUS
<1>7. PICK C2 : C2 = committed'
  OBVIOUS
<1>8. PICK Q : Q = queue
  OBVIOUS
<1>9. PICK F : F = flight
  OBVIOUS
<1>10. PICK W : W = late
  OBVIOUS
<1>11. PICK s : s = h.state
  OBVIOUS
<1>12. Handled(S, E, V, L, A, n, m, h)
  <2>1. Core(S, E, V, L, A)
    BY <1>2, <1>3 DEF Holds
  <2>2. NodeState(S[n], n) /\ h = handle(S[n], m) /\ Sound(m, S, E, L, A)
    BY <1>2, <1>3 DEF Owned
  <2> QED BY <2>1, <2>2, RequestHandled
<1>13. Turns(st, elected, committed, n, s, st', elected', committed') /\ Owned'
  <2>1. NodeState(s, n) /\ becomes(n, s)
    BY <1>11, <1>12 DEF Handled
  <2> QED BY <2>1, Becoming
<1>14. Holds(S, E, V, L, A, Q, F, W, C) /\ Turns(S, E, C, n, s, S2, E2, C2)
  BY <1>2, <1>3, <1>4, <1>5, <1>6, <1>7, <1>8, <1>9, <1>10, <1>13
<1>15. /\ CommitsKeep(S, S2)
       /\ \E V2, L2, A2 : Holds(S2, E2, V2, L2, A2, Q, F, W, C2) /\ Backed(h.reply, n, m.from, V2, A2)
  BY <1>11, <1>12, <1>14, HandledHolds
<1>16. PICK V2, L2, A2 : Holds(S2, E2, V2, L2, A2, Q, F, W, C2) /\ Backed(h.reply, n, m.from, V2, A2)
  BY <1>15
<1>17. Holds(st', elected', V2, L2, A2, queue, flight, late, committed')
  BY <1>5, <1>6, <1>7, <1>8, <1>9, <1>10, <1>16
<1>18. Kept
  BY <1>2, <1>5, <1>15 DEF Kept
<1> QED BY <1>13, <1>16, <1>17, <1>18

\* After the step of a node the queues and round trips follow.
LEMMA QueueStep ==
  ASSUME NEW S, NEW E, NEW C, NEW F, NEW W, NEW V, NEW L, NEW A, Holds(S, E, V, L, A, queue, F, W, C), Framed,
         NEW n \in Nodes, NEW t \in Threads, NEW q, q \in Seq(Sent(n, S, E, L, A)), queue' = Requeue(queue, n, t, q)
  PROVE  /\ Holds(S, E, V, L, A, queue', F, W, C)
         /\ queue' \in Mailboxes /\ queue'[n][t] = q
         /\ \A p \in Nodes, u \in Threads : (p # n \/ u # t) => queue'[p][u] = queue[p][u]
<1>1. PICK Q \in Mailboxes : Q = queue
  BY DEF Framed
<1>2. PICK Q2 : Q2 = queue'
  OBVIOUS
<1>3. Holds(S, E, V, L, A, Q, F, W, C) /\ Q2 = Requeue(Q, n, t, q)
  BY <1>1, <1>2
<1>4. Holds(S, E, V, L, A, Q2, F, W, C)
  BY <1>3, Requeued
<1>5. q \in Seq(Messages)
  BY SentAreMessages
<1>6. /\ queue' \in Mailboxes /\ queue'[n][t] = q
      /\ \A p \in Nodes, u \in Threads : (p # n \/ u # t) => queue'[p][u] = queue[p][u]
  BY <1>5, QueueSet
<1> QED BY <1>2, <1>4, <1>6

\* The same for a round trip.
LEMMA FlightStep ==
  ASSUME NEW S, NEW E, NEW C, NEW Q, NEW W, NEW V, NEW L, NEW A, Holds(S, E, V, L, A, Q, flight, W, C), Framed,
         NEW n \in Nodes, NEW t \in Threads, NEW f, f # Nil => f.to \in Nodes /\ Backed(f.reply, f.to, n, V, A),
         flight' = Land(flight, n, t, f)
  PROVE  /\ Holds(S, E, V, L, A, Q, flight', W, C)
         /\ Trays(flight') /\ flight'[n][t] = f
         /\ \A p \in Nodes, u \in Threads : (p # n \/ u # t) => flight'[p][u] = flight[p][u]
<1>1. PICK F : F = flight
  OBVIOUS
<1>2. PICK F2 : F2 = flight'
  OBVIOUS
<1>3. Holds(S, E, V, L, A, Q, F, W, C) /\ F2 = Land(F, n, t, f) /\ Trays(F)
  BY <1>1, <1>2 DEF Framed
<1>4. Holds(S, E, V, L, A, Q, F2, W, C)
  BY <1>3, Landed
<1>5. /\ Trays(F2) /\ F2[n][t] = f
      /\ \A p \in Nodes, u \in Threads : (p # n \/ u # t) => F2[p][u] = F[p][u]
  BY <1>3 DEF Land, Trays
<1> QED BY <1>1, <1>2, <1>4, <1>5

\* What handle_reply() sends from the new state is sound there.
LEMMA OutsAreSent ==
  ASSUME NEW S, NEW E, NEW V, NEW L, NEW A, Core(S, E, V, L, A), NEW n \in Nodes, NEW s, s = S[n],
         NodeState(s, n), NEW q, Outs(q, s)
  PROVE  q \in Seq(Sent(n, S, E, L, A))
<1>1. PICK G : G = Sent(n, S, E, L, A)
  OBVIOUS
<1>2. CASE q = << >>
  BY <1>2
<1>3. CASE s.role = "Leader" /\ q \in Seq(Sends(s))
  <2>1. \A m \in Sends(s) : Sound(m, S, E, L, A) /\ m.from = n
    BY <1>3, SendsAreSound
  <2>2. Sends(s) \subseteq G
    BY <1>1, <2>1 DEF Sent, Sound
  <2>3. PICK H : H = Sends(s)
    OBVIOUS
  <2>4. q \in Seq(G)
    BY <1>3, <2>2, <2>3, SeqOfMore
  <2> QED BY <1>1, <2>4
<1> QED BY <1>2, <1>3 DEF Outs

\* What tick() sends from the new state is sound there.
LEMMA TimeoutIsSent ==
  ASSUME NEW S, NEW E, NEW V, NEW L, NEW A, Core(S, E, V, L, A), NEW n \in Nodes, NEW s, s = S[n],
         NodeState(s, n), s.role # "Leader" => s.current_term \in Terms, NEW q, q = timeout_outs(s)
  PROVE  q \in Seq(Sent(n, S, E, L, A))
<1>1. CASE s.role = "Leader"
  <2>1. q \in Seq(Sends(s))
    BY <1>1, TimeoutSends
  <2> QED BY <1>1, <2>1, OutsAreSent DEF Outs
<1>2. CASE s.role # "Leader"
  <2>1. PICK G : G = Sent(n, S, E, L, A)
    OBVIOUS
  <2>2. PICK H : H = Requests(s)
    OBVIOUS
  <2>3. q \in Seq(H)
    BY <1>2, <2>2, TimeoutSends
  <2>4. \A m \in Requests(s) : Sound(m, S, E, L, A) /\ m.from = n
    BY <1>2, RequestsAreSound
  <2>5. H \subseteq G
    BY <2>1, <2>2, <2>4 DEF Sent, Sound
  <2>6. q \in Seq(G)
    BY <2>3, <2>5, SeqOfMore
  <2> QED BY <2>1, <2>6
<1> QED BY <1>1, <1>2

\* tick() keeps the invariant.
LEMMA TickStep == ASSUME Inv, NEW n \in Nodes, tick(n) PROVE Inv' /\ Kept
<1>1. Owned /\ Framed /\ Flying /\ Resting /\ Applying
  BY DEF Inv, Local
<1>2. PICK V, L, A : Holds(st, elected, V, L, A, queue, flight, late, committed)
  BY DEF Inv, Vouched
<1>3. PICK s : s = timeout(st[n])
  OBVIOUS
<1>4. /\ becomes(n, s) /\ queue' = Requeue(queue, n, "driver", timeout_outs(s)) /\ queue[n]["driver"] = << >>
      /\ (ClientThread = "driver" => n \notin proposed)
      /\ flight' = flight /\ late' = late /\ proposed' = proposed
  BY <1>3 DEF tick, Requeue
<1>5. st[n].role # "Leader" => st[n].current_term + 1 \in Terms
  BY DEF tick, Terms
<1>6. Driven(st, elected, V, L, A, n, s) /\ (s.role # "Leader" => s.current_term \in Terms)
  <2>1. PICK S : S = st
    OBVIOUS
  <2>2. PICK E : E = elected
    OBVIOUS
  <2>3. PICK r : r = S[n]
    OBVIOUS
  <2>4. Core(S, E, V, L, A) /\ NodeState(r, n) /\ (r.role # "Leader" => r.current_term + 1 \in Terms) /\ s = timeout(r)
    BY <1>1, <1>2, <1>3, <1>5, <2>1, <2>2, <2>3 DEF Holds, Owned
  <2>5. Driven(S, E, V, L, A, n, s) /\ (s.role # "Leader" => s.current_term \in Terms)
    BY <2>3, <2>4, TimeoutDriven
  <2> QED BY <2>1, <2>2, <2>5
<1>7. /\ Owned' /\ Kept
      /\ \E V2, L2, A2 : Holds(st', elected', V2, L2, A2, queue, flight, late, committed')
  BY <1>1, <1>2, <1>4, <1>6, DrivenStep
<1>8. PICK V2, L2, A2 : Holds(st', elected', V2, L2, A2, queue, flight, late, committed')
  BY <1>7
<1>9. PICK S2 : S2 = st'
  OBVIOUS
<1>10. PICK E2 : E2 = elected'
  OBVIOUS
<1>11. PICK q : q = timeout_outs(s)
  OBVIOUS
<1>12. q \in Seq(Sent(n, S2, E2, L2, A2))
  <2>1. Core(S2, E2, V2, L2, A2)
    BY <1>8, <1>9, <1>10 DEF Holds
  <2>2. s = S2[n]
    BY <1>1, <1>4, <1>9 DEF becomes, Owned
  <2>3. NodeState(s, n)
    BY <1>6 DEF Driven
  <2> QED BY <1>6, <1>11, <2>1, <2>2, <2>3, TimeoutIsSent
<1>13. PICK C2 : C2 = committed'
  OBVIOUS
<1>14. PICK F : F = flight
  OBVIOUS
<1>15. PICK W : W = late
  OBVIOUS
<1>16. /\ Holds(S2, E2, V2, L2, A2, queue', F, W, C2)
       /\ queue' \in Mailboxes /\ queue'[n]["driver"] = q
       /\ \A p \in Nodes, u \in Threads : (p # n \/ u # "driver") => queue'[p][u] = queue[p][u]
  <2>1. Holds(S2, E2, V2, L2, A2, queue, F, W, C2)
    BY <1>8, <1>9, <1>10, <1>13, <1>14, <1>15
  <2>2. queue' = Requeue(queue, n, "driver", q)
    BY <1>4, <1>11
  <2> QED BY <1>1, <1>12, <2>1, <2>2, ClientIsThread, QueueStep
<1>17. Holds(st', elected', V2, L2, A2, queue', flight', late', committed')
  BY <1>4, <1>9, <1>10, <1>13, <1>14, <1>15, <1>16
<1>18. Framed' /\ Flying'
  BY <1>1, <1>4, <1>16 DEF Framed, Flying
<1>19. Resting'
  BY <1>1, <1>4, <1>16, ClientIsThread DEF Resting
<1>20. Applying'
  BY <1>1 DEF Applying, tick, machine
<1> QED BY <1>7, <1>17, <1>18, <1>19, <1>20 DEF Inv, Local, Vouched

\* The first half of propose() keeps the invariant.
LEMMA ClientWriteStep ==
  ASSUME Inv, NEW n \in Nodes, NEW op \in Ops[n], client_write(n, op) PROVE Inv' /\ Kept
<1>1. Owned /\ Framed /\ Flying /\ Resting /\ Applying
  BY DEF Inv, Local
<1>2. PICK V, L, A : Holds(st, elected, V, L, A, queue, flight, late, committed)
  BY DEF Inv, Vouched
<1>3. PICK s : s = propose(st[n], op)
  OBVIOUS
<1>4. /\ becomes(n, s) /\ queue' = queue /\ queue[n][ClientThread] = << >> /\ st[n].role = "Leader"
      /\ flight' = flight /\ late' = late /\ proposed' = proposed \cup {n}
  BY <1>3 DEF client_write
<1>5. Driven(st, elected, V, L, A, n, s)
  <2>1. PICK S : S = st
    OBVIOUS
  <2>2. PICK E : E = elected
    OBVIOUS
  <2>3. PICK r : r = S[n]
    OBVIOUS
  <2>4. Core(S, E, V, L, A) /\ NodeState(r, n) /\ r.role = "Leader" /\ s = propose(r, op)
    BY <1>1, <1>2, <1>3, <1>4, <2>1, <2>2, <2>3 DEF Holds, Owned
  <2>5. op \in AllOps
    BY BoundsAssumption DEF AllOps
  <2>6. Driven(S, E, V, L, A, n, s)
    BY <2>3, <2>4, <2>5, ProposeDriven
  <2> QED BY <2>1, <2>2, <2>6
<1>6. /\ Owned' /\ Kept
      /\ \E V2, L2, A2 : Holds(st', elected', V2, L2, A2, queue, flight, late, committed')
  BY <1>1, <1>2, <1>4, <1>5, DrivenStep
<1>7. Vouched'
  BY <1>4, <1>6 DEF Vouched
<1>8. Framed' /\ Flying' /\ Resting'
  BY <1>1, <1>4 DEF Framed, Flying, Resting
<1>9. Applying'
  BY <1>1 DEF Applying, client_write, machine
<1> QED BY <1>6, <1>7, <1>8, <1>9 DEF Inv, Local

\* What is committed is within the log.
LEMMA CommitWithin ==
  ASSUME NEW S, NEW E, NEW V, NEW L, NEW A, Core(S, E, V, L, A), NEW n \in Nodes, NodeState(S[n], n)
  PROVE  S[n].commit_index <= Len(S[n].log)
<1>1. PICK X \in Seq(Entries) : X = S[n].log
  BY StateFacts DEF NodeState
<1>2. PICK c \in Nat : c = S[n].commit_index
  BY StateFacts DEF NodeState
<1>3. PICK u \in Nat : u = S[n].current_term
  BY StateFacts DEF NodeState
<1>4. Safe(L, A, X, c, u)
  BY <1>1, <1>2, <1>3 DEF Core, CommitsSafe
<1> QED BY <1>1, <1>2, <1>4, SafeWithin

\* The same, of the variables of the specification.
LEMMA CommitWithinLog == ASSUME Inv, NEW n \in Nodes PROVE st[n].commit_index <= Len(st[n].log)
<1>1. PICK V, L, A : Holds(st, elected, V, L, A, queue, flight, late, committed)
  BY DEF Inv, Vouched
<1>2. PICK S : S = st
  OBVIOUS
<1>3. PICK E : E = elected
  OBVIOUS
<1>4. Core(S, E, V, L, A) /\ NodeState(S[n], n)
  BY <1>1, <1>2, <1>3 DEF Holds, Inv, Local, Owned
<1> QED BY <1>2, <1>4, CommitWithin

\* A step that leaves the states of the nodes alone.
LEMMA Unmoved == ASSUME Inv, st' = st PROVE Owned' /\ Kept
<1>1. Owned
  BY DEF Inv, Local
<1>2. Owned'
  BY <1>1 DEF Owned
<1>3. ASSUME NEW p \in Nodes
      PROVE  st[p].commit_index <= st'[p].commit_index /\ Agree(st[p].log, st'[p].log, st[p].commit_index)
  <2>1. PICK X : X = st[p].log
    OBVIOUS
  <2>2. PICK c \in Nat : c = st[p].commit_index
    BY <1>1, StateFacts DEF Owned, NodeState
  <2>3. c <= Len(X)
    BY <2>1, <2>2, CommitWithinLog
  <2>4. Agree(X, X, c)
    BY <2>3, AgreeSelf
  <2> QED BY <2>1, <2>2, <2>4
<1> QED BY <1>2, <1>3 DEF Kept, CommitsKeep

\* The second half of propose() keeps the invariant, though the node may have
\* lost its leadership in between.
LEMMA ReplicateStep == ASSUME Inv, NEW n \in Nodes, replicate_now(n) PROVE Inv' /\ Kept
<1>1. Owned /\ Framed /\ Flying /\ Resting /\ Applying
  BY DEF Inv, Local
<1>2. PICK V, L, A : Holds(st, elected, V, L, A, queue, flight, late, committed)
  BY DEF Inv, Vouched
<1>3. PICK q : q = IF st[n].role = "Leader" THEN replicate(st[n]) ELSE << >>
  OBVIOUS
<1>4. /\ queue' = Requeue(queue, n, ClientThread, q) /\ proposed' = proposed \ {n} /\ n \in proposed
      /\ st' = st /\ elected' = elected /\ committed' = committed /\ flight' = flight /\ late' = late
  BY <1>3 DEF replicate_now, Requeue, raft
<1>5. Owned' /\ Kept
  BY <1>4, Unmoved
<1>6. PICK S : S = st
  OBVIOUS
<1>7. PICK E : E = elected
  OBVIOUS
<1>8. q \in Seq(Sent(n, S, E, L, A))
  <2>1. PICK s : s = S[n]
    OBVIOUS
  <2>2. Core(S, E, V, L, A) /\ NodeState(s, n)
    BY <1>1, <1>2, <1>6, <1>7, <2>1 DEF Holds, Owned
  <2>3. q = IF s.role = "Leader" THEN replicate(s) ELSE << >>
    BY <1>3, <1>6, <2>1
  <2>4. Outs(q, s)
    BY <2>3, Replicates DEF Outs
  <2> QED BY <2>1, <2>2, <2>4, OutsAreSent
<1>9. PICK C : C = committed
  OBVIOUS
<1>10. PICK F : F = flight
  OBVIOUS
<1>11. PICK W : W = late
  OBVIOUS
<1>12. Holds(S, E, V, L, A, queue, F, W, C)
  BY <1>2, <1>6, <1>7, <1>9, <1>10, <1>11
<1>13. /\ Holds(S, E, V, L, A, queue', F, W, C)
       /\ queue' \in Mailboxes /\ queue'[n][ClientThread] = q
       /\ \A p \in Nodes, u \in Threads : (p # n \/ u # ClientThread) => queue'[p][u] = queue[p][u]
  BY <1>1, <1>4, <1>8, <1>12, ClientIsThread, QueueStep
<1>14. Holds(st', elected', V, L, A, queue', flight', late', committed')
  BY <1>4, <1>6, <1>7, <1>9, <1>10, <1>11, <1>13
<1>15. Vouched'
  BY <1>14 DEF Vouched
<1>16. queue[n][ClientThread] = << >>
  BY <1>1, <1>4 DEF Resting
<1>17. Framed' /\ Flying'
  BY <1>1, <1>4, <1>13, <1>16 DEF Framed, Flying
<1>18. Resting'
  BY <1>1, <1>4, <1>13, ClientIsThread DEF Resting
<1>19. Applying'
  BY <1>1 DEF Applying, replicate_now, machine
<1> QED BY <1>5, <1>15, <1>17, <1>18, <1>19 DEF Inv, Local

\* The head of a queue is a sound message of its node, and what follows it
\* is too.
LEMMA HeadAndTail ==
  ASSUME NEW G, NEW q \in Seq(G), q # << >> PROVE Head(q) \in G /\ Tail(q) \in Seq(G)
BY HeadTailProperties

\* The message a thread sends next is sound, and so is the rest of its queue.
LEMMA QueueHead ==
  ASSUME NEW S, NEW E, NEW V, NEW L, NEW A, NEW Q, NEW F, NEW W, NEW C, Holds(S, E, V, L, A, Q, F, W, C),
         NEW n \in Nodes, NEW t \in Threads, Q[n][t] # << >>, NEW m, m = Head(Q[n][t])
  PROVE  Sound(m, S, E, L, A) /\ m.from = n /\ m.to \in Nodes /\ m.to # n /\ Tail(Q[n][t]) \in Seq(Sent(n, S, E, L, A))
<1>1. PICK G : G = Sent(n, S, E, L, A)
  OBVIOUS
<1>2. PICK q : q = Q[n][t]
  OBVIOUS
<1>3. q \in Seq(G)
  BY <1>1, <1>2 DEF Holds, Wired
<1>4. m \in G /\ Tail(q) \in Seq(G)
  BY <1>2, <1>3, HeadAndTail
<1>5. Sound(m, S, E, L, A) /\ m.from = n /\ m \in Messages
  BY <1>1, <1>4 DEF Sent
<1>6. m.to \in Nodes /\ m.to # n
  BY <1>5, MessageFacts DEF Sound
<1> QED BY <1>1, <1>2, <1>4, <1>5, <1>6

\* The same, of the variables of the specification.
LEMMA HeadOf ==
  ASSUME Framed, NEW V, NEW L, NEW A, Holds(st, elected, V, L, A, queue, flight, late, committed),
         NEW n \in Nodes, NEW t \in Threads, queue[n][t] # << >>, NEW m, m = Head(queue[n][t])
  PROVE  /\ Sound(m, st, elected, L, A) /\ m.from = n /\ m.to \in Nodes /\ m.to # n
         /\ Tail(queue[n][t]) \in Seq(Sent(n, st, elected, L, A))
<1>1. PICK S : S = st
  OBVIOUS
<1>2. PICK E : E = elected
  OBVIOUS
<1>3. PICK Q : Q = queue
  OBVIOUS
<1>4. PICK F : F = flight
  OBVIOUS
<1>5. PICK W : W = late
  OBVIOUS
<1>6. PICK C : C = committed
  OBVIOUS
<1>7. Holds(S, E, V, L, A, Q, F, W, C) /\ Q[n][t] # << >> /\ m = Head(Q[n][t])
  BY <1>1, <1>2, <1>3, <1>4, <1>5, <1>6
<1>8. Sound(m, S, E, L, A) /\ m.from = n /\ m.to \in Nodes /\ m.to # n /\ Tail(Q[n][t]) \in Seq(Sent(n, S, E, L, A))
  BY <1>7, QueueHead
<1> QED BY <1>1, <1>2, <1>3, <1>8

\* handle_request() keeps the invariant.
LEMMA RequestStep ==
  ASSUME Inv, NEW n \in Nodes, NEW t \in Threads, handle_request(n, t) PROVE Inv' /\ Kept
<1>1. Owned /\ Framed /\ Flying /\ Resting /\ Applying
  BY DEF Inv, Local
<1>2. PICK V, L, A : Holds(st, elected, V, L, A, queue, flight, late, committed)
  BY DEF Inv, Vouched
<1>3. PICK m : m = Head(queue[n][t])
  OBVIOUS
<1>4. PICK h : h = handle(st[m.to], m)
  OBVIOUS
<1>5. PICK f : f = [to |-> m.to, reply |-> h.reply]
  OBVIOUS
<1>6. /\ queue[n][t] # << >> /\ becomes(m.to, h.state) /\ flight' = Land(flight, n, t, f)
      /\ queue' = queue /\ late' = late /\ proposed' = proposed
  BY <1>3, <1>4, <1>5 DEF handle_request, Land
<1>7. Sound(m, st, elected, L, A) /\ m.from = n /\ m.to \in Nodes /\ m.to # n
  BY <1>1, <1>2, <1>3, <1>6, HeadOf
<1>8. PICK p \in Nodes : p = m.to
  BY <1>7
<1>9. /\ Owned' /\ Kept
      /\ \E V2, L2, A2 : /\ Holds(st', elected', V2, L2, A2, queue, flight, late, committed')
                         /\ Backed(h.reply, p, m.from, V2, A2)
  <2>1. h = handle(st[p], m) /\ becomes(p, h.state) /\ m.to = p
    BY <1>4, <1>6, <1>8
  <2> QED BY <1>1, <1>2, <1>7, <2>1, HandledStep
<1>10. PICK V2, L2, A2 : /\ Holds(st', elected', V2, L2, A2, queue, flight, late, committed')
                         /\ Backed(h.reply, p, m.from, V2, A2)
  BY <1>9
<1>11. PICK S2 : S2 = st'
  OBVIOUS
<1>12. PICK E2 : E2 = elected'
  OBVIOUS
<1>13. PICK C2 : C2 = committed'
  OBVIOUS
<1>14. PICK Q : Q = queue
  OBVIOUS
<1>15. PICK W : W = late
  OBVIOUS
<1>16. f.to = p /\ f.reply = h.reply
  BY <1>5, <1>8
<1>17. f.to \in Nodes /\ Backed(f.reply, f.to, n, V2, A2)
  BY <1>7, <1>10, <1>16
<1>18. /\ Holds(S2, E2, V2, L2, A2, Q, flight', W, C2)
       /\ Trays(flight') /\ flight'[n][t] = f
       /\ \A q \in Nodes, u \in Threads : (q # n \/ u # t) => flight'[q][u] = flight[q][u]
  <2>1. Holds(S2, E2, V2, L2, A2, Q, flight, W, C2)
    BY <1>10, <1>11, <1>12, <1>13, <1>14, <1>15
  <2> QED BY <1>1, <1>6, <1>17, <2>1, FlightStep
<1>19. Holds(st', elected', V2, L2, A2, queue', flight', late', committed')
  BY <1>6, <1>11, <1>12, <1>13, <1>14, <1>15, <1>18
<1>20. Vouched'
  BY <1>19 DEF Vouched
<1>21. Framed' /\ Flying'
  BY <1>1, <1>6, <1>7, <1>8, <1>16, <1>18 DEF Framed, Flying
<1>22. Resting'
  BY <1>1, <1>6 DEF Resting
<1>23. Applying'
  BY <1>1 DEF Applying, handle_request, machine
<1> QED BY <1>9, <1>20, <1>21, <1>22, <1>23 DEF Inv, Local

\* handle() of a request that was given up on keeps the invariant.
LEMMA LateStep == ASSUME Inv, NEW m \in late, handle_late(m) PROVE Inv' /\ Kept
<1>1. Owned /\ Framed /\ Flying /\ Resting /\ Applying
  BY DEF Inv, Local
<1>2. PICK V, L, A : Holds(st, elected, V, L, A, queue, flight, late, committed)
  BY DEF Inv, Vouched
<1>3. PICK h : h = handle(st[m.to], m)
  OBVIOUS
<1>4. /\ becomes(m.to, h.state) /\ flight' = flight
      /\ queue' = queue /\ late' = late /\ proposed' = proposed
  BY <1>3 DEF handle_late, threads
<1>5. Sound(m, st, elected, L, A)
  BY <1>2 DEF Holds, Wired
<1>6. PICK p \in Nodes : p = m.to
  BY <1>5, MessageFacts DEF Sound
<1>7. /\ Owned' /\ Kept
      /\ \E V2, L2, A2 : /\ Holds(st', elected', V2, L2, A2, queue, flight, late, committed')
                         /\ Backed(h.reply, p, m.from, V2, A2)
  <2>1. h = handle(st[p], m) /\ becomes(p, h.state) /\ m.to = p
    BY <1>3, <1>4, <1>6
  <2> QED BY <1>1, <1>2, <1>5, <2>1, HandledStep
<1>8. Vouched'
  BY <1>4, <1>7 DEF Vouched
<1>9. Framed' /\ Flying' /\ Resting'
  BY <1>1, <1>4 DEF Framed, Flying, Resting
<1>10. Applying'
  BY <1>1 DEF Applying, handle_late, machine
<1> QED BY <1>7, <1>8, <1>9, <1>10 DEF Inv, Local

\* A queue extended by what handle_reply() sends (dispatch_outgoing).
LEMMA Extended ==
  ASSUME NEW G, NEW q \in Seq(G), NEW r \in Seq(G) PROVE q \o r \in Seq(G)
BY ConcatProperties

\* dispatch_outgoing() keeps the invariant as it takes a reply, though the node
\* may have moved on since it sent the request.
LEMMA ReplyStep == ASSUME Inv, NEW n \in Nodes, NEW t \in Threads, receive_reply(n, t) PROVE Inv' /\ Kept
<1>1. Owned /\ Framed /\ Flying /\ Resting /\ Applying
  BY DEF Inv, Local
<1>2. PICK V, L, A : Holds(st, elected, V, L, A, queue, flight, late, committed)
  BY DEF Inv, Vouched
<1>3. PICK f : f = flight[n][t]
  OBVIOUS
<1>4. PICK h : h = handle_reply(st[n], f.to, f.reply)
  OBVIOUS
<1>5. /\ f # Nil /\ becomes(n, h.state) /\ queue' = [queue EXCEPT ![n][t] = Tail(@) \o h.outs]
      /\ flight' = Land(flight, n, t, Nil) /\ late' = late /\ proposed' = proposed
  BY <1>3, <1>4 DEF receive_reply, Land
<1>6. f.to \in Nodes /\ f.to # n /\ queue[n][t] # << >>
  BY <1>1, <1>3, <1>5 DEF Flying
<1>8. PICK p \in Nodes : p = f.to
  BY <1>6
<1>9. PICK r : r = f.reply
  OBVIOUS
<1>10. PICK s : s = h.state
  OBVIOUS
<1>11. Backed(r, p, n, V, A)
  BY <1>2, <1>3, <1>5, <1>8, <1>9 DEF Holds, Wired
<1>12. Driven(st, elected, V, L, A, n, s) /\ Outs(h.outs, s)
  <2>1. PICK S : S = st
    OBVIOUS
  <2>2. PICK E : E = elected
    OBVIOUS
  <2>3. PICK o : o = S[n]
    OBVIOUS
  <2>4. Core(S, E, V, L, A) /\ NodeState(o, n) /\ h = handle_reply(o, p, r) /\ p # n
    BY <1>1, <1>2, <1>4, <1>6, <1>8, <1>9, <2>1, <2>2, <2>3 DEF Holds, Owned
  <2>5. Driven(S, E, V, L, A, n, h.state) /\ Outs(h.outs, h.state)
    BY <1>11, <2>3, <2>4, ReplyDriven
  <2> QED BY <1>10, <2>1, <2>2, <2>5
<1>13. /\ Owned' /\ Kept
       /\ \E V2, L2, A2 : Holds(st', elected', V2, L2, A2, queue, flight, late, committed')
  <2>1. becomes(n, s)
    BY <1>5, <1>10
  <2> QED BY <1>1, <1>2, <1>12, <2>1, DrivenStep
<1>14. PICK V2, L2, A2 : Holds(st', elected', V2, L2, A2, queue, flight, late, committed')
  BY <1>13
<1>15. PICK S2 : S2 = st'
  OBVIOUS
<1>16. PICK E2 : E2 = elected'
  OBVIOUS
<1>17. PICK C2 : C2 = committed'
  OBVIOUS
<1>18. PICK Q : Q = queue
  OBVIOUS
<1>19. PICK F : F = flight
  OBVIOUS
<1>20. PICK W : W = late
  OBVIOUS
<1>21. PICK q : q = Tail(queue[n][t]) \o h.outs
  OBVIOUS
<1>22. Holds(S2, E2, V2, L2, A2, Q, F, W, C2)
  BY <1>14, <1>15, <1>16, <1>17, <1>18, <1>19, <1>20
<1>23. q \in Seq(Sent(n, S2, E2, L2, A2))
  <2>1. Tail(Q[n][t]) \in Seq(Sent(n, S2, E2, L2, A2))
    <3>1. Q[n][t] # << >>
      BY <1>6, <1>18
    <3> QED BY <1>22, <3>1, QueueHead
  <2>2. h.outs \in Seq(Sent(n, S2, E2, L2, A2))
    <3>1. Core(S2, E2, V2, L2, A2)
      BY <1>22 DEF Holds
    <3>2. s = S2[n]
      BY <1>1, <1>5, <1>10, <1>15 DEF becomes, Owned
    <3>3. NodeState(s, n)
      BY <1>12 DEF Driven
    <3> QED BY <1>12, <3>1, <3>2, <3>3, OutsAreSent
  <2>3. PICK G : G = Sent(n, S2, E2, L2, A2)
    OBVIOUS
  <2>4. PICK x : x = Tail(Q[n][t])
    OBVIOUS
  <2>5. PICK y : y = h.outs
    OBVIOUS
  <2>6. x \o y \in Seq(G)
    BY <2>1, <2>2, <2>3, <2>4, <2>5, Extended
  <2> QED BY <1>18, <1>21, <2>3, <2>4, <2>5, <2>6
<1>24. queue' = Requeue(queue, n, t, q)
  BY <1>1, <1>5, <1>21 DEF Requeue, Framed, Mailboxes
<1>25. /\ Holds(S2, E2, V2, L2, A2, queue', F, W, C2)
       /\ queue' \in Mailboxes /\ queue'[n][t] = q
       /\ \A o \in Nodes, u \in Threads : (o # n \/ u # t) => queue'[o][u] = queue[o][u]
  <2>1. Holds(S2, E2, V2, L2, A2, queue, F, W, C2)
    BY <1>18, <1>22
  <2> QED BY <1>1, <1>23, <1>24, <2>1, QueueStep
<1>26. PICK Q2 : Q2 = queue'
  OBVIOUS
<1>27. /\ Holds(S2, E2, V2, L2, A2, Q2, flight', W, C2)
       /\ Trays(flight') /\ flight'[n][t] = Nil
       /\ \A o \in Nodes, u \in Threads : (o # n \/ u # t) => flight'[o][u] = flight[o][u]
  <2>1. Holds(S2, E2, V2, L2, A2, Q2, flight, W, C2)
    BY <1>19, <1>25, <1>26
  <2>2. PICK e : e = Nil
    OBVIOUS
  <2>3. flight' = Land(flight, n, t, e) /\ (e # Nil => e.to \in Nodes /\ Backed(e.reply, e.to, n, V2, A2))
    BY <1>5, <2>2
  <2> QED BY <1>1, <2>1, <2>2, <2>3, FlightStep
<1>28. Holds(st', elected', V2, L2, A2, queue', flight', late', committed')
  BY <1>5, <1>15, <1>16, <1>17, <1>20, <1>26, <1>27
<1>29. Vouched'
  BY <1>28 DEF Vouched
<1>30. Framed' /\ Flying'
  BY <1>1, <1>25, <1>27 DEF Framed, Flying
<1>31. Resting'
  BY <1>1, <1>5, <1>6, <1>25, ClientIsThread DEF Resting
<1>32. Applying'
  BY <1>1 DEF Applying, receive_reply, machine
<1> QED BY <1>13, <1>29, <1>30, <1>31, <1>32 DEF Inv, Local

-----------------------------------------------------------------------------
(* Messages that are dropped or given up on.                               *)

\* A queue that is emptied, loses its head or stays; no node moves.
LEMMA DroppedStep ==
  ASSUME Inv, st' = st, elected' = elected, committed' = committed,
         NEW n \in Nodes, NEW t \in Threads, NEW q, q \in {<< >>, queue[n][t], Tail(queue[n][t])}, queue[n][t] # << >>,
         queue' = Requeue(queue, n, t, q), Trays(flight'),
         \A p \in Nodes, u \in Threads : flight'[p][u] \in {flight[p][u], Nil}, flight'[n][t] = Nil, \A m \in late' : m \in late \/ m = Head(queue[n][t]),
         proposed' = proposed, Applying'
  PROVE  Inv' /\ Kept
<1>1. Owned /\ Framed /\ Flying /\ Resting
  BY DEF Inv, Local
<1>2. Owned' /\ Kept
  BY Unmoved
<1>3. PICK V, L, A : Holds(st, elected, V, L, A, queue, flight, late, committed)
  BY DEF Inv, Vouched
<1>4. PICK m : m = Head(queue[n][t])
  OBVIOUS
<1>5. Sound(m, st, elected, L, A) /\ Tail(queue[n][t]) \in Seq(Sent(n, st, elected, L, A))
  BY <1>1, <1>3, <1>4, HeadOf
<1>6. PICK S : S = st
  OBVIOUS
<1>7. PICK E : E = elected
  OBVIOUS
<1>8. PICK C : C = committed
  OBVIOUS
<1>9. PICK F : F = flight
  OBVIOUS
<1>10. PICK W : W = late
  OBVIOUS
<1>11. Holds(S, E, V, L, A, queue, F, W, C)
  BY <1>3, <1>6, <1>7, <1>8, <1>9, <1>10
<1>12. q \in Seq(Sent(n, S, E, L, A))
  <2>1. CASE q = << >>
    BY <2>1
  <2>2. CASE q = queue[n][t]
    BY <1>11, <2>2 DEF Holds, Wired
  <2>3. CASE q = Tail(queue[n][t])
    BY <1>5, <1>6, <1>7, <2>3
  <2> QED BY <2>1, <2>2, <2>3
<1>13. /\ Holds(S, E, V, L, A, queue', F, W, C)
       /\ queue' \in Mailboxes /\ queue'[n][t] = q
       /\ \A p \in Nodes, u \in Threads : (p # n \/ u # t) => queue'[p][u] = queue[p][u]
  BY <1>1, <1>11, <1>12, QueueStep
<1>14. Core(S, E, V, L, A) /\ Settled(C, L, A)
  BY <1>11 DEF Holds
<1>15. \A p \in Nodes, u \in Threads : queue'[p][u] \in Seq(Sent(p, S, E, L, A))
  BY <1>13 DEF Holds, Wired
<1>16. \A p \in Nodes, u \in Threads : F[p][u] # Nil => F[p][u].to \in Nodes /\ Backed(F[p][u].reply, F[p][u].to, p, V, A)
  BY <1>11 DEF Holds, Wired
<1>17. \A p \in Nodes, u \in Threads : flight'[p][u] # Nil =>
         flight'[p][u].to \in Nodes /\ Backed(flight'[p][u].reply, flight'[p][u].to, p, V, A)
  BY <1>9, <1>16
<1>18. \A o \in late' : Sound(o, S, E, L, A)
  BY <1>4, <1>5, <1>6, <1>7, <1>10, <1>11 DEF Holds, Wired
<1>19. Holds(S, E, V, L, A, queue', flight', late', C)
  BY <1>14, <1>15, <1>17, <1>18 DEF Holds, Wired
<1>20. Holds(st', elected', V, L, A, queue', flight', late', committed')
  BY <1>6, <1>7, <1>8, <1>19
<1>21. Vouched'
  BY <1>20 DEF Vouched
<1>22. Framed' /\ Flying'
  BY <1>1, <1>13 DEF Framed, Flying
<1>23. Resting'
  BY <1>1, <1>13, ClientIsThread DEF Resting
<1> QED BY <1>2, <1>21, <1>22, <1>23 DEF Inv, Local

\* send_msg() that fails keeps the invariant.
LEMMA UnreachableStep ==
  ASSUME Inv, NEW n \in Nodes, NEW t \in Threads, unreachable(n, t) PROVE Inv' /\ Kept
<1>1. Framed /\ Applying
  BY DEF Inv, Local
<1>2. PICK q : q = Tail(queue[n][t])
  OBVIOUS
<1>3. queue' = Requeue(queue, n, t, q)
  BY <1>1, <1>2 DEF unreachable, Requeue, Framed, Mailboxes
<1>4. Applying'
  BY <1>1 DEF Applying, unreachable, machine
<1>5. /\ st' = st /\ elected' = elected /\ committed' = committed /\ flight' = flight /\ late' = late
      /\ proposed' = proposed /\ queue[n][t] # << >> /\ flight[n][t] = Nil
  BY DEF unreachable, raft
<1>6. Trays(flight')
  BY <1>1, <1>5 DEF Framed
<1> QED BY <1>2, <1>3, <1>4, <1>5, <1>6, DroppedStep

\* A read timeout keeps the invariant, before or after the peer handled the
\* request, whether it is sent again or not.
LEMMA TimeOutStep ==
  ASSUME Inv, NEW n \in Nodes, NEW t \in Threads, NEW again \in BOOLEAN, time_out(n, t, again) PROVE Inv' /\ Kept
<1>1. Framed /\ Applying
  BY DEF Inv, Local
<1>2. PICK q : q = IF again THEN queue[n][t] ELSE Tail(queue[n][t])
  OBVIOUS
<1>3. queue' = Requeue(queue, n, t, q)
  BY <1>1, <1>2 DEF time_out, Requeue, Framed, Mailboxes
<1>4. Applying'
  BY <1>1 DEF Applying, time_out, machine
<1>5. /\ st' = st /\ elected' = elected /\ committed' = committed
      /\ late' = late \cup {Head(queue[n][t])} /\ flight' = [flight EXCEPT ![n][t] = Nil]
      /\ proposed' = proposed /\ queue[n][t] # << >>
  BY DEF time_out, raft
<1>6. Trays(flight') /\ flight'[n][t] = Nil /\ \A p \in Nodes, u \in Threads : flight'[p][u] \in {flight[p][u], Nil}
  BY <1>1, <1>5 DEF Framed, Trays
<1>7. q \in {<< >>, queue[n][t], Tail(queue[n][t])}
  BY <1>2
<1> QED BY <1>3, <1>4, <1>5, <1>6, <1>7, DroppedStep

\* A killed node that gives up its queue keeps the invariant.
LEMMA AbandonStep ==
  ASSUME Inv, NEW n \in Nodes, NEW t \in Threads, abandon(n, t) PROVE Inv' /\ Kept
<1>1. Framed /\ Applying
  BY DEF Inv, Local
<1>2. PICK q : q = << >>
  OBVIOUS
<1>3. queue' = Requeue(queue, n, t, q)
  BY <1>2 DEF abandon, Requeue
<1>4. Applying'
  BY <1>1 DEF Applying, abandon, machine
<1>5. /\ st' = st /\ elected' = elected /\ committed' = committed /\ flight' = flight /\ late' = late
      /\ proposed' = proposed /\ queue[n][t] # << >> /\ flight[n][t] = Nil
  BY DEF abandon, raft
<1>6. Trays(flight')
  BY <1>1, <1>5 DEF Framed
<1> QED BY <1>2, <1>3, <1>4, <1>5, <1>6, DroppedStep

\* A step of one node that only gives up a role or marks entries applied.
LEMMA QuietlyStep ==
  ASSUME Inv, NEW n \in Nodes, NEW s, NodeState(s, n), Quiet(st[n], s), st' = [st EXCEPT ![n] = s],
         elected' = elected, committed' = committed, UNCHANGED threads
  PROVE  Owned' /\ Framed' /\ Flying' /\ Resting' /\ Vouched' /\ Kept
<1>1. Owned /\ Framed /\ Flying /\ Resting
  BY DEF Inv, Local
<1>2. PICK V, L, A : Holds(st, elected, V, L, A, queue, flight, late, committed)
  BY DEF Inv, Vouched
<1>3. PICK S : S = st
  OBVIOUS
<1>4. PICK E : E = elected
  OBVIOUS
<1>5. PICK S2 : S2 = st'
  OBVIOUS
<1>6. PICK C : C = committed
  OBVIOUS
<1>7. PICK Q : Q = queue
  OBVIOUS
<1>8. PICK F : F = flight
  OBVIOUS
<1>9. PICK W : W = late
  OBVIOUS
<1>10. Holds(S, E, V, L, A, Q, F, W, C) /\ Quiet(S[n], s)
  BY <1>2, <1>3, <1>4, <1>6, <1>7, <1>8, <1>9
<1>11. Moved(S, S2, n) /\ S2[n] = s
  BY <1>1, <1>3, <1>5 DEF Owned, Moved
<1>12. Reaches(S, E, V, L, A, S2, E, V, L, A)
  <2>1. Core(S, E, V, L, A)
    BY <1>10 DEF Holds
  <2> QED BY <1>10, <1>11, <2>1, QuietStep
<1>13. Holds(S2, E, V, L, A, Q, F, W, C) /\ CommitsKeep(S, S2)
  BY <1>10, <1>12, HoldsOn
<1>14. Holds(st', elected', V, L, A, queue', flight', late', committed')
  BY <1>4, <1>5, <1>6, <1>7, <1>8, <1>9, <1>13 DEF threads
<1>15. Vouched' /\ Kept
  BY <1>3, <1>5, <1>13, <1>14 DEF Vouched, Kept
<1>16. Owned'
  BY <1>1 DEF Owned, NodeState
<1>17. Framed' /\ Flying' /\ Resting'
  BY <1>1 DEF Framed, Flying, Resting, threads
<1> QED BY <1>15, <1>16, <1>17

\* drain_apply() hands over mutations of the log and no snapshot.
LEMMA DrainedOps ==
  ASSUME NEW n, NEW s, NodeState(s, n), s.commit_index <= Len(s.log)
  PROVE  /\ drained(s) \in Seq(AllOps \cup {Noop})
         /\ Len(drained(s)) = s.commit_index - s.last_applied
         /\ \A i \in 1 .. s.commit_index - s.last_applied : drained(s)[i] = s.log[s.last_applied + i].op
<1>1. /\ s.pending_reset = << >> /\ s.base_index = 0 /\ s.last_applied \in Nat /\ s.commit_index \in Nat
      /\ s.last_applied <= s.commit_index /\ s.log \in Seq(Entries)
  BY DEF NodeState, RaftStates
<1>2. PICK a \in Nat : a = s.last_applied
  BY <1>1
<1>3. PICK c \in Nat : c = s.commit_index /\ a <= c
  BY <1>1, <1>2
<1>4. PICK X \in Seq(Entries) : X = s.log /\ c <= Len(X)
  BY <1>1, <1>3
<1>5. PICK r : r = [i \in 1 .. c - a |-> X[a + 1 + i - 1].op]
  OBVIOUS
<1>6. \A i \in 1 .. c - a : X[a + 1 + i - 1].op \in AllOps \cup {Noop}
  <2> SUFFICES ASSUME NEW i \in 1 .. c - a PROVE X[a + 1 + i - 1].op \in AllOps \cup {Noop}
    OBVIOUS
  <2>1. a + 1 + i - 1 \in 1 .. Len(X)
    BY <1>4
  <2>2. X[a + 1 + i - 1] \in Entries
    BY <2>1, ElementOfSeq
  <2> QED BY <2>2 DEF Entries
<1>7. r \in Seq(AllOps \cup {Noop})
  <2>1. c - a \in Nat
    BY <1>3
  <2>2. r \in [1 .. c - a -> AllOps \cup {Noop}]
    BY <1>5, <1>6
  <2> QED BY <2>1, <2>2, SeqDef
<1>8. drained(s) = << >> \o r
  <2>1. [i \in 1 .. Len(s.pending_reset) |-> [kind |-> "Reset", triples |-> s.pending_reset[i]]] = << >>
    <3>1. Len(s.pending_reset) = 0
      BY <1>1
    <3> QED BY <3>1
  <2>2. s.last_applied - s.base_index + 1 = a + 1
    BY <1>1, <1>2
  <2> QED BY <1>2, <1>3, <1>4, <1>5, <2>1, <2>2 DEF drained
<1>9. drained(s) = r
  BY <1>7, <1>8
<1>10. Len(r) = c - a /\ \A i \in 1 .. c - a : r[i] = X[a + i].op
  <2>1. c - a \in Nat
    BY <1>3
  <2>2. \A i \in 1 .. c - a : a + 1 + i - 1 = a + i
    OBVIOUS
  <2> QED BY <1>5, <1>7, <2>1, <2>2
<1> QED BY <1>2, <1>3, <1>4, <1>7, <1>9, <1>10

\* The drain of apply_actions() keeps the invariant.
LEMMA DrainStep == ASSUME Inv, NEW n \in Nodes, drain(n) PROVE Inv' /\ Kept
<1>1. Owned /\ Applying
  BY DEF Inv, Local
<1>2. PICK r : r = st[n]
  OBVIOUS
<1>3. PICK s : s = drain_apply(r)
  OBVIOUS
<1>4. NodeState(r, n) /\ r \in RaftStates
  BY <1>1, <1>2 DEF Owned, NodeState
<1>5. NodeState(s, n) /\ Quiet(r, s)
  <2>1. s \in RaftStates
    BY <1>3, <1>4 DEF drain_apply, RaftStates
  <2>2. /\ s.id = r.id /\ s.last_applied = r.commit_index /\ s.commit_index = r.commit_index /\ s.log = r.log
        /\ s.current_term = r.current_term /\ s.voted_for = r.voted_for /\ s.role = r.role
        /\ s.votes_granted = r.votes_granted /\ s.next_index = r.next_index /\ s.match_index = r.match_index
    BY <1>3, <1>4 DEF drain_apply, RaftStates
  <2>3. r.commit_index \in Nat
    BY <1>4, StateFacts
  <2> QED BY <1>4, <2>1, <2>2, <2>3 DEF NodeState, Quiet, Like
<1>6. /\ st' = [st EXCEPT ![n] = s] /\ elected' = elected /\ committed' = committed /\ UNCHANGED threads
      /\ applying' = [applying EXCEPT ![n] = drained(r)] /\ store' = store /\ config' = config /\ alive' = alive
  BY <1>2, <1>3 DEF drain
<1>7. Owned' /\ Framed' /\ Flying' /\ Resting' /\ Vouched' /\ Kept
  BY <1>2, <1>5, <1>6, QuietlyStep
<1>8. drained(r) \in Seq(AllOps \cup {Noop})
  <2>1. r.commit_index <= Len(r.log)
    BY <1>2, CommitWithinLog
  <2> QED BY <1>4, <2>1, DrainedOps
<1>9. Applying'
  BY <1>1, <1>6, <1>8 DEF Applying
<1> QED BY <1>7, <1>9 DEF Inv, Local

\* What an entry does to a store and to a configuration.
LEMMA ActTypes ==
  ASSUME NEW D, D \subseteq Triples, NEW a \in AllOps \cup {Noop} PROVE act(D, a) \subseteq Triples
<1>1. CASE a \in AllOps
  <2>1. a.kind \in {"Insert", "Delete", "AddNode", "RemoveNode"}
    BY <1>1, BoundsAssumption DEF AllOps
  <2>2. a.kind = "Insert" => a.triple \in Triples
    BY <1>1 DEF Triples
  <2> QED BY <2>1, <2>2 DEF act
<1>2. CASE a = Noop
  <2>1. a.kind = "Noop"
    BY <1>2 DEF Noop
  <2> QED BY <2>1 DEF act
<1> QED BY <1>1, <1>2

\* What an entry does to a configuration (ClusterConfig::apply).
LEMMA ReconfigureTypes ==
  ASSUME NEW c, c \in [epoch : Nat, members : SUBSET Members], NEW a \in AllOps \cup {Noop}
  PROVE  reconfigure(c, a) \in [epoch : Nat, members : SUBSET Members]
<1>1. CASE a.kind = "AddNode" /\ a.id \notin c.members
  <2>1. a \in AllOps
    BY <1>1 DEF Noop
  <2>2. a.id \in Members
    BY <1>1, <2>1 DEF Members
  <2>3. reconfigure(c, a) = [epoch |-> c.epoch + 1, members |-> c.members \cup {a.id}]
    BY <1>1 DEF reconfigure
  <2> QED BY <2>2, <2>3
<1>2. CASE a.kind = "RemoveNode" /\ a.id \in c.members
  <2>1. reconfigure(c, a) = [epoch |-> c.epoch + 1, members |-> c.members \ {a.id}]
    BY <1>2 DEF reconfigure
  <2> QED BY <2>1
<1>3. CASE ~(a.kind = "AddNode" /\ a.id \notin c.members) /\ ~(a.kind = "RemoveNode" /\ a.id \in c.members)
  BY <1>3 DEF reconfigure
<1> QED BY <1>1, <1>2, <1>3

\* Applying one action keeps the invariant.
LEMMA ApplyStep == ASSUME Inv, NEW n \in Nodes, apply_one(n) PROVE Inv' /\ Kept
<1>1. Owned /\ Framed /\ Flying /\ Resting /\ Applying /\ Vouched
  BY DEF Inv, Local
<1>2. st' = st /\ elected' = elected /\ committed' = committed /\ alive' = alive /\ UNCHANGED threads
  BY DEF apply_one, raft
<1>3. Owned' /\ Kept
  BY <1>2, Unmoved
<1>4. PICK q \in Seq(AllOps \cup {Noop}) : q = applying[n] /\ q # << >>
  BY <1>1 DEF Applying, apply_one
<1>5. PICK a : a = Head(q)
  OBVIOUS
<1>6. a \in AllOps \cup {Noop} /\ Tail(q) \in Seq(AllOps \cup {Noop})
  BY <1>4, <1>5, HeadAndTail
<1>7. act(store[n], a) \subseteq Triples
  <2>1. PICK D : D = store[n]
    OBVIOUS
  <2>2. D \subseteq Triples
    BY <1>1, <2>1 DEF Applying
  <2> QED BY <1>6, <2>1, <2>2, ActTypes
<1>8. reconfigure(config[n], a) \in [epoch : Nat, members : SUBSET Members]
  <2>1. PICK c : c = config[n]
    OBVIOUS
  <2>2. c \in [epoch : Nat, members : SUBSET Members]
    BY <1>1, <2>1 DEF Applying
  <2> QED BY <1>6, <2>1, <2>2, ReconfigureTypes
<1>9. /\ store' = [store EXCEPT ![n] = act(store[n], a)] /\ config' = [config EXCEPT ![n] = reconfigure(config[n], a)]
      /\ applying' = [applying EXCEPT ![n] = Tail(q)]
  BY <1>1, <1>4, <1>5 DEF apply_one, Applying
<1>10. Applying'
  BY <1>1, <1>2, <1>6, <1>7, <1>8, <1>9 DEF Applying
<1>11. Framed' /\ Flying' /\ Resting' /\ Vouched'
  BY <1>1, <1>2 DEF Framed, Flying, Resting, Vouched, threads
<1> QED BY <1>3, <1>10, <1>11 DEF Inv, Local

\* kill() keeps the invariant.
LEMMA KillStep == ASSUME Inv, NEW n \in Nodes, kill(n) PROVE Inv' /\ Kept
<1>1. Owned /\ Framed /\ Flying /\ Resting /\ Applying /\ Vouched
  BY DEF Inv, Local
<1>2. /\ st' = st /\ elected' = elected /\ committed' = committed /\ UNCHANGED threads
      /\ store' = store /\ config' = config /\ applying' = applying /\ alive' = [alive EXCEPT ![n] = FALSE]
  BY DEF kill, raft, machine
<1>3. Owned' /\ Kept
  BY <1>2, Unmoved
<1>4. Applying'
  BY <1>1, <1>2 DEF Applying
<1>5. Framed' /\ Flying' /\ Resting' /\ Vouched'
  BY <1>1, <1>2 DEF Framed, Flying, Resting, Vouched, threads
<1> QED BY <1>3, <1>4, <1>5 DEF Inv, Local

\* revive() keeps the invariant: a revived leader follows.
LEMMA ReviveStep == ASSUME Inv, NEW n \in Nodes, revive(n) PROVE Inv' /\ Kept
<1>1. Owned /\ Applying
  BY DEF Inv, Local
<1>2. PICK r : r = st[n]
  OBVIOUS
<1>3. PICK s : s = note_revived(r)
  OBVIOUS
<1>4. NodeState(r, n) /\ r \in RaftStates
  BY <1>1, <1>2 DEF Owned, NodeState
<1>5. NodeState(s, n) /\ Quiet(r, s)
  <2>1. s \in RaftStates
    BY <1>3, <1>4 DEF note_revived, RaftStates, Role
  <2>2. /\ s.id = r.id /\ s.last_applied = r.last_applied /\ s.commit_index = r.commit_index /\ s.log = r.log
        /\ s.current_term = r.current_term /\ s.voted_for = r.voted_for
        /\ s.role = "Follower" \/ s.role = r.role
        /\ s.votes_granted = r.votes_granted /\ s.next_index = r.next_index /\ s.match_index = r.match_index
    BY <1>3, <1>4 DEF note_revived, RaftStates
  <2> QED BY <1>4, <2>1, <2>2 DEF NodeState, Quiet, Like
<1>6. /\ st' = [st EXCEPT ![n] = s] /\ elected' = elected /\ committed' = committed /\ UNCHANGED threads
      /\ applying' = applying /\ store' = store /\ config' = config /\ alive' = [alive EXCEPT ![n] = TRUE]
  BY <1>2, <1>3 DEF revive, machine
<1>7. Owned' /\ Framed' /\ Flying' /\ Resting' /\ Vouched' /\ Kept
  BY <1>2, <1>5, <1>6, QuietlyStep
<1>8. Applying'
  BY <1>1, <1>6 DEF Applying
<1> QED BY <1>7, <1>8 DEF Inv, Local

-----------------------------------------------------------------------------
(* The initial state.                                                      *)
NoVotes == [T \in Nat |-> [p \in Nodes |-> Nil]]
NoLogs == [T \in Nat |-> << >>]
NoCounts == [T \in Nat |-> [p \in Nodes |-> 0]]

\* RaftState::new is a state of a node.
LEMMA NewNode == ASSUME NEW n \in Nodes PROVE NodeState(new(n), n)
<1>1. << >> \in Seq(Entries)
  OBVIOUS
<1>2. new(n) \in RaftStates
  BY <1>1 DEF new, RaftStates, Role
<1>3. new(n).id = n /\ new(n).last_applied = 0 /\ new(n).commit_index = 0
  BY DEF new
<1> QED BY <1>2, <1>3 DEF NodeState

\* Before the first election there are no votes, leaders or acknowledgements.
LEMMA InitCore ==
  ASSUME NEW S, \A n \in Nodes : S[n] = new(n), NEW V, V = NoVotes, NEW L, L = NoLogs, NEW A, A = NoCounts
  PROVE  Core(S, {}, V, L, A)
<1>1. \A n \in Nodes : /\ S[n].role = "Follower" /\ S[n].current_term = 0 /\ S[n].voted_for = Nil
                       /\ S[n].log = << >> /\ S[n].commit_index = 0
  <2> SUFFICES ASSUME NEW n \in Nodes
               PROVE  /\ S[n].role = "Follower" /\ S[n].current_term = 0 /\ S[n].voted_for = Nil
                      /\ S[n].log = << >> /\ S[n].commit_index = 0
    OBVIOUS
  <2>1. PICK s : s = new(n)
    OBVIOUS
  <2>2. s.role = "Follower" /\ s.current_term = 0 /\ s.voted_for = Nil /\ s.log = << >> /\ s.commit_index = 0
    BY <2>1 DEF new
  <2> QED BY <2>1, <2>2
<1>2. Typed(S)
  BY NewNode, NodeStateOK DEF Typed
<1>3. \A T \in Nat : L[T] = << >> /\ Len(L[T]) = 0
  BY DEF NoLogs
<1>4. \A T \in Nat, p \in Nodes : A[T][p] = 0 /\ V[T][p] = Nil
  BY DEF NoCounts, NoVotes
<1>5. \A T \in Nat, k \in Nat : ~Choosable(S, L, A, T, k)
  BY <1>3 DEF Choosable
<1>6. Match(<< >>, L) /\ Sorted(<< >>) /\ \A t : Below(<< >>, t)
  BY DEF Match, Sorted, Below
<1>7. Ghosts(L, A)
  <2>1. LogMap(L)
    <3>1. << >> \in Seq(Entries)
      OBVIOUS
    <3> QED BY <1>3, <3>1 DEF LogMap
  <2>2. Counts(A)
    BY <1>4 DEF Counts
  <2>3. LeaderLogs(L)
    BY <1>3, <1>6 DEF LeaderLogs
  <2> QED BY <2>1, <2>2, <2>3 DEF Ghosts
<1>8. VotesKept(S, V)
  BY <1>1, <1>4 DEF VotesKept
<1>9. WonVotes(S, {}, V) /\ Campaigning(S, V) /\ Leading(S, {}, L, A)
  BY <1>1 DEF WonVotes, Campaigning, Leading
<1>10. NodeLogs(S, L)
  BY <1>1, <1>6 DEF NodeLogs
<1>11. Unwon({}, L)
  BY <1>3 DEF Unwon
<1>12. Accepting(S, L, A)
  BY <1>3, <1>4 DEF Accepting
<1>13. Complete(S, {}, L, A) /\ Holding(S, L, A) /\ UpToDate(S, V, L, A)
  BY <1>5 DEF Complete, Holding, UpToDate
<1>14. CommitsSafe(S, L, A)
  BY <1>1 DEF CommitsSafe, Safe
<1> QED BY <1>2, <1>7, <1>8, <1>9, <1>10, <1>11, <1>12, <1>13, <1>14 DEF Core

\* The invariant holds in the initial state.
LEMMA InitHolds == Init => Inv
<1> SUFFICES ASSUME Init PROVE Inv
  OBVIOUS
<1>1. \A n \in Nodes : NodeState(st[n], n) /\ st[n] = new(n)
  BY NewNode DEF Init
<1>2. Owned
  BY <1>1 DEF Owned, NodeState, Init
<1>3. \A n \in Nodes, t \in Threads : queue[n][t] = << >>
  BY DEF Init
<1>4. Framed
  BY DEF Init, Framed, Mailboxes, Trays
<1>5. Flying /\ Resting
  BY DEF Init, Flying, Resting
<1>6. Applying
  BY DEF Init, Applying
<1>7. Holds(st, elected, NoVotes, NoLogs, NoCounts, queue, flight, late, committed)
  <2>1. PICK S : S = st
    OBVIOUS
  <2>2. PICK V : V = NoVotes
    OBVIOUS
  <2>3. PICK L : L = NoLogs
    OBVIOUS
  <2>4. PICK A : A = NoCounts
    OBVIOUS
  <2>5. Core(S, {}, V, L, A)
    BY <1>1, <2>1, <2>2, <2>3, <2>4, InitCore
  <2>6. elected = {} /\ late = {} /\ committed = << >> /\ \A n \in Nodes, t \in Threads : flight[n][t] = Nil
    BY DEF Init
  <2>7. Wired(st, elected, NoVotes, NoLogs, NoCounts, queue, flight, late)
    <3>1. \A G : << >> \in Seq(G)
      OBVIOUS
    <3> QED BY <1>3, <2>6, <3>1 DEF Wired
  <2>8. Settled(committed, NoLogs, NoCounts)
    BY <2>6 DEF Settled, Safe
  <2> QED BY <2>1, <2>2, <2>3, <2>4, <2>5, <2>6, <2>7, <2>8 DEF Holds
<1>8. Vouched
  BY <1>7 DEF Vouched
<1> QED BY <1>2, <1>4, <1>5, <1>6, <1>8 DEF Inv, Local

-----------------------------------------------------------------------------
(* Every step.                                                             *)

\* The invariant is one of the variables of the specification only.
LEMMA StutterStep == ASSUME Inv, UNCHANGED vars PROVE Inv' /\ Kept
<1>1. Owned /\ Framed /\ Flying /\ Resting /\ Applying /\ Vouched
  BY DEF Inv, Local
<1>2. /\ st' = st /\ elected' = elected /\ committed' = committed /\ UNCHANGED threads
      /\ UNCHANGED machine /\ alive' = alive
  BY DEF vars, raft
<1>3. Owned' /\ Kept
  BY <1>2, Unmoved
<1>4. Applying'
  BY <1>1, <1>2 DEF Applying, machine
<1>5. Framed' /\ Flying' /\ Resting' /\ Vouched'
  BY <1>1, <1>2 DEF Framed, Flying, Resting, Vouched, threads
<1> QED BY <1>3, <1>4, <1>5 DEF Inv, Local

\* Every step keeps the invariant, and what was committed of each log.
LEMMA InvStep == ASSUME Inv, [Next]_vars PROVE Inv' /\ Kept
<1>1. CASE UNCHANGED vars
  BY <1>1, StutterStep
<1>2. ASSUME NEW n \in Nodes, tick(n) PROVE Inv' /\ Kept
  BY <1>2, TickStep
<1>3. ASSUME NEW n \in Nodes, replicate_now(n) PROVE Inv' /\ Kept
  BY <1>3, ReplicateStep
<1>4. ASSUME NEW n \in Nodes, NEW t \in Threads, receive_reply(n, t) PROVE Inv' /\ Kept
  BY <1>4, ReplyStep
<1>5. ASSUME NEW n \in Nodes, NEW op \in Ops[n], client_write(n, op) PROVE Inv' /\ Kept
  BY <1>5, ClientWriteStep
<1>6. ASSUME NEW n \in Nodes, NEW t \in Threads, handle_request(n, t) PROVE Inv' /\ Kept
  BY <1>6, RequestStep
<1>7. ASSUME NEW n \in Nodes, NEW t \in Threads, unreachable(n, t) PROVE Inv' /\ Kept
  BY <1>7, UnreachableStep
<1>8. ASSUME NEW n \in Nodes, NEW t \in Threads, abandon(n, t) PROVE Inv' /\ Kept
  BY <1>8, AbandonStep
<1>9. ASSUME NEW n \in Nodes, NEW t \in Threads, NEW again \in BOOLEAN, time_out(n, t, again) PROVE Inv' /\ Kept
  BY <1>9, TimeOutStep
<1>10. ASSUME NEW m \in late, handle_late(m) PROVE Inv' /\ Kept
  BY <1>10, LateStep
<1>11. ASSUME NEW n \in Nodes, drain(n) PROVE Inv' /\ Kept
  BY <1>11, DrainStep
<1>12. ASSUME NEW n \in Nodes, apply_one(n) PROVE Inv' /\ Kept
  BY <1>12, ApplyStep
<1>13. ASSUME NEW n \in Nodes, kill(n) PROVE Inv' /\ Kept
  BY <1>13, KillStep
<1>14. ASSUME NEW n \in Nodes, revive(n) PROVE Inv' /\ Kept
  BY <1>14, ReviveStep
<1> QED BY <1>1, <1>2, <1>3, <1>4, <1>5, <1>6, <1>7, <1>8, <1>9, <1>10, <1>11, <1>12, <1>13, <1>14
        DEF Next, Sending

-----------------------------------------------------------------------------
(* What the invariant says.                                                *)

\* Shared prefixes as SubSeq and IsPrefix put them.
LEMMA AgreeIsSame ==
  ASSUME NEW X \in Seq(Entries), NEW Y \in Seq(Entries), NEW k \in Nat, Agree(X, Y, k)
  PROVE  SubSeq(X, 1, k) = SubSeq(Y, 1, k)
<1>1. PICK a : a = Part(X, 1, k)
  OBVIOUS
<1>2. PICK b : b = Part(Y, 1, k)
  OBVIOUS
<1>3. a \in Seq(Entries) /\ Len(a) = k /\ Agree(a, Y, k)
  BY <1>1, KeptPart
<1>4. b \in Seq(Entries) /\ Len(b) = k /\ Agree(b, Y, k)
  <2>1. Agree(Y, X, k)
    BY AgreeBack
  <2> QED BY <1>2, <2>1, KeptPart
<1>5. \A i \in 1 .. k : a[i] = b[i]
  BY <1>3, <1>4 DEF Agree
<1>6. a = b
  BY <1>3, <1>4, <1>5, SeqEqual
<1> QED BY <1>1, <1>2, <1>6 DEF Part

\* A log shared to its end is a prefix.
LEMMA AgreeIsPrefix ==
  ASSUME NEW X \in Seq(Entries), NEW Y \in Seq(Entries), Agree(X, Y, Len(X)) PROVE IsPrefix(X, Y)
<1>1. PICK k \in Nat : k = Len(X)
  OBVIOUS
<1>2. SubSeq(X, 1, k) = SubSeq(Y, 1, k)
  BY <1>1, AgreeIsSame
<1>3. k <= Len(Y)
  BY <1>1 DEF Agree
<1> QED BY <1>1, <1>2, <1>3 DEF IsPrefix

\* The invariant gives the types, and the order of one node's indices.
LEMMA InvTypes == Inv => TypeOK
<1> SUFFICES ASSUME Inv PROVE TypeOK
  OBVIOUS
<1>1. Owned /\ Framed /\ Flying /\ Resting /\ Applying
  BY DEF Inv, Local
<1>2. PICK V, L, A : Holds(st, elected, V, L, A, queue, flight, late, committed)
  BY DEF Inv, Vouched
<1>3. ASSUME NEW n \in Nodes
      PROVE /\ st[n].id = n /\ st[n].role \in Role /\ st[n].current_term \in {0} \cup Terms
            /\ st[n].voted_for \in Nodes \cup {Nil} /\ st[n].leader_id \in Nodes \cup {Nil}
            /\ st[n].log \in Seq(Entries) /\ st[n].base_index = 0
            /\ 0 <= st[n].last_applied /\ st[n].last_applied <= st[n].commit_index
            /\ st[n].votes_granted \subseteq Nodes
  <2>1. PICK s : s = st[n]
    OBVIOUS
  <2>2. s \in RaftStates /\ s.id = n /\ s.last_applied <= s.commit_index
    BY <1>1, <2>1 DEF Owned, NodeState
  <2>3. /\ s.role \in Role /\ s.current_term \in {0} \cup Terms
        /\ s.voted_for \in Nodes \cup {Nil} /\ s.leader_id \in Nodes \cup {Nil}
        /\ s.log \in Seq(Entries) /\ s.base_index = 0 /\ s.last_applied \in Nat /\ s.votes_granted \subseteq Nodes
    BY <2>2 DEF RaftStates
  <2> QED BY <2>1, <2>2, <2>3
<1>4. ASSUME NEW n \in Nodes PROVE st[n].commit_index <= Len(st[n].log)
  BY CommitWithinLog
<1>5. ASSUME NEW n \in Nodes, st[n].role = "Leader"
      PROVE \A p \in peers(st[n]) : st[n].next_index[p] \in 1 .. Len(st[n].log) + 1
  <2>1. Indices(st[n], A)
    BY <1>2, <1>5 DEF Holds, Core, Leading, Leads
  <2> QED BY <2>1 DEF Indices, peers
<1>6. ASSUME NEW n \in Nodes, NEW t \in Threads, NEW i \in DOMAIN queue[n][t]
      PROVE queue[n][t][i].from = n /\ queue[n][t][i].to \in peers(st[n])
  <2>1. PICK G : G = Sent(n, st, elected, L, A)
    OBVIOUS
  <2>2. PICK q : q = queue[n][t]
    OBVIOUS
  <2>3. q \in Seq(G)
    BY <1>2, <2>1, <2>2 DEF Holds, Wired
  <2>4. PICK m : m = q[i]
    OBVIOUS
  <2>5. m \in G
    BY <1>6, <2>2, <2>3, <2>4
  <2>6. m.from = n /\ m \in Messages /\ m.to # m.from
    BY <2>1, <2>5 DEF Sent, Sound
  <2>7. m.to \in Nodes
    BY <2>6, MessageFacts
  <2> QED BY <1>3, <2>2, <2>4, <2>6, <2>7 DEF peers
<1>7. /\ store \in [Nodes -> SUBSET Triples] /\ config \in [Nodes -> [epoch : Nat, members : SUBSET Members]]
      /\ alive \in [Nodes -> BOOLEAN] /\ proposed \subseteq Nodes
  BY <1>1 DEF Applying, Resting
<1> QED BY <1>3, <1>4, <1>5, <1>6, <1>7 DEF TypeOK

\* Two winners of a term would share a voter (split-brain prevention).
LEMMA InvElection == Inv => ElectionSafety
<1> SUFFICES ASSUME Inv, NEW e \in elected, NEW f \in elected, e[1] = f[1] PROVE e = f
  BY DEF ElectionSafety
<1>1. PICK V, L, A : Holds(st, elected, V, L, A, queue, flight, late, committed)
  BY DEF Inv, Vouched
<1>2. WonVotes(st, elected, V)
  BY <1>1 DEF Holds, Core
<1>3. PICK T \in Terms, c \in Nodes : e = <<T, c>>
  BY <1>2 DEF WonVotes
<1>4. PICK d \in Nodes : f = <<T, d>>
  BY <1>2, <1>3 DEF WonVotes
<1>5. T \in Nat
  BY TermsAreNumbers
<1>6. Elected(V, T, c) /\ Elected(V, T, d)
  BY <1>2, <1>3, <1>4, <1>5 DEF WonVotes
<1>7. c = d
  BY <1>6, OneWinner
<1> QED BY <1>3, <1>4, <1>7

\* Logs that follow the leaders of their terms match.
LEMMA InvMatching == Inv => LogMatching
<1> SUFFICES ASSUME Inv PROVE LogMatching
  OBVIOUS
<1>1. TypeOK
  BY InvTypes
<1>2. PICK V, L, A : Holds(st, elected, V, L, A, queue, flight, late, committed)
  BY DEF Inv, Vouched
<1>3. ASSUME NEW m \in Nodes, NEW n \in Nodes, NEW i \in DOMAIN st[m].log \cap DOMAIN st[n].log,
             st[m].log[i].term = st[n].log[i].term
      PROVE  SubSeq(st[m].log, 1, i) = SubSeq(st[n].log, 1, i)
  <2>1. PICK X \in Seq(Entries) : X = st[m].log
    BY <1>1 DEF TypeOK
  <2>2. PICK Y \in Seq(Entries) : Y = st[n].log
    BY <1>1 DEF TypeOK
  <2>3. Match(X, L) /\ Match(Y, L)
    BY <1>2, <2>1, <2>2 DEF Holds, Core, NodeLogs
  <2>4. i \in 1 .. Len(X) /\ i \in 1 .. Len(Y) /\ i \in Nat /\ X[i].term = Y[i].term
    BY <1>3, <2>1, <2>2
  <2>5. Agree(X, Y, i)
    BY <2>3, <2>4, MatchAgree
  <2>6. SubSeq(X, 1, i) = SubSeq(Y, 1, i)
    BY <2>4, <2>5, AgreeIsSame
  <2> QED BY <2>1, <2>2, <2>6
<1> QED BY <1>1, <1>3 DEF LogMatching

\* The newest leader's log starts with what was settled.
LEMMA SettledIsHeld ==
  ASSUME NEW S, NEW E, NEW V, NEW L, NEW A, Core(S, E, V, L, A), NEW n \in Nodes, S[n].role = "Leader",
         NEW U, U = S[n].current_term, \A e \in E : e[1] <= U, NEW C, Settled(C, L, A), NEW X, X = S[n].log
  PROVE  Agree(C, X, Len(C))
<1>1. U \in Nat /\ X \in Seq(Entries) /\ X = L[U] /\ <<U, n>> \in E
  <2>1. NodeOK(S[n], n)
    BY DEF Core, Typed
  <2> QED BY <2>1 DEF NodeOK, Core, Leading, Leads
<1>2. PICK D \in Seq(Entries) : D = C
  BY DEF Settled
<1>3. PICK c \in Nat : c = Len(D)
  OBVIOUS
<1>4. PICK t \in Nat : Safe(L, A, D, c, t)
  BY <1>2, <1>3 DEF Settled
<1>5. CASE c = 0
  <2>1. Agree(D, X, 0)
    BY <1>1, <1>3, <1>5 DEF Agree
  <2> QED BY <1>2, <1>3, <1>5, <2>1
<1>6. CASE c # 0
  <2>1. PICK T \in Nat, k \in Nat : c <= k /\ Chosen(L, A, T, k) /\ Agree(D, L[T], c)
    BY <1>4, <1>6 DEF Safe
  <2>2. L[T] # << >>
    BY <2>1 DEF Chosen
  <2>3. PICK d \in Nodes : <<T, d>> \in E
    BY <2>2 DEF Core, Unwon, Won
  <2>4. T <= U
    BY <2>3
  <2>5. Agree(L[T], X, c)
    <3>1. CASE T = U
      <4>1. Len(D) \in Nat /\ c <= Len(X)
        BY <1>1, <2>1, <3>1 DEF Agree
      <4> QED BY <1>1, <3>1, <4>1, AgreeSelf
    <3>2. CASE T # U
      <4>1. T < U /\ Won(E, U)
        BY <1>1, <2>4, <3>2 DEF Won
      <4>2. Choosable(S, L, A, T, k)
        BY <2>1, ChosenChoosable
      <4>3. Agree(L[T], L[U], k)
        BY <1>1, <4>1, <4>2 DEF Core, Complete
      <4>4. Agree(L[T], X, k)
        BY <1>1, <4>3
      <4>5. PICK Y \in Seq(Entries) : Y = L[T]
        BY LogAt DEF Core, Ghosts
      <4>6. Agree(Y, X, c)
        BY <1>1, <2>1, <4>4, <4>5, AgreeLess
      <4> QED BY <4>5, <4>6
    <3> QED BY <3>1, <3>2
  <2>6. Agree(D, X, c)
    BY <2>1, <2>5, AgreeOn
  <2> QED BY <1>2, <1>3, <2>6
<1> QED BY <1>5, <1>6

\* The newest leader holds what was chosen before its term (leader completeness).
LEMMA InvComplete == Inv => NewestLeaderIsComplete
<1> SUFFICES ASSUME Inv, NEW n \in Nodes, st[n].role = "Leader", \A e \in elected : e[1] <= st[n].current_term
             PROVE  IsPrefix(committed, st[n].log)
  BY DEF NewestLeaderIsComplete
<1>1. PICK V, L, A : Holds(st, elected, V, L, A, queue, flight, late, committed)
  BY DEF Inv, Vouched
<1>2. PICK S : S = st
  OBVIOUS
<1>3. PICK E : E = elected
  OBVIOUS
<1>4. PICK C : C = committed
  OBVIOUS
<1>5. PICK U : U = S[n].current_term
  OBVIOUS
<1>6. PICK X \in Seq(Entries) : X = S[n].log
  BY <1>2, StateFacts DEF Inv, Local, Owned, NodeState
<1>7. Core(S, E, V, L, A) /\ Settled(C, L, A) /\ S[n].role = "Leader" /\ \A e \in E : e[1] <= U
  BY <1>1, <1>2, <1>3, <1>4, <1>5 DEF Holds
<1>8. Agree(C, X, Len(C))
  BY <1>5, <1>6, <1>7, SettledIsHeld
<1>9. C \in Seq(Entries)
  BY <1>7 DEF Settled
<1>10. IsPrefix(C, X)
  BY <1>8, <1>9, AgreeIsPrefix
<1> QED BY <1>2, <1>4, <1>6, <1>10

-----------------------------------------------------------------------------
(* What a log leads to when it is replayed.                                *)

\* The state before the first entry, the state after one more, and a table of
\* the states after each of the first k entries of X.
Blank == [store |-> {}, config |-> [epoch |-> 0, members |-> {}]]
After(r, e) == [store |-> act(r.store, e.op), config |-> reconfigure(r.config, e.op)]
Unfolds(f, X, k) == f = [i \in 0 .. k |-> IF i = 0 THEN Blank ELSE After(f[i - 1], X[i])]

\* Every log has such a table: the shortest prefix without one would have one.
LEMMA UnfoldingExists ==
  ASSUME NEW X \in Seq(Entries), NEW n \in Nat PROVE \E f : Unfolds(f, X, n)
<1> DEFINE Bad == {k \in Nat : ~ \E f : Unfolds(f, X, k)}
<1>1. SUFFICES ASSUME Bad # {} PROVE FALSE
  OBVIOUS
<1>2. PICK k \in Bad : \A j \in Bad : k <= j
  <2>1. Bad \subseteq Nat
    OBVIOUS
  <2> HIDE DEF Bad
  <2> QED BY <1>1, <2>1, LeastElement
<1>3. k \in Nat /\ ~ \E f : Unfolds(f, X, k)
  OBVIOUS
<1>4. CASE k = 0
  <2>1. PICK f : f = [i \in 0 .. 0 |-> Blank]
    OBVIOUS
  <2>2. Unfolds(f, X, 0)
    BY <2>1 DEF Unfolds
  <2> QED BY <1>3, <1>4, <2>2
<1>5. CASE k # 0
  <2>1. k - 1 \in Nat /\ k - 1 \notin Bad
    BY <1>2, <1>3, <1>5
  <2>2. PICK f : Unfolds(f, X, k - 1)
    BY <2>1
  <2>3. PICK g : g = [i \in 0 .. k |-> IF i = k THEN After(f[k - 1], X[k]) ELSE f[i]]
    OBVIOUS
  <2>4. \A i \in 0 .. k - 1 : f[i] = IF i = 0 THEN Blank ELSE After(f[i - 1], X[i])
    BY <2>2, Zenon DEF Unfolds
  <2>5. ASSUME NEW i \in 0 .. k PROVE g[i] = IF i = 0 THEN Blank ELSE After(g[i - 1], X[i])
    <3>1. CASE i = 0
      BY <1>3, <1>5, <2>3, <2>4, <3>1
    <3>2. CASE i # 0
      <4>1. i - 1 \in 0 .. k - 1 /\ i - 1 \in 0 .. k /\ i - 1 # k
        BY <1>3, <3>2
      <4>2. g[i - 1] = f[i - 1]
        BY <2>3, <4>1
      <4>3. CASE i = k
        BY <2>3, <3>2, <4>2, <4>3
      <4>4. CASE i # k
        <5>1. i \in 0 .. k - 1
          BY <1>3, <4>4
        <5>2. g[i] = f[i]
          BY <2>3, <4>4
        <5> QED BY <2>4, <3>2, <4>2, <5>1, <5>2
      <4> QED BY <4>3, <4>4
    <3> QED BY <3>1, <3>2
  <2>6. Unfolds(g, X, k)
    <3>1. PICK F : F = [i \in 0 .. k |-> IF i = 0 THEN Blank ELSE After(g[i - 1], X[i])]
      OBVIOUS
    <3>2. g = [i \in 0 .. k |-> g[i]]
      BY <2>3
    <3>3. \A i \in 0 .. k : g[i] = F[i]
      BY <2>5, <3>1
    <3>4. F = [i \in 0 .. k |-> F[i]]
      BY <3>1
    <3>5. g = F
      BY <3>2, <3>3, <3>4
    <3> QED BY <3>1, <3>5 DEF Unfolds
  <2> QED BY <1>3, <2>6
<1> QED BY <1>4, <1>5

\* Two logs that share a prefix lead to the same state after it.
LEMMA UnfoldingsAgree ==
  ASSUME NEW X, NEW Y, NEW m \in Nat, NEW n \in Nat, NEW f, NEW g, Unfolds(f, X, m), Unfolds(g, Y, n),
         NEW k \in Nat, k <= m, k <= n, \A i \in 1 .. k : X[i] = Y[i]
  PROVE  f[k] = g[k]
<1> DEFINE Bad == {j \in Nat : j <= k /\ f[j] # g[j]}
<1>1. SUFFICES ASSUME Bad # {} PROVE FALSE
  OBVIOUS
<1>2. PICK j \in Bad : \A i \in Bad : j <= i
  <2>1. Bad \subseteq Nat
    OBVIOUS
  <2> HIDE DEF Bad
  <2> QED BY <1>1, <2>1, LeastElement
<1>3. /\ \A i \in 0 .. m : f[i] = IF i = 0 THEN Blank ELSE After(f[i - 1], X[i])
      /\ \A i \in 0 .. n : g[i] = IF i = 0 THEN Blank ELSE After(g[i - 1], Y[i])
  BY Zenon DEF Unfolds
<1>4. j \in 0 .. m /\ j \in 0 .. n /\ j \in Nat /\ j <= k /\ f[j] # g[j]
  OBVIOUS
<1>5. j # 0
  BY <1>3, <1>4
<1>6. j - 1 \in Nat /\ j - 1 <= k /\ j - 1 \notin Bad /\ j \in 1 .. k
  BY <1>2, <1>4, <1>5
<1>7. f[j - 1] = g[j - 1] /\ X[j] = Y[j]
  BY <1>6
<1> QED BY <1>3, <1>4, <1>5, <1>7

\* Replay() is the last state of a table.
LEMMA ReplayUnfolds ==
  ASSUME NEW X \in Seq(Entries) PROVE \E f : Unfolds(f, X, Len(X)) /\ Replay(X) = f[Len(X)]
<1>1. Len(X) \in Nat
  OBVIOUS
<1>2. \E f : Unfolds(f, X, Len(X))
  BY <1>1, UnfoldingExists
<1>3. \E f : f = [i \in 0 .. Len(X) |->
                   IF i = 0 THEN [store |-> {}, config |-> [epoch |-> 0, members |-> {}]]
                   ELSE [store |-> act(f[i - 1].store, X[i].op),
                         config |-> reconfigure(f[i - 1].config, X[i].op)]]
  BY <1>2, Zenon DEF Unfolds, Blank, After
<1> DEFINE h == CHOOSE f : f = [i \in 0 .. Len(X) |->
                   IF i = 0 THEN [store |-> {}, config |-> [epoch |-> 0, members |-> {}]]
                   ELSE [store |-> act(f[i - 1].store, X[i].op),
                         config |-> reconfigure(f[i - 1].config, X[i].op)]]
<1>4. h = [i \in 0 .. Len(X) |->
                   IF i = 0 THEN [store |-> {}, config |-> [epoch |-> 0, members |-> {}]]
                   ELSE [store |-> act(h[i - 1].store, X[i].op),
                         config |-> reconfigure(h[i - 1].config, X[i].op)]]
  BY <1>3, Zenon
<1>5. Replay(X) = h[Len(X)]
  BY Zenon DEF Replay
<1> HIDE DEF h
<1>6. Unfolds(h, X, Len(X))
  BY <1>4, Zenon DEF Unfolds, Blank, After
<1> QED BY <1>5, <1>6

\* An empty log leads to the state before the first entry.
LEMMA ReplayNothing == ASSUME NEW X \in Seq(Entries), Len(X) = 0 PROVE Replay(X) = Blank
<1>1. PICK f : Unfolds(f, X, 0) /\ Replay(X) = f[0]
  BY ReplayUnfolds
<1>2. \A i \in 0 .. 0 : f[i] = IF i = 0 THEN Blank ELSE After(f[i - 1], X[i])
  BY <1>1, Zenon DEF Unfolds
<1>3. f[0] = Blank
  BY <1>2
<1> QED BY <1>1, <1>3

\* One more entry is applied to what the entries before it lead to.
LEMMA ReplayNext ==
  ASSUME NEW X \in Seq(Entries), NEW k \in Nat, k < Len(X)
  PROVE  Replay(Part(X, 1, k + 1)) = After(Replay(Part(X, 1, k)), X[k + 1])
<1>1. PICK Y : Y = Part(X, 1, k)
  OBVIOUS
<1>2. PICK Z : Z = Part(X, 1, k + 1)
  OBVIOUS
<1>3. Agree(X, X, k) /\ Agree(X, X, k + 1) /\ k + 1 \in Nat
  BY AgreeSelf
<1>4. Y \in Seq(Entries) /\ Len(Y) = k /\ Agree(Y, X, k)
  BY <1>1, <1>3, KeptPart
<1>5. Z \in Seq(Entries) /\ Len(Z) = k + 1 /\ Agree(Z, X, k + 1)
  BY <1>2, <1>3, KeptPart
<1>6. PICK f : Unfolds(f, Y, k) /\ Replay(Y) = f[k]
  BY <1>4, ReplayUnfolds
<1>7. PICK g : Unfolds(g, Z, k + 1) /\ Replay(Z) = g[k + 1]
  BY <1>5, ReplayUnfolds
<1>8. \A i \in 0 .. k + 1 : g[i] = IF i = 0 THEN Blank ELSE After(g[i - 1], Z[i])
  BY <1>7, Zenon DEF Unfolds
<1>9. g[k + 1] = After(g[k], Z[k + 1])
  BY <1>8
<1>10. Z[k + 1] = X[k + 1] /\ \A i \in 1 .. k : Y[i] = Z[i]
  BY <1>4, <1>5 DEF Agree
<1>11. f[k] = g[k]
  <2>1. k <= k + 1 /\ k <= k
    OBVIOUS
  <2> QED BY <1>3, <1>6, <1>7, <1>10, <2>1, UnfoldingsAgree
<1> QED BY <1>1, <1>2, <1>6, <1>7, <1>9, <1>10, <1>11

-----------------------------------------------------------------------------
(* What a node has applied.                                                *)

\* s is the node's state, q what its thread has drained and not yet applied, D
\* and c its store and config: q is the end of the drained prefix of the log,
\* and D and c are what the rest of that prefix leads to.
Draining(s, q) ==
  /\ Len(q) <= s.last_applied /\ s.last_applied <= s.commit_index
  /\ \A i \in 1 .. Len(q) : q[i] = s.log[s.last_applied - Len(q) + i].op
Serves(s, q, D, c) ==
  /\ Draining(s, q)
  /\ [store |-> D, config |-> c] = Replay(Part(s.log, 1, s.last_applied - Len(q)))

\* A node goes on serving what it did while its log changes past its commit index.
LEMMA ServesOn ==
  ASSUME NEW s \in RaftStates, NEW t \in RaftStates, NEW q, Len(q) \in Nat, NEW D, NEW c,
         Serves(s, q, D, c), t.last_applied = s.last_applied,
         s.commit_index <= t.commit_index, Agree(s.log, t.log, s.commit_index)
  PROVE  Serves(t, q, D, c)
<1>1. PICK X \in Seq(Entries) : X = s.log
  BY DEF RaftStates
<1>2. PICK Y \in Seq(Entries) : Y = t.log
  BY DEF RaftStates
<1>3. PICK a \in Nat, b \in Nat, d \in Nat, k \in Nat :
         a = s.last_applied /\ b = s.commit_index /\ d = t.commit_index /\ k = Len(q)
  BY DEF RaftStates
<1>4. k <= a /\ a <= b /\ b <= d /\ Agree(X, Y, b)
  BY <1>1, <1>2, <1>3 DEF Serves, Draining
<1>5. \A i \in 1 .. k : q[i] = X[a - k + i].op
  BY <1>1, <1>3 DEF Serves, Draining
<1>6. \A i \in 1 .. k : X[a - k + i] = Y[a - k + i]
  <2>1. \A i \in 1 .. k : a - k + i \in 1 .. b
    BY <1>4
  <2> QED BY <1>4, <2>1 DEF Agree
<1>7. Part(X, 1, a - k) = Part(Y, 1, a - k)
  <2>1. a - k \in Nat /\ a - k <= b /\ Len(X) \in Nat /\ Len(Y) \in Nat
    BY <1>4
  <2>2. Agree(X, Y, a - k)
    BY <1>4, <2>1, AgreeLess
  <2> QED BY <2>1, <2>2, AgreeIsSame DEF Part
<1>8. Draining(t, q)
  <2>1. \A i \in 1 .. k : q[i] = Y[a - k + i].op
    BY <1>5, <1>6
  <2>2. t.last_applied = a /\ a <= d
    BY <1>3, <1>4
  <2> QED BY <1>2, <1>3, <1>4, <2>1, <2>2 DEF Draining
<1>9. [store |-> D, config |-> c] = Replay(Part(Y, 1, a - k))
  BY <1>1, <1>3, <1>7 DEF Serves
<1> QED BY <1>2, <1>3, <1>8, <1>9 DEF Serves

\* Draining hands over the entries between the applied and the committed one.
LEMMA ServesDrained ==
  ASSUME NEW n, NEW s, NodeState(s, n), s.commit_index <= Len(s.log), NEW q, Len(q) = 0, NEW p, p = drained(s),
         NEW D, NEW c, Serves(s, q, D, c)
  PROVE  Serves(drain_apply(s), p, D, c)
<1>1. PICK a \in Nat, b \in Nat : a = s.last_applied /\ b = s.commit_index
  BY DEF NodeState, RaftStates
<1>2. a <= b /\ s.base_index = 0 /\ s.pending_reset = << >>
  BY <1>1 DEF NodeState, RaftStates
<1>3. PICK X \in Seq(Entries) : X = s.log
  BY DEF NodeState, RaftStates
<1>4. PICK t : t = drain_apply(s)
  OBVIOUS
<1>5. t.log = X /\ t.last_applied = b /\ t.commit_index = b
  BY <1>1, <1>3, <1>4 DEF drain_apply, NodeState, RaftStates
<1>6. Len(p) = b - a /\ \A i \in 1 .. b - a : p[i] = X[a + i].op
  BY <1>1, <1>2, <1>3, DrainedOps
<1>7. Draining(t, p)
  BY <1>1, <1>2, <1>5, <1>6 DEF Draining
<1>8. b - Len(p) = a /\ a - Len(q) = a
  BY <1>1, <1>2, <1>6
<1>9. [store |-> D, config |-> c] = Replay(Part(X, 1, a))
  BY <1>1, <1>3, <1>8 DEF Serves
<1> QED BY <1>4, <1>5, <1>7, <1>8, <1>9 DEF Serves

\* Applying the head of what was drained is replaying one more entry.
LEMMA ServesApplied ==
  ASSUME NEW s \in RaftStates, NEW q \in Seq(AllOps \cup {Noop}), q # << >>, NEW D, NEW c, Serves(s, q, D, c),
         s.commit_index <= Len(s.log)
  PROVE  Serves(s, Tail(q), act(D, Head(q)), reconfigure(c, Head(q)))
<1>1. PICK a \in Nat, b \in Nat : a = s.last_applied /\ b = s.commit_index
  BY DEF RaftStates
<1>2. PICK X \in Seq(Entries) : X = s.log
  BY DEF RaftStates
<1>3. PICK k \in Nat : k = Len(q)
  OBVIOUS
<1>4. PICK p : p = Tail(q)
  OBVIOUS
<1>5. PICK o : o = Head(q)
  OBVIOUS
<1>6. k > 0 /\ k <= a /\ a <= b /\ b <= Len(X) /\ \A i \in 1 .. k : q[i] = X[a - k + i].op
  BY <1>1, <1>2, <1>3 DEF Serves, Draining
<1>7. Len(p) = k - 1 /\ \A i \in 1 .. k - 1 : p[i] = q[i + 1]
  BY <1>3, <1>4, <1>6
<1>8. o = q[1]
  BY <1>5, <1>6
<1>9. Draining(s, p)
  <2>1. \A i \in 1 .. k - 1 : i + 1 \in 1 .. k /\ a - k + (i + 1) = a - (k - 1) + i
    BY <1>6
  <2>2. \A i \in 1 .. k - 1 : p[i] = X[a - (k - 1) + i].op
    BY <1>6, <1>7, <2>1
  <2>3. Len(p) <= a /\ a - (k - 1) = a - Len(p) /\ 1 .. k - 1 = 1 .. Len(p)
    BY <1>6, <1>7
  <2>4. \A i \in 1 .. Len(p) : p[i] = X[a - Len(p) + i].op
    BY <2>2, <2>3
  <2> QED BY <1>1, <1>2, <1>6, <2>3, <2>4 DEF Draining
<1>10. PICK j \in Nat : j = a - k
  BY <1>6
<1>11. j < Len(X) /\ a - Len(p) = j + 1 /\ o = X[j + 1].op
  <2>1. a - k + 1 = j + 1 /\ 1 \in 1 .. k
    BY <1>6, <1>10
  <2>2. q[1] = X[j + 1].op
    BY <1>6, <2>1
  <2> QED BY <1>6, <1>7, <1>8, <1>10, <2>2
<1>12. PICK r : r = [store |-> D, config |-> c]
  OBVIOUS
<1>13. r = Replay(Part(X, 1, j))
  BY <1>1, <1>2, <1>3, <1>10, <1>12 DEF Serves
<1>14. Replay(Part(X, 1, j + 1)) = After(r, X[j + 1])
  BY <1>11, <1>13, ReplayNext
<1>15. After(r, X[j + 1]) = [store |-> act(D, o), config |-> reconfigure(c, o)]
  BY <1>11, <1>12 DEF After
<1>16. [store |-> act(D, o), config |-> reconfigure(c, o)] = Replay(Part(X, 1, a - Len(p)))
  BY <1>11, <1>14, <1>15
<1>17. Serves(s, p, act(D, o), reconfigure(c, o))
  BY <1>1, <1>2, <1>9, <1>16 DEF Serves
<1> QED BY <1>4, <1>5, <1>17

-----------------------------------------------------------------------------
(* Only drain_apply() moves last_applied, while no snapshot is installed.  *)
Marked(s) == "last_applied" \in DOMAIN s
Remains(s, t) == DOMAIN t = DOMAIN s /\ t.last_applied = s.last_applied

\* A state is a record with that field.
LEMMA StateMarked == ASSUME NEW s \in RaftStates PROVE Marked(s)
BY DEF RaftStates, Marked

\* The operators that others are made of leave last_applied alone.
LEMMA PartsRemain ==
  ASSUME NEW s, Marked(s)
  PROVE  /\ \A T : Remains(s, observe_term(s, T))
         /\ Remains(s, become_leader(s)) /\ Remains(s, advance_commit(s)) /\ Remains(s, note_revived(s))
<1>1. ASSUME NEW T PROVE Remains(s, observe_term(s, T))
  BY DEF Remains, Marked, observe_term
<1>2. Remains(s, become_leader(s))
  <2>1. PICK g, x, y : become_leader(s) = [s EXCEPT !.role = "Leader", !.leader_id = s.id, !.log = g,
                                             !.next_index = x, !.match_index = y]
    BY Zenon DEF become_leader
  <2> QED BY <2>1 DEF Remains, Marked
<1>3. Remains(s, advance_commit(s))
  <2>1. PICK c : advance_commit(s) = [s EXCEPT !.commit_index = c]
    BY Zenon DEF advance_commit
  <2> QED BY <2>1 DEF Remains, Marked
<1>4. Remains(s, note_revived(s))
  BY DEF note_revived, Remains, Marked
<1> QED BY <1>1, <1>2, <1>3, <1>4

\* Leaving it alone twice leaves it alone.
LEMMA RemainsOn ==
  ASSUME NEW s, NEW t, NEW u, Marked(s), Remains(s, t), Marked(t) => Remains(t, u) PROVE Remains(s, u)
BY DEF Remains, Marked

\* tick() and propose() leave last_applied alone.
LEMMA OwnRemains ==
  ASSUME NEW s, Marked(s), NEW op PROVE Remains(s, timeout(s)) /\ Remains(s, propose(s, op))
<1>1. Remains(s, s)
  BY DEF Remains
<1>2. Remains(s, start_election(s))
  <2>1. PICK t : t = [s EXCEPT !.current_term = @ + 1, !.role = "Candidate", !.voted_for = s.id,
                               !.votes_granted = {s.id}, !.leader_id = Nil]
    OBVIOUS
  <2>2. Remains(s, t)
    BY <2>1 DEF Remains, Marked
  <2>3. start_election(s) = IF majority = 1 THEN become_leader(t) ELSE t
    BY <2>1 DEF start_election
  <2>4. Remains(s, become_leader(t))
    BY <2>2, PartsRemain, RemainsOn
  <2> QED BY <2>2, <2>3, <2>4
<1>3. Remains(s, propose(s, op))
  <2>1. PICK t : t = [s EXCEPT !.log = Append(@, [term |-> s.current_term, op |-> op])]
    OBVIOUS
  <2>2. Remains(s, t)
    BY <2>1 DEF Remains, Marked
  <2>3. propose(s, op) = IF peers(s) = {} THEN advance_commit(t) ELSE t
    BY <2>1 DEF propose
  <2>4. Remains(s, advance_commit(t))
    BY <2>2, PartsRemain, RemainsOn
  <2> QED BY <2>2, <2>3, <2>4
<1> QED BY <1>1, <1>2, <1>3 DEF timeout

\* handle() leaves last_applied alone: votes and entries do not touch it.
LEMMA RequestRemains ==
  ASSUME NEW s, Marked(s), NEW m \in Messages PROVE Remains(s, handle(s, m).state)
<1>1. Remains(s, s)
  BY DEF Remains
<1>2. PICK t : t = observe_term(s, m.term)
  OBVIOUS
<1>3. Remains(s, t)
  BY <1>2, PartsRemain
<1>4. m.type \in {"RequestVote", "AppendEntries"}
  BY MessageFacts
<1>5. CASE m.type = "RequestVote"
  <2>1. handle(s, m) = handle_request_vote(s, m)
    BY <1>5 DEF handle
  <2>2. PICK u : u = [t EXCEPT !.voted_for = m.from, !.role = "Follower"]
    OBVIOUS
  <2>3. Remains(t, u)
    BY <1>3, <2>2 DEF Remains, Marked
  <2>4. handle_request_vote(s, m).state \in {s, t, u}
    BY <1>2, <2>2 DEF handle_request_vote, answer
  <2>5. Remains(s, u)
    BY <1>3, <2>3, RemainsOn
  <2> QED BY <1>1, <1>3, <2>1, <2>4, <2>5
<1>6. CASE m.type = "AppendEntries"
  <2>1. handle(s, m) = handle_append_entries(s, m)
    BY <1>6 DEF handle
  <2>2. PICK u : u = [t EXCEPT !.role = "Follower", !.leader_id = m.from]
    OBVIOUS
  <2>3. PICK v : v = [u EXCEPT !.log = merge(u, m)]
    OBVIOUS
  <2>4. PICK w : w = [v EXCEPT !.commit_index = follower_commit(s, m, last_log_index(v))]
    OBVIOUS
  <2>5. Remains(s, u) /\ Remains(s, v) /\ Remains(s, w)
    BY <1>3, <2>2, <2>3, <2>4 DEF Remains, Marked
  <2>6. handle_append_entries(s, m).state \in {s, u, w}
    BY <1>2, <2>2, <2>3, <2>4 DEF handle_append_entries, answer
  <2> QED BY <1>1, <2>1, <2>5, <2>6
<1> QED BY <1>4, <1>5, <1>6

\* handle_reply() leaves last_applied alone.
LEMMA ReplyRemains ==
  ASSUME NEW s, Marked(s), NEW p, NEW r, r.type \in {"Vote", "Append"} PROVE Remains(s, handle_reply(s, p, r).state)
<1>1. Remains(s, s)
  BY DEF Remains
<1>2. CASE r.term > s.current_term
  <2>1. handle_reply(s, p, r).state = observe_term(s, r.term)
    BY <1>2 DEF handle_reply, sends
  <2> QED BY <2>1, PartsRemain
<1>3. CASE ~(r.term > s.current_term) /\ r.type = "Vote"
  <2>1. handle_reply(s, p, r) = handle_vote(s, p, r)
    BY <1>3 DEF handle_reply
  <2>2. PICK t : t = [s EXCEPT !.votes_granted = @ \cup {p}]
    OBVIOUS
  <2>3. Remains(s, t)
    BY <2>2 DEF Remains, Marked
  <2>4. Remains(s, become_leader(t))
    BY <2>3, PartsRemain, RemainsOn
  <2>5. handle_vote(s, p, r).state \in {s, t, become_leader(t)}
    BY <2>2 DEF handle_vote, sends
  <2> QED BY <1>1, <2>1, <2>3, <2>4, <2>5
<1>4. CASE ~(r.term > s.current_term) /\ r.type = "Append"
  <2>1. handle_reply(s, p, r) = handle_append_ack(s, p, r)
    BY <1>4 DEF handle_reply
  <2>2. PICK t : t = [s EXCEPT !.match_index[p] = r.match_index, !.next_index[p] = r.match_index + 1]
    OBVIOUS
  <2>3. Remains(s, t)
    BY <2>2 DEF Remains, Marked
  <2>4. Remains(s, advance_commit(t))
    BY <2>3, PartsRemain, RemainsOn
  <2>5. Remains(s, back(s, p, r))
    BY DEF back, Remains, Marked
  <2>6. handle_append_ack(s, p, r).state \in {s, advance_commit(t), back(s, p, r)}
    BY <2>2 DEF handle_append_ack, sends
  <2> QED BY <1>1, <2>1, <2>4, <2>5, <2>6
<1> QED BY <1>2, <1>3, <1>4

-----------------------------------------------------------------------------
(* The second part of the invariant: what the nodes serve.                 *)

\* The second part of the inductive invariant: every node serves what its log
\* leads to, and no node has committed more than was ever committed.
Served ==
  \A n \in Nodes : Serves(st[n], applying[n], store[n], config[n]) /\ st[n].commit_index <= Len(committed)

\* What the first part says of one node.
LEMMA NodeFacts ==
  ASSUME Inv, NEW n \in Nodes
  PROVE  /\ NodeState(st[n], n) /\ st[n] \in RaftStates /\ Marked(st[n])
         /\ st[n].commit_index \in Nat /\ st[n].commit_index <= Len(st[n].log)
         /\ applying[n] \in Seq(AllOps \cup {Noop}) /\ Len(applying[n]) \in Nat
<1>1. NodeState(st[n], n) /\ applying[n] \in Seq(AllOps \cup {Noop})
  BY DEF Inv, Local, Owned, Applying
<1>2. st[n] \in RaftStates
  BY <1>1 DEF NodeState
<1>3. PICK s \in RaftStates : s = st[n]
  BY <1>2
<1>4. Marked(s) /\ s.commit_index \in Nat
  BY StateMarked, StateFacts
<1>5. st[n].commit_index <= Len(st[n].log)
  BY CommitWithinLog
<1>6. Len(applying[n]) \in Nat
  BY <1>1, LenProperties
<1> QED BY <1>1, <1>2, <1>3, <1>4, <1>5, <1>6

\* The history variable is a log.
LEMMA CommittedIsLog == ASSUME Inv PROVE committed \in Seq(Entries) /\ Len(committed) \in Nat
<1>1. committed \in Seq(Entries)
  BY DEF Inv, Vouched, Holds, Settled
<1> QED BY <1>1, LenProperties

\* What is committed is within the log, after a step too.
LEMMA CommitsWithin ==
  /\ Inv => \A n \in Nodes : st[n].commit_index <= Len(st[n].log)
  /\ Inv' => (\A n \in Nodes : st[n].commit_index <= Len(st[n].log))'
<1>1. Inv => \A n \in Nodes : st[n].commit_index <= Len(st[n].log)
  BY CommitWithinLog
<1> QED BY <1>1, PTL

\* A node that moves without draining or applying goes on serving the same.
LEMMA MovedServes ==
  ASSUME Inv, Inv', Kept, NEW n \in Nodes, Serves(st[n], applying[n], store[n], config[n]),
         Remains(st[n], st'[n]), UNCHANGED machine
  PROVE  Serves(st'[n], applying'[n], store'[n], config'[n])
<1>1. PICK s \in RaftStates : s = st[n]
  BY NodeFacts
<1>2. PICK t \in RaftStates : t = st'[n]
  BY DEF Inv, Local, Owned, NodeState
<1>3. PICK q : q = applying[n]
  OBVIOUS
<1>4. PICK D, c : D = store[n] /\ c = config[n]
  OBVIOUS
<1>5. s.commit_index <= t.commit_index /\ Agree(s.log, t.log, s.commit_index)
  BY <1>1, <1>2 DEF Kept, CommitsKeep
<1>6. t.last_applied = s.last_applied /\ Len(q) \in Nat
  BY <1>1, <1>2, <1>3, NodeFacts DEF Remains
<1>7. Serves(s, q, D, c)
  BY <1>1, <1>3, <1>4
<1>8. Serves(t, q, D, c)
  BY <1>5, <1>6, <1>7, ServesOn
<1>9. applying'[n] = q /\ store'[n] = D /\ config'[n] = c
  BY <1>3, <1>4 DEF machine
<1> QED BY <1>2, <1>8, <1>9

\* becomes(): the history variable follows the node that has committed most.
LEMMA BecomesServed ==
  ASSUME Inv, Inv', Kept, Served, NEW n \in Nodes, NEW s, becomes(n, s), Remains(st[n], s), UNCHANGED machine
  PROVE  Served'
<1>1. DOMAIN st = Nodes
  BY DEF Inv, Local, Owned
<1>2. st'[n] = s /\ \A p \in Nodes : p # n => st'[p] = st[p]
  BY <1>1 DEF becomes
<1>3. PICK X \in Seq(Entries) : X = s.log
  BY <1>2, StateFacts DEF Inv, Local, Owned, NodeState
<1>4. PICK c \in Nat : c = s.commit_index
  BY <1>2, StateFacts DEF Inv, Local, Owned, NodeState
<1>5. c <= Len(X)
  <2>1. st'[n].commit_index <= Len(st'[n].log)
    BY CommitsWithin
  <2> QED BY <1>2, <1>3, <1>4, <2>1
<1>6. c <= Len(committed') /\ Len(committed) <= Len(committed') /\ Len(committed') \in Nat
  <2>1. Len(committed) \in Nat
    BY CommittedIsLog
  <2>2. CASE c > Len(committed)
    <3>1. PICK Y : Y = Part(X, 1, c)
      OBVIOUS
    <3>2. Len(Y) = c
      BY <1>5, <3>1, AgreeSelf, KeptPart
    <3>3. committed' = Y
      BY <1>3, <1>4, <2>2, <3>1 DEF becomes, Part
    <3> QED BY <2>1, <2>2, <3>2, <3>3
  <2>3. CASE ~(c > Len(committed))
    <3>1. committed' = committed
      BY <1>4, <2>3 DEF becomes
    <3> QED BY <2>1, <2>3, <3>1
  <2> QED BY <2>2, <2>3
<1>7. ASSUME NEW p \in Nodes PROVE Serves(st'[p], applying'[p], store'[p], config'[p])
  <2>1. Remains(st[p], st'[p])
    BY <1>2 DEF Remains
  <2>2. Serves(st[p], applying[p], store[p], config[p])
    BY DEF Served
  <2> QED BY <2>1, <2>2, MovedServes
<1>8. ASSUME NEW p \in Nodes PROVE st'[p].commit_index <= Len(committed')
  <2>1. CASE p = n
    BY <1>2, <1>4, <1>6, <2>1
  <2>2. CASE p # n
    <3>1. PICK d \in Nat : d = st[p].commit_index
      BY NodeFacts
    <3>2. d <= Len(committed)
      BY <3>1 DEF Served
    <3>3. Len(committed) \in Nat
      BY CommittedIsLog
    <3> QED BY <1>2, <1>6, <2>2, <3>1, <3>2, <3>3
  <2> QED BY <2>1, <2>2
<1> QED BY <1>7, <1>8 DEF Served

\* A step that moves no node, and neither drains nor applies.
LEMMA UnmovedServed ==
  ASSUME Served, st' = st, committed' = committed, UNCHANGED machine PROVE Served'
BY DEF Served, machine

\* The steps of a thread that its node's own timer, client or peer starts.
LEMMA DriverServed ==
  ASSUME Inv, Inv', Kept, Served, NEW n \in Nodes
  PROVE  /\ tick(n) => Served'
         /\ \A op \in Ops[n] : client_write(n, op) => Served'
         /\ replicate_now(n) => Served'
<1>1. PICK s : s = st[n]
  OBVIOUS
<1>2. Marked(s)
  BY <1>1, NodeFacts
<1>3. ASSUME tick(n) PROVE Served'
  <2>1. becomes(n, timeout(s)) /\ UNCHANGED machine
    BY <1>1, <1>3 DEF tick
  <2>2. Remains(s, timeout(s))
    BY <1>2, OwnRemains
  <2> QED BY <1>1, <2>1, <2>2, BecomesServed
<1>4. ASSUME NEW op \in Ops[n], client_write(n, op) PROVE Served'
  <2>1. becomes(n, propose(s, op)) /\ UNCHANGED machine
    BY <1>1, <1>4 DEF client_write
  <2>2. Remains(s, propose(s, op))
    BY <1>2, OwnRemains
  <2> QED BY <1>1, <2>1, <2>2, BecomesServed
<1>5. ASSUME replicate_now(n) PROVE Served'
  BY <1>5, UnmovedServed DEF replicate_now, raft
<1> QED BY <1>3, <1>4, <1>5

\* A request, whether its sender waits for the answer or not.
LEMMA RequestServed ==
  ASSUME Inv, Inv', Kept, Served, NEW m \in Messages, becomes(m.to, handle(st[m.to], m).state), UNCHANGED machine
  PROVE  Served'
<1>1. PICK p \in Nodes : p = m.to
  BY MessageFacts
<1>2. PICK s : s = st[p]
  OBVIOUS
<1>3. Remains(s, handle(s, m).state)
  BY <1>2, NodeFacts, RequestRemains
<1>4. becomes(p, handle(s, m).state)
  BY <1>1, <1>2
<1> QED BY <1>2, <1>3, <1>4, BecomesServed

\* The round trips of a node.
LEMMA TripServed ==
  ASSUME Inv, Inv', Kept, Served, NEW n \in Nodes
  PROVE  /\ \A t \in Threads : handle_request(n, t) \/ unreachable(n, t) \/ abandon(n, t) => Served'
         /\ \A t \in Threads, again \in BOOLEAN : time_out(n, t, again) => Served'
         /\ \A t \in Threads : receive_reply(n, t) => Served'
<1>1. PICK V, L, A : Holds(st, elected, V, L, A, queue, flight, late, committed)
  BY DEF Inv, Vouched
<1>2. ASSUME NEW t \in Threads, handle_request(n, t) PROVE Served'
  <2>1. PICK m : m = Head(queue[n][t])
    OBVIOUS
  <2>2. queue[n][t] # << >> /\ becomes(m.to, handle(st[m.to], m).state) /\ UNCHANGED machine
    BY <1>2, <2>1 DEF handle_request
  <2>3. Framed
    BY DEF Inv, Local
  <2>4. Sound(m, st, elected, L, A)
    BY <1>1, <2>1, <2>2, <2>3, HeadOf
  <2>5. m \in Messages
    BY <2>4 DEF Sound
  <2> QED BY <2>2, <2>5, RequestServed
<1>3. ASSUME NEW t \in Threads, unreachable(n, t) \/ abandon(n, t) PROVE Served'
  <2>1. st' = st /\ committed' = committed /\ UNCHANGED machine
    BY <1>3 DEF unreachable, abandon, raft
  <2> QED BY <2>1, UnmovedServed
<1>4. ASSUME NEW t \in Threads, NEW again \in BOOLEAN, time_out(n, t, again) PROVE Served'
  <2>1. st' = st /\ committed' = committed /\ UNCHANGED machine
    BY <1>4 DEF time_out, raft
  <2> QED BY <2>1, UnmovedServed
<1>5. ASSUME NEW t \in Threads, receive_reply(n, t) PROVE Served'
  <2>1. PICK p, r : p = flight[n][t].to /\ r = flight[n][t].reply
    OBVIOUS
  <2>2. flight[n][t] # Nil /\ becomes(n, handle_reply(st[n], p, r).state) /\ UNCHANGED machine
    BY <1>5, <2>1 DEF receive_reply
  <2>3. r.type \in {"Vote", "Append"}
    BY <1>1, <2>1, <2>2 DEF Holds, Wired, Backed
  <2>4. PICK s : s = st[n]
    OBVIOUS
  <2>5. Remains(s, handle_reply(s, p, r).state)
    BY <2>3, <2>4, NodeFacts, ReplyRemains
  <2> QED BY <2>2, <2>4, <2>5, BecomesServed
<1> QED BY <1>2, <1>3, <1>4, <1>5

\* A request whose sender gave up.
LEMMA LateServed ==
  ASSUME Inv, Inv', Kept, Served, NEW m \in late, handle_late(m) PROVE Served'
<1>1. PICK V, L, A : Holds(st, elected, V, L, A, queue, flight, late, committed)
  BY DEF Inv, Vouched
<1>2. m \in Messages
  BY <1>1 DEF Holds, Wired, Sound
<1>3. becomes(m.to, handle(st[m.to], m).state) /\ UNCHANGED machine
  BY DEF handle_late
<1> QED BY <1>2, <1>3, RequestServed

\* apply_actions(): draining moves entries from the log to the thread, and
\* applying them moves the store and the config along the log.
LEMMA ApplyServed ==
  ASSUME Inv, Inv', Kept, Served, NEW n \in Nodes
  PROVE  (drain(n) => Served') /\ (apply_one(n) => Served')
<1>1. PICK s : s = st[n]
  OBVIOUS
<1>2. PICK q \in Seq(AllOps \cup {Noop}) : q = applying[n]
  BY NodeFacts
<1>3. PICK D, c : D = store[n] /\ c = config[n]
  OBVIOUS
<1>4. NodeState(s, n) /\ s \in RaftStates /\ s.commit_index <= Len(s.log) /\ Serves(s, q, D, c)
  BY <1>1, <1>2, <1>3, NodeFacts DEF Served
<1>5. DOMAIN st = Nodes /\ DOMAIN applying = Nodes /\ DOMAIN store = Nodes /\ DOMAIN config = Nodes
  BY DEF Inv, Local, Owned, Applying
<1>6. ASSUME drain(n) PROVE Served'
  <2>1. PICK p : p = drained(s)
    OBVIOUS
  <2>2. PICK t : t = drain_apply(s)
    OBVIOUS
  <2>3. /\ q = << >> /\ st' = [st EXCEPT ![n] = t] /\ applying' = [applying EXCEPT ![n] = p]
        /\ committed' = committed /\ store' = store /\ config' = config
    BY <1>1, <1>2, <1>6, <2>1, <2>2 DEF drain
  <2>4. Len(q) = 0
    BY <2>3
  <2>5. Serves(t, p, D, c)
    BY <1>4, <2>1, <2>2, <2>4, ServesDrained
  <2>6. t.commit_index = s.commit_index
    BY <1>4, <2>2 DEF drain_apply, RaftStates
  <2>7. /\ st'[n] = t /\ applying'[n] = p /\ \A x \in Nodes : x # n => st'[x] = st[x] /\ applying'[x] = applying[x]
    BY <1>5, <2>3
  <2>8. ASSUME NEW x \in Nodes
        PROVE  Serves(st'[x], applying'[x], store'[x], config'[x]) /\ st'[x].commit_index <= Len(committed')
    <3>1. CASE x = n
      BY <1>1, <1>3, <2>3, <2>5, <2>6, <2>7, <3>1 DEF Served
    <3>2. CASE x # n
      BY <2>3, <2>7, <3>2 DEF Served
    <3> QED BY <3>1, <3>2
  <2> QED BY <2>8 DEF Served
<1>7. ASSUME apply_one(n) PROVE Served'
  <2>1. PICK o : o = Head(q)
    OBVIOUS
  <2>2. PICK p : p = Tail(q)
    OBVIOUS
  <2>3. /\ q # << >> /\ store' = [store EXCEPT ![n] = act(D, o)] /\ config' = [config EXCEPT ![n] = reconfigure(c, o)]
        /\ applying' = [applying EXCEPT ![n] = p] /\ st' = st /\ committed' = committed
    BY <1>2, <1>3, <1>5, <1>7, <2>1, <2>2 DEF apply_one, raft
  <2>4. Serves(s, p, act(D, o), reconfigure(c, o))
    BY <1>4, <2>1, <2>2, <2>3, ServesApplied
  <2>5. /\ store'[n] = act(D, o) /\ config'[n] = reconfigure(c, o) /\ applying'[n] = p
        /\ \A x \in Nodes : x # n => store'[x] = store[x] /\ config'[x] = config[x] /\ applying'[x] = applying[x]
    BY <1>5, <2>3
  <2>6. ASSUME NEW x \in Nodes
        PROVE  Serves(st'[x], applying'[x], store'[x], config'[x]) /\ st'[x].commit_index <= Len(committed')
    <3>1. CASE x = n
      BY <1>1, <2>3, <2>4, <2>5, <3>1 DEF Served
    <3>2. CASE x # n
      BY <2>3, <2>5, <3>2 DEF Served
    <3> QED BY <3>1, <3>2
  <2> QED BY <2>6 DEF Served
<1> QED BY <1>6, <1>7

\* The kill/revive switch does not touch what a node serves.
LEMMA SwitchServed ==
  ASSUME Inv, Inv', Kept, Served, NEW n \in Nodes PROVE (kill(n) => Served') /\ (revive(n) => Served')
<1>1. ASSUME kill(n) PROVE Served'
  BY <1>1, UnmovedServed DEF kill, raft
<1>2. ASSUME revive(n) PROVE Served'
  <2>1. PICK s \in RaftStates : s = st[n]
    BY NodeFacts
  <2>2. PICK t : t = note_revived(s)
    OBVIOUS
  <2>3. st' = [st EXCEPT ![n] = t] /\ committed' = committed /\ UNCHANGED machine
    BY <1>2, <2>1, <2>2 DEF revive
  <2>4. DOMAIN st = Nodes
    BY DEF Inv, Local, Owned
  <2>5. st'[n] = t /\ \A x \in Nodes : x # n => st'[x] = st[x]
    BY <2>3, <2>4
  <2>6. Remains(s, t)
    BY <2>2, StateMarked, PartsRemain
  <2>7. t.commit_index = s.commit_index
    BY <2>2 DEF note_revived, RaftStates
  <2>8. ASSUME NEW x \in Nodes
        PROVE  Serves(st'[x], applying'[x], store'[x], config'[x]) /\ st'[x].commit_index <= Len(committed')
    <3>1. Remains(st[x], st'[x])
      BY <2>1, <2>5, <2>6 DEF Remains
    <3>2. Serves(st[x], applying[x], store[x], config[x]) /\ st[x].commit_index <= Len(committed)
      BY DEF Served
    <3>3. Serves(st'[x], applying'[x], store'[x], config'[x])
      BY <2>3, <3>1, <3>2, MovedServes
    <3>4. st'[x].commit_index = st[x].commit_index
      BY <2>1, <2>5, <2>7
    <3> QED BY <2>3, <3>2, <3>3, <3>4
  <2> QED BY <2>8 DEF Served
<1> QED BY <1>1, <1>2

\* Every step keeps the second part of the invariant.
LEMMA ServedStep == ASSUME Inv, Served, [Next]_vars PROVE Served'
<1>1. Inv' /\ Kept
  BY InvStep
<1>2. CASE UNCHANGED vars
  BY <1>2, UnmovedServed DEF vars, raft
<1>3. CASE Next
  BY <1>1, <1>3, DriverServed, TripServed, LateServed, ApplyServed, SwitchServed DEF Next, Sending
<1> QED BY <1>2, <1>3

\* A node starts with nothing committed and nothing served.
LEMMA ServedInit == Init => Served
<1> SUFFICES ASSUME Init, NEW n \in Nodes
             PROVE  Serves(st[n], applying[n], store[n], config[n]) /\ st[n].commit_index <= Len(committed)
  BY DEF Served
<1>1. PICK s : s = st[n]
  OBVIOUS
<1>2. s = new(n)
  BY <1>1 DEF Init
<1>3. s.log = << >> /\ s.last_applied = 0 /\ s.commit_index = 0
  BY <1>2 DEF new
<1>4. applying[n] = << >> /\ store[n] = {} /\ config[n] = [epoch |-> 0, members |-> {}] /\ committed = << >>
  BY DEF Init
<1>5. PICK X \in Seq(Entries) : X = << >>
  <2>1. << >> \in Seq(Entries)
    OBVIOUS
  <2> QED BY <2>1
<1>6. PICK Y : Y = Part(X, 1, 0)
  OBVIOUS
<1>7. Y \in Seq(Entries) /\ Len(Y) = 0
  <2>1. Agree(X, X, 0)
    BY <1>5 DEF Agree
  <2> QED BY <1>6, <2>1, KeptPart
<1>8. Replay(Y) = Blank
  BY <1>7, ReplayNothing
<1>9. PICK q : q = << >>
  OBVIOUS
<1>10. Len(q) = 0
  BY <1>9
<1>11. Serves(s, q, {}, [epoch |-> 0, members |-> {}])
  BY <1>3, <1>5, <1>6, <1>8, <1>10 DEF Serves, Draining, Blank
<1>12. Len(committed) = 0
  BY <1>4
<1> QED BY <1>1, <1>3, <1>4, <1>9, <1>11, <1>12

\* Two prefixes of chosen entries agree as far as both go.
LEMMA SafesAgree ==
  ASSUME NEW S, NEW E, NEW V, NEW L, NEW A, Core(S, E, V, L, A),
         NEW X \in Seq(Entries), NEW c \in Nat, NEW t, Safe(L, A, X, c, t),
         NEW Y \in Seq(Entries), NEW d \in Nat, NEW u, Safe(L, A, Y, d, u), c <= d
  PROVE  Agree(X, Y, c)
<1>1. CASE c = 0
  BY <1>1 DEF Agree
<1>2. CASE c # 0
  <2>1. PICK T \in Nat, j \in Nat : c <= j /\ Chosen(L, A, T, j) /\ Agree(X, L[T], c)
    BY <1>2 DEF Safe
  <2>2. PICK U \in Nat, k \in Nat : d <= k /\ Chosen(L, A, U, k) /\ Agree(Y, L[U], d)
    BY <1>2 DEF Safe
  <2>3. PICK G \in Seq(Entries) : G = L[T]
    BY LogAt DEF Core, Ghosts
  <2>4. PICK H \in Seq(Entries) : H = L[U]
    BY LogAt DEF Core, Ghosts
  <2>5. Won(E, T) /\ Won(E, U)
    <3>1. G # << >> /\ H # << >>
      BY <2>1, <2>2, <2>3, <2>4 DEF Chosen
    <3> QED BY <2>3, <2>4, <3>1 DEF Core, Unwon
  <2>6. Choosable(S, L, A, T, j) /\ Choosable(S, L, A, U, k)
    BY <2>1, <2>2, ChosenChoosable
  <2>7. Agree(G, H, c)
    <3>1. CASE T = U
      <4>1. G = H /\ c <= Len(G)
        BY <2>1, <2>3, <2>4, <3>1 DEF Agree
      <4> QED BY <4>1, AgreeSelf
    <3>2. CASE T < U
      <4>1. Agree(G, H, j)
        BY <2>3, <2>4, <2>5, <2>6, <3>2 DEF Core, Complete
      <4>2. Len(G) \in Nat /\ Len(H) \in Nat
        OBVIOUS
      <4> QED BY <2>1, <4>1, <4>2, AgreeLess
    <3>3. CASE U < T
      <4>1. Agree(H, G, k)
        BY <2>3, <2>4, <2>5, <2>6, <3>3 DEF Core, Complete
      <4>2. Len(G) \in Nat /\ Len(H) \in Nat /\ c <= k
        BY <2>2
      <4>3. Agree(H, G, c)
        BY <4>1, <4>2, AgreeLess
      <4> QED BY <4>3, AgreeBack
    <3> QED BY <3>1, <3>2, <3>3
  <2>8. Agree(X, H, c)
    BY <2>1, <2>3, <2>7, AgreeOn
  <2>9. Agree(H, Y, c)
    <3>1. Agree(Y, H, d) /\ Len(Y) \in Nat /\ Len(H) \in Nat
      BY <2>2, <2>4
    <3>2. Agree(Y, H, c)
      BY <3>1, AgreeLess
    <3> QED BY <3>2, AgreeBack
  <2> QED BY <2>8, <2>9, AgreeOn
<1> QED BY <1>1, <1>2

\* What a node has committed is a prefix of what was ever committed.
LEMMA CommittedAgrees ==
  ASSUME Inv, NEW n \in Nodes, st[n].commit_index <= Len(committed)
  PROVE  Agree(st[n].log, committed, st[n].commit_index)
<1>1. PICK V, L, A : Holds(st, elected, V, L, A, queue, flight, late, committed)
  BY DEF Inv, Vouched
<1>2. PICK S : S = st
  OBVIOUS
<1>3. PICK E : E = elected
  OBVIOUS
<1>4. Core(S, E, V, L, A)
  BY <1>1, <1>2, <1>3 DEF Holds
<1>5. PICK C \in Seq(Entries) : C = committed
  BY CommittedIsLog
<1>6. PICK d \in Nat : d = Len(C)
  OBVIOUS
<1>7. PICK u \in Nat : Safe(L, A, C, d, u)
  BY <1>1, <1>5, <1>6 DEF Holds, Settled
<1>8. PICK X \in Seq(Entries) : X = S[n].log
  BY <1>2, NodeFacts, StateFacts
<1>9. PICK c \in Nat : c = S[n].commit_index
  BY <1>2, NodeFacts
<1>10. PICK t : Safe(L, A, X, c, t)
  BY <1>4, <1>8, <1>9 DEF Core, CommitsSafe
<1>11. c <= d
  BY <1>2, <1>5, <1>6, <1>9
<1>12. Agree(X, C, c)
  BY <1>4, <1>7, <1>10, <1>11, SafesAgree
<1> QED BY <1>2, <1>5, <1>8, <1>9, <1>12

\* Nodes serve what the committed log leads to.
LEMMA ServedReplays == Inv /\ Served => ReplicasAreReplays
<1> SUFFICES ASSUME Inv, Served, NEW n \in Nodes
             PROVE  [store |-> store[n], config |-> config[n]] =
                      Replay(SubSeq(committed, 1, st[n].last_applied - Len(applying[n])))
  BY DEF ReplicasAreReplays
<1>1. PICK s \in RaftStates : s = st[n]
  BY NodeFacts
<1>2. PICK X \in Seq(Entries) : X = s.log
  BY StateFacts
<1>3. PICK a \in Nat, c \in Nat, j \in Nat : a = s.last_applied /\ c = s.commit_index /\ j = Len(applying[n])
  BY <1>1, NodeFacts DEF RaftStates
<1>4. PICK C \in Seq(Entries) : C = committed
  BY CommittedIsLog
<1>5. j <= a /\ a <= c
  BY <1>1, <1>3 DEF Served, Serves, Draining
<1>6. [store |-> store[n], config |-> config[n]] = Replay(Part(X, 1, a - j))
  BY <1>1, <1>2, <1>3 DEF Served, Serves
<1>7. Agree(X, C, c)
  BY <1>1, <1>2, <1>3, <1>4, CommittedAgrees DEF Served
<1>8. a - j \in Nat /\ a - j <= c /\ Len(X) \in Nat /\ Len(C) \in Nat
  BY <1>5
<1>9. Agree(X, C, a - j)
  BY <1>7, <1>8, AgreeLess
<1>10. SubSeq(X, 1, a - j) = SubSeq(C, 1, a - j)
  BY <1>8, <1>9, AgreeIsSame
<1> QED BY <1>1, <1>3, <1>4, <1>6, <1>10 DEF Part


-----------------------------------------------------------------------------
(* The theorems.                                                           *)

\* The inductive invariant of the group: in every behaviour of ClusterNode, with
\* any number of nodes, threads, campaigns, client mutations and time-outs, there
\* are votes, leader logs and acknowledgements that vouch for the state of every
\* node, for every queued or late request and for every reply in flight.
THEOREM GroupInvariant == Spec => []Inv
<1>1. Inv /\ [Next]_vars => Inv'
  BY InvStep
<1> QED BY <1>1, InitHolds, PTL DEF Spec

\* No two nodes ever win one term (observe_term, handle_request_vote), two logs
\* that agree on the term of an index agree up to it (the consistency check of
\* handle_append_entries), and the newest leader holds every committed entry (the
\* up-to-date check of a vote, the current-term rule of advance_commit), for every
\* group and whatever is lost, late or handled twice.
THEOREM RaftSafety == Spec => []RaftIsSafe
<1>1. Inv => RaftIsSafe
  BY InvElection, InvMatching, InvComplete DEF RaftIsSafe
<1> QED BY <1>1, GroupInvariant, PTL

\* No step of any node truncates a committed entry or lowers commit_index,
\* whatever stale request or reply is handled (merge, follower_commit,
\* advance_commit).
THEOREM CommitFinality == Spec => CommitIsFinal
<1>1. ASSUME Inv, Inv', [Next]_vars, NEW n \in Nodes
      PROVE  /\ st'[n].commit_index >= st[n].commit_index
             /\ IsPrefix(SubSeq(st[n].log, 1, st[n].commit_index), st'[n].log)
  <2>1. CommitsKeep(st, st')
    BY <1>1, InvStep DEF Kept
  <2>2. PICK X \in Seq(Entries) : X = st[n].log
    BY <1>1, StateFacts DEF Inv, Local, Owned, NodeState
  <2>3. PICK Y \in Seq(Entries) : Y = st'[n].log
    BY <1>1, StateFacts DEF Inv, Local, Owned, NodeState
  <2>4. PICK c \in Nat : c = st[n].commit_index
    BY <1>1, StateFacts DEF Inv, Local, Owned, NodeState
  <2>5. PICK d \in Nat : d = st'[n].commit_index
    BY <1>1, StateFacts DEF Inv, Local, Owned, NodeState
  <2>6. c <= d /\ Agree(X, Y, c)
    BY <2>1, <2>2, <2>3, <2>4, <2>5 DEF CommitsKeep
  <2>7. PICK P : P = Part(X, 1, c)
    OBVIOUS
  <2>8. P \in Seq(Entries) /\ Len(P) = c /\ Agree(P, Y, c)
    BY <2>6, <2>7, KeptPart
  <2>9. IsPrefix(P, Y)
    BY <2>8, AgreeIsPrefix
  <2>10. P = SubSeq(st[n].log, 1, st[n].commit_index)
    BY <2>2, <2>4, <2>7 DEF Part
  <2> QED BY <2>3, <2>4, <2>5, <2>6, <2>9, <2>10
<1>2. Inv /\ Inv' /\ [Next]_vars =>
        [\A n \in Nodes :
           /\ st'[n].commit_index >= st[n].commit_index
           /\ IsPrefix(SubSeq(st[n].log, 1, st[n].commit_index), st'[n].log)]_vars
  BY <1>1
<1> QED BY <1>2, GroupInvariant, PTL DEF Spec, CommitIsFinal

\* State machine safety (apply_actions, apply_lock, drain_apply): at every moment
\* each node's store and configuration are exactly what some prefix of the one
\* committed log leads to, so that nodes which applied as much agree, for every
\* group and every log.
THEOREM StateMachineSafety == Spec => []ReplicasAreReplays
<1>1. Init => Inv /\ Served
  BY InitHolds, ServedInit
<1>2. Inv /\ Served /\ [Next]_vars => (Inv /\ Served)'
  BY InvStep, ServedStep
<1> QED BY <1>1, <1>2, ServedReplays, PTL DEF Spec
=============================================================================
