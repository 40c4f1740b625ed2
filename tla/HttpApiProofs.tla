--------------------------- MODULE HttpApiProofs ---------------------------
(***************************************************************************)
(* Proofs about HttpApi: for any users, databases, items, tokens and       *)
(* worker threads, the users are sound and the transactions are kept.      *)
(***************************************************************************)
EXTENDS HttpApi, TLAPS

-----------------------------------------------------------------------------
(* Tables: what insert, remove and an update in place do to one.           *)

IsTable(f, Keys, Values) ==
  DOMAIN f \subseteq Keys /\ \A k \in DOMAIN f : f[k] \in Values

\* The table with one key more has the old entries and the new one.
LEMMA InsertedEntries ==
  ASSUME NEW f, NEW key, NEW value
  PROVE  /\ DOMAIN Inserted(f, key, value) = DOMAIN f \cup {key}
         /\ Inserted(f, key, value)[key] = value
         /\ \A k \in DOMAIN f : k # key => Inserted(f, key, value)[k] = f[k]
BY DEF Inserted

\* The restricted table has the entries of the keys it keeps.
LEMMA RestrictedEntries ==
  ASSUME NEW f, NEW S
  PROVE  DOMAIN Restrict(f, S) = S /\ \A k \in S : Restrict(f, S)[k] = f[k]
BY DEF Restrict

\* The table with one key less has the other entries.
LEMMA RemovedEntries ==
  ASSUME NEW f, NEW key
  PROVE  /\ DOMAIN Removed(f, key) = DOMAIN f \ {key}
         /\ \A k \in DOMAIN f \ {key} : Removed(f, key)[k] = f[k]
BY DEF Removed, Restrict

\* An insertion keeps the type of a table,
LEMMA InsertedIsTable ==
  ASSUME NEW f, NEW Keys, NEW Values, IsTable(f, Keys, Values), NEW key \in Keys, NEW value \in Values
  PROVE  IsTable(Inserted(f, key, value), Keys, Values)
BY DEF IsTable, Inserted

\* so does a restriction,
LEMMA RestrictedIsTable ==
  ASSUME NEW f, NEW Keys, NEW Values, IsTable(f, Keys, Values), NEW S \in SUBSET DOMAIN f
  PROVE  IsTable(Restrict(f, S), Keys, Values)
BY DEF IsTable, Restrict

\* and the empty table has every type.
LEMMA EmptyTable ==
  DOMAIN << >> = {} /\ \A Keys, Values : IsTable(<< >>, Keys, Values)
<1>1. DOMAIN << >> = {}
  OBVIOUS
<1> QED BY <1>1 DEF IsTable

-----------------------------------------------------------------------------
(* Users and sessions.                                                     *)

UserRecords == [password : Passwords \cup {Garbled}, privileges : SUBSET Privileges, born : Nat]
Sessions == [user : Users, expired : BOOLEAN, born : Nat]

\* Every session is of a user of the table, and of that very record: dropping
\* a user drops its sessions, so that the name starts again without any.
SessionsAreOfUsers ==
  \A t \in DOMAIN sessions :
    /\ sessions[t].user \in DOMAIN users
    /\ sessions[t].born = users[sessions[t].user].born

UsersInv ==
  /\ IsTable(users, Users, UserRecords) /\ IsTable(file, Users, UserRecords)
  /\ IsTable(sessions, Tokens, Sessions)
  /\ added \in Nat /\ unsaved \in BOOLEAN
  /\ Root \in DOMAIN users
  /\ SessionsAreOfUsers
  /\ ~unsaved => file = users

\* A table read from the file, with root added if it is not there.
LEMMA RootedIsTable ==
  ASSUME NEW f, IsTable(f, Users, UserRecords)
  PROVE  IsTable(Rooted(f), Users, UserRecords) /\ Root \in DOMAIN Rooted(f)
<1> DEFINE r == [password |-> Seed, privileges |-> {"Admin"}, born |-> 0]
<1>1. r \in UserRecords /\ Root \in Users
  BY UsersAssumption DEF UserRecords
<1> HIDE DEF r
<1>2. IsTable(Inserted(f, Root, r), Users, UserRecords)
  BY <1>1, InsertedIsTable
<1>3. Root \in DOMAIN Inserted(f, Root, r)
  BY DEF Inserted
<1> USE DEF r
<1> QED BY <1>2, <1>3 DEF Rooted

\* Saving a table: the file is a table, and the table if nothing failed.
LEMMA SaveKeepsFile ==
  ASSUME NEW table, IsTable(table, Users, UserRecords), IsTable(file, Users, UserRecords), save(table)
  PROVE  /\ IsTable(file', Users, UserRecords) /\ unsaved' \in BOOLEAN
         /\ ~unsaved' => file' = table
<1>1. CASE file' = table /\ unsaved' = FALSE
  BY <1>1
<1>2. CASE file' \in {file} \cup Torn(table) /\ unsaved' = TRUE
  <2>1. CASE file' = file
    BY <1>2, <2>1
  <2>2. CASE file' \in Torn(table)
    <3>1. ASSUME NEW u PROVE IsTable(Before(table, u), Users, UserRecords)
      BY RestrictedIsTable DEF Before
    <3>2. CASE \E u \in Users : file' = Before(table, u)
      BY <1>2, <3>1, <3>2
    <3>3. CASE \E u \in DOMAIN table : \E user \in Cut(table[u]) : file' = Inserted(Before(table, u), u, user)
      <4>1. PICK u \in DOMAIN table : \E user \in Cut(table[u]) : file' = Inserted(Before(table, u), u, user)
        BY <3>3
      <4>2. PICK user \in Cut(table[u]) : file' = Inserted(Before(table, u), u, user)
        BY <4>1
      <4>3. u \in Users /\ table[u] \in UserRecords
        BY DEF IsTable
      <4>4. user \in UserRecords
        BY <4>3 DEF Cut, UserRecords
      <4> QED BY <1>2, <3>1, <4>2, <4>3, <4>4, InsertedIsTable
    <3> QED BY <2>2, <3>2, <3>3 DEF Torn
  <2> QED BY <1>2, <2>1, <2>2
<1> QED BY <1>1, <1>2 DEF save

LEMMA AddKeepsUsers ==
  ASSUME UsersInv, NEW u \in Users, NEW p \in Passwords, NEW l \in Lists, add(u, p, l)
  PROVE  UsersInv'
<1> DEFINE r == [password |-> p, privileges |-> l, born |-> added + 1]
<1>1. PICK table : table = Inserted(users, u, r)
  OBVIOUS
<1>2. /\ users' = table /\ save(table) /\ sessions' = sessions
      /\ added' \in Nat /\ u \notin DOMAIN users
  BY <1>1 DEF add, UsersInv
<1>3. r \in UserRecords
  BY UsersAssumption DEF UserRecords, UsersInv
<1>4. IsTable(table, Users, UserRecords)
  BY <1>1, <1>3, InsertedIsTable DEF UsersInv
<1>5. \A v \in DOMAIN users : v \in DOMAIN table /\ table[v] = users[v]
  BY <1>1, <1>2 DEF Inserted
<1>6. SessionsAreOfUsers'
  BY <1>2, <1>5 DEF SessionsAreOfUsers, UsersInv
<1>7. /\ IsTable(file', Users, UserRecords) /\ unsaved' \in BOOLEAN
      /\ ~unsaved' => file' = table
  BY <1>2, <1>4, SaveKeepsFile DEF UsersInv
<1> QED BY <1>2, <1>4, <1>5, <1>6, <1>7 DEF UsersInv

LEMMA DropKeepsUsers ==
  ASSUME UsersInv, NEW u \in Users, drop_user(u)
  PROVE  UsersInv'
<1>1. PICK table : table = Without(u)
  OBVIOUS
<1>2. /\ users' = table /\ save(table) /\ sessions' = SessionsOfOthers(u)
      /\ added' \in Nat /\ u # Root
  BY <1>1 DEF drop_user, UsersInv
<1>3. IsTable(table, Users, UserRecords)
  BY <1>1, RestrictedIsTable DEF UsersInv, Without, Removed
<1>4. DOMAIN table = DOMAIN users \ {u} /\ \A v \in DOMAIN table : table[v] = users[v]
  BY <1>1, RemovedEntries DEF Without
<1>5. /\ DOMAIN sessions' = {t \in DOMAIN sessions : sessions[t].user # u}
      /\ \A t \in DOMAIN sessions' : sessions'[t] = sessions[t]
  BY <1>2, RestrictedEntries DEF SessionsOfOthers
<1>6. SessionsAreOfUsers'
  BY <1>2, <1>4, <1>5 DEF SessionsAreOfUsers, UsersInv
<1>7. IsTable(sessions', Tokens, Sessions)
  BY <1>5 DEF IsTable, UsersInv
<1>8. /\ IsTable(file', Users, UserRecords) /\ unsaved' \in BOOLEAN
      /\ ~unsaved' => file' = table
  BY <1>2, <1>3, SaveKeepsFile DEF UsersInv
<1> QED BY <1>2, <1>3, <1>4, <1>6, <1>7, <1>8 DEF UsersInv

\* A record changed in place keeps when it was added.
LEMMA ChangeKeepsUsers ==
  ASSUME UsersInv, NEW u \in DOMAIN users, NEW table, NEW r \in UserRecords, r.born = users[u].born,
         table = [users EXCEPT ![u] = r], users' = table, save(table), UNCHANGED <<sessions, added>>
  PROVE  UsersInv'
<1>1. IsTable(table, Users, UserRecords)
  BY DEF IsTable, UsersInv
<1>2. DOMAIN table = DOMAIN users /\ \A v \in DOMAIN users : table[v].born = users[v].born
  OBVIOUS
<1>3. SessionsAreOfUsers'
  BY <1>2 DEF SessionsAreOfUsers, UsersInv
<1>4. /\ IsTable(file', Users, UserRecords) /\ unsaved' \in BOOLEAN
      /\ ~unsaved' => file' = table
  BY <1>1, SaveKeepsFile DEF UsersInv
<1> QED BY <1>1, <1>2, <1>3, <1>4 DEF UsersInv

LEMMA PasswordKeepsUsers ==
  ASSUME UsersInv, NEW u \in Users, NEW p \in Passwords, set_password(u, p)
  PROVE  UsersInv'
<1>1. u \in DOMAIN users /\ users[u] \in UserRecords
  BY DEF set_password, UsersInv, IsTable
<1>2. PICK r : r = [users[u] EXCEPT !.password = p]
  OBVIOUS
<1>3. r \in UserRecords /\ r.born = users[u].born
  BY <1>1, <1>2 DEF UserRecords
<1>4. PICK table : table = [users EXCEPT ![u] = r]
  OBVIOUS
<1>5. users' = table /\ save(table) /\ UNCHANGED <<sessions, added>>
  BY <1>2, <1>4 DEF set_password
<1> QED BY <1>1, <1>3, <1>4, <1>5, ChangeKeepsUsers

LEMMA ModifyKeepsUsers ==
  ASSUME UsersInv, NEW u \in Users, NEW l \in SUBSET Privileges, modify_privs(u, l)
  PROVE  UsersInv'
<1>1. u \in DOMAIN users /\ users[u] \in UserRecords
  BY DEF modify_privs, UsersInv, IsTable
<1>2. PICK r : r = [users[u] EXCEPT !.privileges = l]
  OBVIOUS
<1>3. r \in UserRecords /\ r.born = users[u].born
  BY <1>1, <1>2 DEF UserRecords
<1>4. PICK table : table = [users EXCEPT ![u] = r]
  OBVIOUS
<1>5. users' = table /\ save(table) /\ UNCHANGED <<sessions, added>>
  BY <1>2, <1>4 DEF modify_privs
<1> QED BY <1>1, <1>3, <1>4, <1>5, ChangeKeepsUsers

LEMMA GrantKeepsUsers ==
  ASSUME UsersInv, NEW u \in Users, NEW l \in Lists,
         grant(u, l) \/ revoke(u, l) \/ clear_privileges(u)
  PROVE  UsersInv'
<1>1. l \in SUBSET Privileges
  BY UsersAssumption
<1>2. u \in DOMAIN users => users[u].privileges \in SUBSET Privileges
  BY DEF UsersInv, IsTable, UserRecords
<1>3. CASE grant(u, l)
  BY <1>1, <1>2, <1>3, ModifyKeepsUsers DEF grant
<1>4. CASE revoke(u, l)
  BY <1>1, <1>2, <1>4, ModifyKeepsUsers DEF revoke
<1>5. CASE clear_privileges(u)
  BY <1>5, ModifyKeepsUsers DEF clear_privileges
<1> QED BY <1>3, <1>4, <1>5

LEMMA LoginKeepsUsers ==
  ASSUME UsersInv, NEW u \in Users, NEW p \in Passwords, login(u, p)
  PROVE  UsersInv'
<1>1. PICK t \in Tokens \ DOMAIN sessions :
        sessions' = Inserted(sessions, t, [user |-> u, expired |-> FALSE, born |-> users[u].born])
  BY DEF login
<1>2. u \in DOMAIN users /\ UNCHANGED <<users, file, unsaved, added>>
  BY DEF login, verify
<1>3. users[u].born \in Nat
  BY <1>2 DEF UsersInv, IsTable, UserRecords
<1>4. [user |-> u, expired |-> FALSE, born |-> users[u].born] \in Sessions
  BY <1>3 DEF Sessions
<1>5. IsTable(sessions', Tokens, Sessions)
  BY <1>1, <1>4, InsertedIsTable DEF UsersInv
<1>6. /\ DOMAIN sessions' = DOMAIN sessions \cup {t}
      /\ sessions'[t].user = u /\ sessions'[t].born = users[u].born
      /\ \A s \in DOMAIN sessions : sessions'[s] = sessions[s]
  BY <1>1 DEF Inserted
<1>7. SessionsAreOfUsers'
  BY <1>2, <1>6 DEF SessionsAreOfUsers, UsersInv
<1> QED BY <1>2, <1>5, <1>7 DEF UsersInv

LEMMA LogoutKeepsUsers ==
  ASSUME UsersInv, NEW t, logout(t)
  PROVE  UsersInv'
<1>1. sessions' = Removed(sessions, t) /\ UNCHANGED <<users, file, unsaved, added>>
  BY DEF logout
<1>2. DOMAIN sessions' \subseteq DOMAIN sessions /\ \A s \in DOMAIN sessions' : sessions'[s] = sessions[s]
  BY <1>1, RemovedEntries
<1>3. SessionsAreOfUsers' /\ IsTable(sessions', Tokens, Sessions)
  BY <1>1, <1>2 DEF SessionsAreOfUsers, UsersInv, IsTable
<1> QED BY <1>1, <1>3 DEF UsersInv

LEMMA ExpireKeepsUsers ==
  ASSUME UsersInv, NEW t, expire(t)
  PROVE  UsersInv'
<1>1. /\ t \in DOMAIN sessions /\ sessions' = [sessions EXCEPT ![t].expired = TRUE]
      /\ UNCHANGED <<users, file, unsaved, added>>
  BY DEF expire
<1>2. sessions[t] \in Sessions
  BY <1>1 DEF UsersInv, IsTable
<1>3. /\ DOMAIN sessions' = DOMAIN sessions /\ sessions'[t] \in Sessions
      /\ sessions'[t].user = sessions[t].user /\ sessions'[t].born = sessions[t].born
      /\ \A s \in DOMAIN sessions \ {t} : sessions'[s] = sessions[s]
  BY <1>1, <1>2 DEF Sessions
<1>4. SessionsAreOfUsers' /\ IsTable(sessions', Tokens, Sessions)
  BY <1>1, <1>3 DEF SessionsAreOfUsers, UsersInv, IsTable
<1> QED BY <1>1, <1>4 DEF UsersInv

\* The server starts, on a file that may have been torn.
LEMMA OpenKeepsUsers ==
  ASSUME UsersInv, open(file)
  PROVE  UsersInv'
<1>1. /\ users' = Rooted(file) /\ file' = Rooted(file) /\ sessions' = << >>
      /\ unsaved' = FALSE /\ added' = added
  BY DEF open
<1>2. IsTable(Rooted(file), Users, UserRecords) /\ Root \in DOMAIN Rooted(file)
  BY RootedIsTable DEF UsersInv
<1>3. SessionsAreOfUsers' /\ IsTable(sessions', Tokens, Sessions)
  BY <1>1, EmptyTable DEF SessionsAreOfUsers
<1> QED BY <1>1, <1>2, <1>3 DEF UsersInv

LEMMA InitUsers ==
  ASSUME UsersInit
  PROVE  UsersInv
<1>1. IsTable(Rooted(<< >>), Users, UserRecords) /\ Root \in DOMAIN Rooted(<< >>)
  BY EmptyTable, RootedIsTable
<1>2. SessionsAreOfUsers /\ IsTable(sessions, Tokens, Sessions)
  BY EmptyTable DEF UsersInit, SessionsAreOfUsers
<1> QED BY <1>1, <1>2 DEF UsersInit, UsersInv

\* Requests about databases leave the users alone.
LEMMA RouteLeavesUsers ==
  ASSUME NEW w \in Workers, NEW u \in Users, Route(w, u)
  PROVE  UNCHANGED userVars
<1>1. ASSUME NEW n \in Names, NEW stmt \in Statements, run_query(w, u, n, stmt) PROVE UNCHANGED userVars
  BY <1>1 DEF run_query, userVars
<1>2. ASSUME NEW n \in Names, \/ handle_build(w, u, n) \/ handle_load(w, u, n)
        \/ handle_unload(w, u, n) \/ handle_drop(w, u, n) \/ handle_restore(w, u, n)
      PROVE  UNCHANGED userVars
  BY <1>2 DEF handle_build, handle_load, handle_unload, handle_drop, handle_restore, userVars
<1>3. ASSUME NEW n \in Names, handle_upload(w, u, n) \/ hold_loaded(w, u, n) PROVE UNCHANGED userVars
  BY <1>3 DEF handle_upload, hold_loaded, userVars
<1>4. ASSUME NEW t \in Tids, handle_tquery(w, u, t) PROVE UNCHANGED userVars
  BY <1>4 DEF handle_tquery, userVars
<1>5. ASSUME NEW t \in Tids, NEW op, handle_txn_end(w, u, t, op) PROVE UNCHANGED userVars
  BY <1>5 DEF handle_txn_end, userVars
<1>6. ASSUME NEW t \in Workers, handle_cancel(w, u, t) PROVE UNCHANGED userVars
  BY <1>6 DEF handle_cancel, userVars
<1>7. ASSUME monitor(w, u) PROVE UNCHANGED userVars
  BY <1>7 DEF monitor, userVars
<1> QED BY <1>1, <1>2, <1>3, <1>4, <1>5, <1>6, <1>7 DEF Route

LEMMA ProceedLeavesUsers ==
  ASSUME NEW w \in Workers, Proceed(w)
  PROVE  UNCHANGED userVars
BY DEF Proceed, lock_db, evaluate, unregister_task, work, read_stats, userVars

LEMMA NextKeepsUsers ==
  ASSUME UsersInv, [Next]_vars
  PROVE  UsersInv'
<1>1. ASSUME UNCHANGED userVars PROVE UsersInv'
  BY <1>1 DEF UsersInv, SessionsAreOfUsers, userVars, IsTable
<1>2. ASSUME NEW w \in Workers, handle_login(w) PROVE UsersInv'
  BY <1>2, LoginKeepsUsers DEF handle_login
<1>3. ASSUME NEW w \in Workers, handle_logout(w) PROVE UsersInv'
  BY <1>3, LogoutKeepsUsers DEF handle_logout
<1>4. ASSUME NEW w \in Workers, Proceed(w) PROVE UsersInv'
  BY <1>1, <1>4, ProceedLeavesUsers
<1>5. ASSUME NEW w \in Workers, NEW u \in Users, Route(w, u) PROVE UsersInv'
  BY <1>1, <1>5, RouteLeavesUsers
<1>6. ASSUME NEW w \in Workers, NEW u \in Users, Manage(w, u) PROVE UsersInv'
  <2>1. CASE handle_user_create(w, u)
    BY <2>1, AddKeepsUsers DEF handle_user_create
  <2>2. CASE handle_user_drop(w, u)
    BY <2>2, DropKeepsUsers DEF handle_user_drop
  <2>3. CASE handle_user_password(w, u)
    BY <2>3, PasswordKeepsUsers DEF handle_user_password
  <2>4. CASE handle_user_grant(w, u)
    BY <2>4, GrantKeepsUsers DEF handle_user_grant
  <2> QED BY <1>6, <2>1, <2>2, <2>3, <2>4 DEF Manage
<1>7. ASSUME NEW t \in Tokens, expire(t) \/ prune(t) PROVE UsersInv'
  BY <1>7, ExpireKeepsUsers, LogoutKeepsUsers DEF prune
<1>8. ASSUME restart PROVE UsersInv'
  BY <1>8, OpenKeepsUsers DEF restart
<1>9. ASSUME UNCHANGED vars PROVE UsersInv'
  BY <1>1, <1>9 DEF vars
<1> QED BY <1>2, <1>3, <1>4, <1>5, <1>6, <1>7, <1>8, <1>9 DEF Next

\* The strengthening is kept by every step of every worker.
LEMMA UsersInvariant == Spec => []UsersInv
<1>1. Init => UsersInv
  BY InitUsers DEF Init
<1>2. UsersInv /\ [Next]_vars => UsersInv'
  BY NextKeepsUsers
<1> QED BY <1>1, <1>2, PTL DEF Spec

\* http_users.rs: a session never stands for a later user of the same name,
\* root keeps every privilege, and the file is the table unless a save has
\* failed, for any number of users, tokens, passwords and workers, and
\* through restarts on a torn file.
THEOREM UsersSafety == Spec => []UsersAreSound
<1>1. UsersInv => UsersAreSound
  <2> SUFFICES ASSUME UsersInv PROVE UsersAreSound
    OBVIOUS
  <2>1. ASSUME NEW t \in Tokens, session_user(t) # Nobody
        PROVE  sessions[t].born = users[session_user(t)].born
    BY <2>1 DEF session_user, UsersInv, SessionsAreOfUsers
  <2>2. \A p \in Privileges : has_priv(Root, p)
    BY DEF has_priv, has, UsersInv
  <2> QED BY <2>1, <2>2 DEF UsersAreSound, UsersInv
<1> QED BY <1>1, UsersInvariant, PTL

-----------------------------------------------------------------------------
(* Databases and transactions: the invariant.                              *)

Transactions == [tid : Tids, base : SUBSET Items]
IsDb(d) ==
  /\ d = [db |-> d.db, data |-> d.data, txn |-> d.txn]
  /\ d.data \subseteq Items /\ d.txn \in Transactions \cup {None}

TablesInv ==
  /\ DOMAIN dbs \subseteq Names /\ \A n \in DOMAIN dbs : IsDb(dbs[n])
  /\ IsTable(disk, Names, SUBSET Items)
  /\ IsTable(txns, Tids, Names) /\ IsTable(db_txn, Names, Tids)

\* The worker that waits with the state lock held is the one the lock names,
\* and a job that waits for its database is a statement for a name.
LockInv ==
  /\ DOMAIN pc = Workers /\ DOMAIN job = Workers
  /\ state_lock \in Workers \cup {None}
  /\ \A w \in Workers : pc[w] = "holding" <=> state_lock = w
  /\ \A w \in Workers :
       pc[w] \in {"queued", "running"} => job[w].stmt \in Statements /\ job[w].name \in Names

\* What that worker was told under the lock is still so: its database is the
\* one loaded under the name, and the registries are as it left them.
Works == {"begin", "commit", "rollback", "tquery", "batch", "checkpoint", "backup", "export"}
Held(j) ==
  /\ j.name \in DOMAIN dbs /\ dbs[j.name].db = j.db /\ j.op \in Works
  /\ j.op \in {"begin", "commit", "rollback"} => j.name \notin DOMAIN db_txn
  /\ j.op \in {"tquery", "batch"} => j.stmt \in Statements
  /\ j.op = "tquery" => j.tid \in DOMAIN txns /\ txns[j.tid] = j.name
HeldInv == state_lock # None => Held(job[state_lock])

\* An item that was promised is there, and a rollback would leave it there
\* unless the transaction that would be rolled back put it there.
PromiseInv ==
  /\ promised \subseteq Names \X Items /\ own \subseteq Names \X Items
  /\ \A x \in promised :
       /\ x[1] \in DOMAIN dbs /\ x[2] \in dbs[x[1]].data
       /\ dbs[x[1]].txn # None => x \in own \/ x[2] \in dbs[x[1]].txn.base

ApiInv == TablesInv /\ LockInv /\ HeldInv /\ PromiseInv /\ TransactionsAgree

-----------------------------------------------------------------------------
(* The state lock and the workers.                                         *)

\* A step of w changes the place and the job of no other worker.
Moves(w) ==
  /\ DOMAIN pc' = Workers /\ DOMAIN job' = Workers
  /\ \A v \in Workers \ {w} : pc'[v] = pc[v] /\ job'[v] = job[v]
Waits(w) == pc'[w] \in {"queued", "running"} => job'[w].stmt \in Statements /\ job'[w].name \in Names

\* A transaction is being ended by the worker that holds the state lock.
EndingHeld ==
  \A n : Ending(n) <=> /\ state_lock # None /\ job[state_lock].name = n
                       /\ job[state_lock].op \in {"commit", "rollback"}
LEMMA EndingIsHeld == LockInv => EndingHeld
BY NoneAssumption DEF LockInv, EndingHeld, Ending
LEMMA EndingIsHeldAfter == LockInv' => EndingHeld'
BY EndingIsHeld, PTL

\* Setting the place and the job of w.
LEMMA SetMoves ==
  ASSUME LockInv, NEW w \in Workers, NEW s, NEW j,
         pc' = [pc EXCEPT ![w] = s], job' = [job EXCEPT ![w] = j]
  PROVE  Moves(w) /\ pc'[w] = s /\ job'[w] = j
BY DEF LockInv, Moves

LEMMA QuietLock ==
  ASSUME LockInv, NEW w \in Workers, Moves(w), Waits(w), pc[w] # "holding", pc'[w] # "holding",
         UNCHANGED state_lock
  PROVE  LockInv' /\ (state_lock # None => job'[state_lock] = job[state_lock])
BY NoneAssumption DEF LockInv, Moves, Waits

LEMMA TakeLock ==
  ASSUME LockInv, NEW w \in Workers, Moves(w), pc'[w] = "holding", state_lock = None, state_lock' = w
  PROVE  LockInv'
BY NoneAssumption DEF LockInv, Moves

LEMMA ReleaseLock ==
  ASSUME LockInv, NEW w \in Workers, Moves(w), pc[w] = "holding", pc'[w] = "idle", state_lock' = None
  PROVE  LockInv' /\ state_lock = w
BY NoneAssumption DEF LockInv, Moves

\* The databases and the registries are what they were, but for the contents.
SameShape ==
  /\ DOMAIN dbs' = DOMAIN dbs
  /\ \A n \in DOMAIN dbs : dbs'[n].db = dbs[n].db /\ dbs'[n].txn = dbs[n].txn
  /\ UNCHANGED <<txns, db_txn, replaced, strayed>>

\* A step that leaves them so, and the state lock, keeps what is held and the
\* agreement about transactions.
LEMMA QuietKeeps ==
  ASSUME LockInv, HeldInv, TransactionsAgree, SameShape, LockInv', UNCHANGED state_lock,
         state_lock # None => job'[state_lock] = job[state_lock]
  PROVE  HeldInv' /\ TransactionsAgree'
<1>1. HeldInv'
  BY DEF HeldInv, Held, SameShape
<1>2. \A n : Ending(n) <=> Ending(n)'
  BY EndingIsHeld, EndingIsHeldAfter DEF EndingHeld
<1>3. TransactionsAgree'
  BY <1>2 DEF TransactionsAgree, SameShape
<1> QED BY <1>1, <1>3

-----------------------------------------------------------------------------
(* Statements.                                                             *)

\* The effect of a statement on one database.
LEMMA AppliedKeepsDb ==
  ASSUME NEW d, IsDb(d), NEW stmt \in Statements
  PROVE  /\ IsDb(Applied(d, stmt)) /\ Applied(d, stmt).db = d.db /\ Applied(d, stmt).txn = d.txn
         /\ stmt.kind = "insert" => stmt.item \in Items /\ Applied(d, stmt).data = d.data \cup {stmt.item}
         /\ stmt.kind = "delete" => stmt.item \in Items /\ Applied(d, stmt).data = d.data \ {stmt.item}
         /\ stmt.kind \notin {"insert", "delete"} => Applied(d, stmt) = d
<1>1. CASE stmt.kind = "insert"
  BY <1>1 DEF Applied, IsDb, Statements
<1>2. CASE stmt.kind = "delete"
  BY <1>2 DEF Applied, IsDb, Statements
<1>3. CASE stmt.kind \notin {"insert", "delete"}
  BY <1>3 DEF Applied, IsDb, Statements
<1> QED BY <1>1, <1>2, <1>3

\* A statement keeps what was promised and what a rollback would restore. If
\* it promises an item of a database in a transaction, own has to have it.
LEMMA QueryKeeps ==
  ASSUME TablesInv, PromiseInv, NEW n \in Names, NEW h, NEW stmt \in Statements, NEW inOwn \in BOOLEAN,
         query(n, h, stmt, inOwn), UNCHANGED <<txns, db_txn, disk>>,
         own \subseteq own', own' \subseteq Names \X Items,
         inOwn => promised' \ promised \subseteq own'
  PROVE  /\ TablesInv' /\ PromiseInv' /\ DOMAIN dbs' = DOMAIN dbs
         /\ \A m \in DOMAIN dbs : dbs'[m].db = dbs[m].db /\ dbs'[m].txn = dbs[m].txn
<1>1. CASE ~Loaded(n, h)
  BY <1>1 DEF query, TablesInv, PromiseInv, IsDb, IsTable
<1>2. CASE Loaded(n, h)
  <2>1. /\ n \in DOMAIN dbs /\ dbs' = [dbs EXCEPT ![n] = Applied(@, stmt)]
        /\ promised' = Promise(n, stmt, inOwn)
    BY <1>2 DEF query, Loaded
  <2>2. PICK d : d = Applied(dbs[n], stmt)
    OBVIOUS
  <2>3. /\ IsDb(d) /\ d.db = dbs[n].db /\ d.txn = dbs[n].txn
        /\ stmt.kind = "insert" => stmt.item \in Items /\ d.data = dbs[n].data \cup {stmt.item}
        /\ stmt.kind = "delete" => stmt.item \in Items /\ d.data = dbs[n].data \ {stmt.item}
        /\ stmt.kind \notin {"insert", "delete"} => d = dbs[n]
    BY <2>1, <2>2, AppliedKeepsDb DEF TablesInv
  <2>4. /\ DOMAIN dbs' = DOMAIN dbs /\ dbs'[n] = d
        /\ \A m \in DOMAIN dbs \ {n} : dbs'[m] = dbs[m]
    BY <2>1, <2>2
  <2>5. \A m \in DOMAIN dbs : dbs'[m].db = dbs[m].db /\ dbs'[m].txn = dbs[m].txn
    BY <2>3, <2>4
  <2>6. TablesInv'
    BY <2>3, <2>4 DEF TablesInv, IsTable, IsDb
  <2>7. promised' \subseteq Names \X Items
    BY <2>1, <2>3 DEF Promise, PromiseInv
  <2>8. ASSUME NEW x \in promised'
        PROVE  /\ x[1] \in DOMAIN dbs' /\ x[2] \in dbs'[x[1]].data
               /\ dbs'[x[1]].txn # None => x \in own' \/ x[2] \in dbs'[x[1]].txn.base
    <3>1. CASE x \in promised
      <4>1. /\ x[1] \in DOMAIN dbs /\ x[2] \in dbs[x[1]].data
            /\ dbs[x[1]].txn # None => x \in own' \/ x[2] \in dbs[x[1]].txn.base
        BY <3>1 DEF PromiseInv
      <4>2. x = <<x[1], x[2]>>
        BY <2>7, <2>8
      <4>3. CASE x[1] = n /\ stmt.kind = "delete"
        <5>1. x # <<n, stmt.item>>
          BY <2>1, <2>8, <4>3 DEF Promise
        <5>2. x[2] # stmt.item
          BY <4>2, <4>3, <5>1
        <5> QED BY <2>3, <2>4, <4>1, <4>3, <5>2
      <4>4. CASE x[1] = n /\ stmt.kind # "delete"
        BY <2>3, <2>4, <4>1, <4>4
      <4>5. CASE x[1] # n
        BY <2>4, <4>1, <4>5
      <4> QED BY <4>3, <4>4, <4>5
    <3>2. CASE x \notin promised
      <4>1. stmt.kind = "insert" /\ x = <<n, stmt.item>> /\ (inOwn \/ dbs[n].txn = None)
        BY <2>1, <2>8, <3>2 DEF Promise
      <4>2. x[1] = n /\ x[2] = stmt.item
        BY <4>1
      <4>3. dbs'[n].txn # None => x \in own'
        BY <2>5, <2>1, <2>8, <3>2, <4>1
      <4> QED BY <2>1, <2>3, <2>4, <4>1, <4>2, <4>3
    <3> QED BY <3>1, <3>2
  <2> QED BY <2>4, <2>5, <2>6, <2>7, <2>8 DEF PromiseInv
<1> QED BY <1>1, <1>2

-----------------------------------------------------------------------------
(* The steps, one by one: those that leave the state lock alone.           *)

\* The databases stay as they are while w, which does not hold the state
\* lock, moves on.
LEMMA MoveKeeps ==
  ASSUME ApiInv, NEW w \in Workers, Moves(w), Waits(w), pc[w] # "holding", pc'[w] # "holding",
         UNCHANGED <<state_lock, registries, disk, ghosts>>
  PROVE  ApiInv'
<1>1. LockInv' /\ (state_lock # None => job'[state_lock] = job[state_lock])
  BY QuietLock DEF ApiInv
<1>2. SameShape
  BY DEF SameShape, registries, ghosts
<1>3. HeldInv' /\ TransactionsAgree'
  BY <1>1, <1>2, QuietKeeps DEF ApiInv
<1>4. TablesInv' /\ PromiseInv'
  BY DEF ApiInv, TablesInv, PromiseInv, registries, ghosts, IsTable, IsDb
<1> QED BY <1>1, <1>3, <1>4 DEF ApiInv

LEMMA RunQueryKeeps ==
  ASSUME ApiInv, NEW w \in Workers, NEW u, NEW n \in Names, NEW stmt \in Statements, run_query(w, u, n, stmt)
  PROVE  ApiInv'
<1>1. PICK j : j = [db |-> dbs[n].db, name |-> n, stmt |-> stmt]
  OBVIOUS
<1>2. /\ pc[w] = "idle" /\ pc' = [pc EXCEPT ![w] = "queued"] /\ job' = [job EXCEPT ![w] = j]
      /\ UNCHANGED <<state_lock, registries, disk, ghosts>>
  BY <1>1 DEF run_query, guarded, handle, locks
<1>3. Moves(w) /\ pc'[w] = "queued" /\ job'[w] = j
  BY <1>2, SetMoves DEF ApiInv
<1> QED BY <1>1, <1>2, <1>3, MoveKeeps DEF Waits

LEMMA LockDbKeeps ==
  ASSUME ApiInv, NEW w \in Workers, lock_db(w)
  PROVE  ApiInv'
<1>1. /\ pc[w] = "queued" /\ pc' = [pc EXCEPT ![w] = "running"] /\ job' = job
      /\ UNCHANGED <<state_lock, registries, disk, ghosts>>
  BY DEF lock_db
<1>2. Moves(w) /\ pc'[w] = "running"
  BY <1>1 DEF Moves, ApiInv, LockInv
<1>3. Waits(w)
  BY <1>1 DEF Waits, ApiInv, LockInv
<1> QED BY <1>1, <1>2, <1>3, MoveKeeps

LEMMA EvaluateKeeps ==
  ASSUME ApiInv, NEW w \in Workers, evaluate(w)
  PROVE  ApiInv'
<1>1. PICK n, h, stmt : n = job[w].name /\ h = job[w].db /\ stmt = job[w].stmt
  OBVIOUS
<1>2. /\ pc[w] = "running" /\ query(n, h, stmt, FALSE)
      /\ pc' = [pc EXCEPT ![w] = "done"] /\ job' = [job EXCEPT ![w] = NoJob]
      /\ UNCHANGED <<txns, db_txn, disk, state_lock, replaced, own, strayed>>
  BY <1>1 DEF evaluate
<1>3. n \in Names /\ stmt \in Statements
  BY <1>1, <1>2 DEF ApiInv, LockInv
<1>4. /\ TablesInv' /\ PromiseInv' /\ DOMAIN dbs' = DOMAIN dbs
      /\ \A m \in DOMAIN dbs : dbs'[m].db = dbs[m].db /\ dbs'[m].txn = dbs[m].txn
  <2>1. own \subseteq own' /\ own' \subseteq Names \X Items
    BY <1>2 DEF ApiInv, PromiseInv
  <2> QED BY <1>2, <1>3, <2>1, QueryKeeps DEF ApiInv
<1>5. SameShape
  BY <1>2, <1>4 DEF SameShape
<1>6. Moves(w) /\ pc'[w] = "done"
  BY <1>2, SetMoves DEF ApiInv
<1>7. LockInv' /\ (state_lock # None => job'[state_lock] = job[state_lock])
  BY <1>2, <1>6, QuietLock DEF ApiInv, Waits
<1>8. HeldInv' /\ TransactionsAgree'
  BY <1>2, <1>5, <1>7, QuietKeeps DEF ApiInv
<1> QED BY <1>4, <1>7, <1>8 DEF ApiInv

LEMMA UnregisterKeeps ==
  ASSUME ApiInv, NEW w \in Workers, unregister_task(w)
  PROVE  ApiInv'
<1>1. /\ pc[w] = "done" /\ pc' = [pc EXCEPT ![w] = "idle"] /\ job' = job
      /\ UNCHANGED <<state_lock, registries, disk, ghosts>>
  BY DEF unregister_task, locks
<1>2. Moves(w) /\ pc'[w] = "idle"
  BY <1>1 DEF Moves, ApiInv, LockInv
<1> QED BY <1>1, <1>2, MoveKeeps DEF Waits

LEMMA CancelKeeps ==
  ASSUME ApiInv, NEW w \in Workers, NEW u, NEW t, handle_cancel(w, u, t)
  PROVE  ApiInv'
<1>1. pc[w] = "idle" /\ UNCHANGED <<pc, job, state_lock, registries, disk, ghosts>>
  BY DEF handle_cancel, handle, locks
<1>2. Moves(w) /\ pc'[w] = "idle"
  BY <1>1 DEF Moves, ApiInv, LockInv
<1> QED BY <1>1, <1>2, MoveKeeps DEF Waits

LEMMA MonitorKeeps ==
  ASSUME ApiInv, NEW w \in Workers, NEW u, monitor(w, u)
  PROVE  ApiInv'
<1>1. PICK j : j = [db |-> None, rest |-> {dbs[n].db : n \in DOMAIN dbs}]
  OBVIOUS
<1>2. /\ pc[w] = "idle" /\ pc' = [pc EXCEPT ![w] = "reading"] /\ job' = [job EXCEPT ![w] = j]
      /\ UNCHANGED <<state_lock, registries, disk, ghosts>>
  BY <1>1 DEF monitor, handle, locks
<1>3. Moves(w) /\ pc'[w] = "reading"
  BY <1>2, SetMoves DEF ApiInv
<1> QED BY <1>2, <1>3, MoveKeeps DEF Waits

LEMMA ReadStatsKeeps ==
  ASSUME ApiInv, NEW w \in Workers, read_stats(w)
  PROVE  ApiInv'
<1>1. pc[w] = "reading" /\ UNCHANGED <<state_lock, registries, disk, ghosts>>
  BY DEF read_stats, locks
<1>2. Moves(w) /\ pc'[w] \in {"idle", "reading"}
  <2>1. CASE job[w].rest = {}
    BY <1>1, <2>1 DEF read_stats, Moves, ApiInv, LockInv
  <2>2. CASE job[w].rest # {}
    <3>1. PICK h : job' = [job EXCEPT ![w].rest = @ \ {h}]
      BY <2>2 DEF read_stats
    <3>2. pc' = pc
      BY <2>2 DEF read_stats
    <3> QED BY <1>1, <3>1, <3>2 DEF Moves, ApiInv, LockInv
  <2> QED BY <2>1, <2>2
<1> QED BY <1>1, <1>2, MoveKeeps DEF Waits


-----------------------------------------------------------------------------
(* The steps that load, replace and unload databases.                      *)

\* Nobody waits with the state lock held, and nothing that it protects a
\* worker from has happened.
LEMMA NobodyHolds ==
  ASSUME ApiInv, state_lock = None, UNCHANGED <<pc, job, state_lock>>
  PROVE  LockInv' /\ HeldInv' /\ \A n : ~Ending(n) /\ ~Ending(n)'
<1>1. LockInv' /\ HeldInv'
  BY DEF ApiInv, LockInv, HeldInv
<1>2. \A n : ~Ending(n) /\ ~Ending(n)'
  BY <1>1, EndingIsHeld, EndingIsHeldAfter DEF EndingHeld, ApiInv
<1> QED BY <1>1, <1>2

\* Another database, in no transaction, takes the name n: no transaction is
\* registered for n, or the replacement is noted.
LEMMA InstallKeeps ==
  ASSUME ApiInv, NEW n \in Names, NEW d \in SUBSET Items, NEW h,
         dbs' = Inserted(dbs, n, [db |-> h, data |-> d, txn |-> None]), Forget(n),
         IsTable(disk', Names, SUBSET Items),
         state_lock = None, UNCHANGED <<pc, job, state_lock, txns, db_txn, own, strayed>>,
         replaced' = IF n \in DOMAIN db_txn THEN replaced \cup {n} ELSE replaced
  PROVE  ApiInv'
<1>1. LockInv' /\ HeldInv' /\ \A m : ~Ending(m) /\ ~Ending(m)'
  BY NobodyHolds
<1>2. PICK r : r = [db |-> h, data |-> d, txn |-> None]
  OBVIOUS
<1>3. IsDb(r) /\ r.txn = None
  BY <1>2 DEF IsDb
<1>4. /\ DOMAIN dbs' = DOMAIN dbs \cup {n} /\ dbs'[n] = r
      /\ \A m \in DOMAIN dbs : m # n => dbs'[m] = dbs[m]
  BY <1>2 DEF Inserted
<1>5. TablesInv'
  BY <1>3, <1>4 DEF ApiInv, TablesInv, IsTable, IsDb
<1>6. PromiseInv'
  BY <1>4 DEF ApiInv, PromiseInv, Forget
<1>7. TransactionsAgree'
  BY <1>1, <1>3, <1>4 DEF ApiInv, TransactionsAgree
<1> QED BY <1>1, <1>5, <1>6, <1>7 DEF ApiInv

LEMMA BuildKeeps ==
  ASSUME ApiInv, NEW w \in Workers, NEW u, NEW n \in Names,
         handle_build(w, u, n) \/ handle_restore(w, u, n)
  PROVE  ApiInv'
<1>1. PICK d \in SUBSET Items : install(n, d) /\ disk' = Inserted(disk, n, d)
  BY DEF handle_build, handle_restore
<1>2. /\ n \notin DOMAIN db_txn /\ state_lock = None /\ Forget(n)
      /\ UNCHANGED <<pc, job, state_lock, txns, db_txn, own, strayed, replaced>>
  BY DEF handle_build, handle_restore, guarded, handle, locks
<1>3. PICK h : h = FreshHandle
  OBVIOUS
<1>4. dbs' = Inserted(dbs, n, [db |-> h, data |-> d, txn |-> None])
  BY <1>1, <1>3 DEF install
<1>5. IsTable(disk', Names, SUBSET Items)
  BY <1>1, InsertedIsTable DEF ApiInv, TablesInv
<1> QED BY <1>2, <1>4, <1>5, InstallKeeps

LEMMA LoadKeeps ==
  ASSUME ApiInv, NEW w \in Workers, NEW u, NEW n \in Names, handle_load(w, u, n)
  PROVE  ApiInv'
<1>1. PICK h, d : h = FreshHandle /\ d = disk[n]
  OBVIOUS
<1>2. /\ n \in DOMAIN disk /\ state_lock = None /\ Forget(n)
      /\ UNCHANGED <<pc, job, state_lock, txns, db_txn, own, strayed, disk>>
      /\ replaced' = IF n \in DOMAIN db_txn THEN replaced \cup {n} ELSE replaced
      /\ dbs' = Inserted(dbs, n, [db |-> h, data |-> d, txn |-> None])
  BY <1>1 DEF handle_load, install, guarded, handle, locks
<1>3. d \in SUBSET Items /\ IsTable(disk', Names, SUBSET Items)
  BY <1>1, <1>2 DEF ApiInv, TablesInv, IsTable
<1> QED BY <1>2, <1>3, InstallKeeps

LEMMA UnloadKeeps ==
  ASSUME ApiInv, NEW w \in Workers, NEW u, NEW n \in Names,
         handle_unload(w, u, n) \/ handle_drop(w, u, n)
  PROVE  ApiInv'
<1>1. /\ n \notin DOMAIN db_txn /\ state_lock = None /\ Forget(n) /\ dbs' = Removed(dbs, n)
      /\ UNCHANGED <<pc, job, state_lock, txns, db_txn, own, strayed, replaced>>
      /\ disk' = disk \/ disk' = Removed(disk, n)
  BY DEF handle_unload, handle_drop, guarded, handle, locks
<1>2. IsTable(disk', Names, SUBSET Items)
  BY <1>1, RestrictedIsTable DEF ApiInv, TablesInv, Removed
<1>3. LockInv' /\ HeldInv' /\ \A m : ~Ending(m) /\ ~Ending(m)'
  BY <1>1, NobodyHolds
<1>4. /\ DOMAIN dbs' = DOMAIN dbs \ {n} /\ \A m \in DOMAIN dbs' : dbs'[m] = dbs[m]
  BY <1>1, RemovedEntries
<1>5. TablesInv'
  BY <1>1, <1>2, <1>4 DEF ApiInv, TablesInv, IsTable, IsDb
<1>6. PromiseInv'
  BY <1>1, <1>4 DEF ApiInv, PromiseInv, Forget
<1>7. TransactionsAgree'
  BY <1>1, <1>3, <1>4 DEF ApiInv, TransactionsAgree
<1> QED BY <1>3, <1>5, <1>6, <1>7 DEF ApiInv

-----------------------------------------------------------------------------
(* The steps that take the state lock and keep it.                         *)

\* w takes the lock for job j.
LEMMA HoldKeepsLock ==
  ASSUME ApiInv, NEW w \in Workers, NEW j, state_lock = None, hold(w, j)
  PROVE  /\ LockInv' /\ state_lock' = w /\ state_lock' # None /\ job'[state_lock'] = j
         /\ (Held(j)' => HeldInv')
<1>1. Moves(w) /\ pc'[w] = "holding" /\ job'[w] = j
  BY SetMoves DEF ApiInv, hold
<1>2. LockInv' /\ state_lock' = w
  BY <1>1, TakeLock DEF ApiInv, hold
<1>3. state_lock' # None
  BY <1>2, NoneAssumption
<1> QED BY <1>1, <1>2, <1>3 DEF HeldInv

\* Nobody was ending a transaction before; j says who does now.
LEMMA HoldEnding ==
  ASSUME ApiInv, NEW w \in Workers, NEW j, state_lock = None, hold(w, j)
  PROVE  \A n : ~Ending(n) /\ (Ending(n)' <=> j.name = n /\ j.op \in {"commit", "rollback"})
<1>1. LockInv' /\ state_lock' # None /\ job'[state_lock'] = j
  BY HoldKeepsLock
<1>2. EndingHeld /\ EndingHeld'
  BY <1>1, EndingIsHeld, EndingIsHeldAfter DEF ApiInv
<1> QED BY <1>1, <1>2 DEF EndingHeld

\* The registries stay as they are.
LEMMA HoldKeeps ==
  ASSUME ApiInv, NEW w \in Workers, NEW j, state_lock = None, hold(w, j), Held(j),
         j.op \notin {"commit", "rollback"}, UNCHANGED <<registries, disk, ghosts>>
  PROVE  ApiInv'
<1>1. LockInv' /\ HeldInv'
  <2>1. Held(j)'
    BY DEF Held, registries
  <2> QED BY <2>1, HoldKeepsLock
<1>2. \A n : ~Ending(n) /\ ~Ending(n)'
  BY HoldEnding
<1>3. TablesInv' /\ PromiseInv'
  BY DEF ApiInv, TablesInv, PromiseInv, registries, ghosts, IsTable, IsDb
<1>4. TransactionsAgree'
  BY <1>2 DEF ApiInv, TransactionsAgree, registries, ghosts
<1> QED BY <1>1, <1>3, <1>4 DEF ApiInv

LEMMA HoldLoadedKeeps ==
  ASSUME ApiInv, NEW w \in Workers, NEW u, NEW n \in Names, hold_loaded(w, u, n)
  PROVE  ApiInv'
<1>1. PICK op \in DOMAIN Holding :
        /\ guarded(w, u, Holding[op])
        /\ op = "begin" => n \notin DOMAIN db_txn
        /\ \E stmt \in IF op = "batch" THEN Statements \ [kind : {"read"}] ELSE [kind : {"read"}] :
             hold(w, [op |-> op, name |-> n, db |-> dbs[n].db, stmt |-> stmt])
  BY DEF hold_loaded
<1>2. op \in {"begin", "checkpoint", "backup", "export", "batch"}
  BY DEF Holding
<1>3. PICK stmt \in Statements : hold(w, [op |-> op, name |-> n, db |-> dbs[n].db, stmt |-> stmt])
  BY <1>1 DEF Statements
<1>4. n \in DOMAIN dbs /\ state_lock = None /\ UNCHANGED <<registries, disk, ghosts>>
  BY <1>1 DEF hold_loaded, guarded, handle
<1>5. PICK j : j = [op |-> op, name |-> n, db |-> dbs[n].db, stmt |-> stmt]
  OBVIOUS
<1>6. j.op = op /\ j.name = n /\ j.db = dbs[n].db /\ j.stmt = stmt
  BY <1>5
<1>7. Held(j)
  BY <1>1, <1>2, <1>4, <1>6 DEF Held, Works
<1>8. hold(w, j) /\ j.op \notin {"commit", "rollback"}
  BY <1>2, <1>3, <1>5, <1>6
<1> QED BY <1>4, <1>7, <1>8, HoldKeeps

LEMMA TqueryTakesLock ==
  ASSUME ApiInv, NEW w \in Workers, NEW u, NEW t \in Tids, handle_tquery(w, u, t)
  PROVE  ApiInv'
<1>1. PICK stmt \in Statements :
        hold(w, [op |-> "tquery", name |-> txns[t], db |-> dbs[txns[t]].db, stmt |-> stmt, tid |-> t])
  BY DEF handle_tquery
<1>2. /\ t \in DOMAIN txns /\ txns[t] \in DOMAIN dbs /\ state_lock = None
      /\ UNCHANGED <<registries, disk, ghosts>>
  BY DEF handle_tquery, handle
<1>3. PICK j : j = [op |-> "tquery", name |-> txns[t], db |-> dbs[txns[t]].db, stmt |-> stmt, tid |-> t]
  OBVIOUS
<1>4. /\ j.op = "tquery" /\ j.name = txns[t] /\ j.db = dbs[txns[t]].db /\ j.stmt = stmt /\ j.tid = t
  BY <1>3
<1>5. Held(j)
  BY <1>2, <1>4 DEF Held, Works
<1>6. hold(w, j) /\ j.op \notin {"commit", "rollback"}
  BY <1>1, <1>3, <1>4
<1> QED BY <1>2, <1>5, <1>6, HoldKeeps


\* An upload first loads the database if it has to.
LEMMA UploadKeeps ==
  ASSUME ApiInv, NEW w \in Workers, NEW u, NEW n \in Names, handle_upload(w, u, n)
  PROVE  ApiInv'
<1>1. PICK x \in Items :
        hold(w, [op |-> "batch", name |-> n, db |-> dbs'[n].db, stmt |-> [kind |-> "insert", item |-> x]])
  BY DEF handle_upload
<1>2. /\ n \notin DOMAIN db_txn /\ state_lock = None
      /\ UNCHANGED <<txns, db_txn, disk, replaced, own, promised, strayed>>
  BY DEF handle_upload, guarded, handle, ghosts
<1>3. PICK j : j = [op |-> "batch", name |-> n, db |-> dbs'[n].db, stmt |-> [kind |-> "insert", item |-> x]]
  OBVIOUS
<1>4. /\ j.op = "batch" /\ j.name = n /\ j.db = dbs'[n].db /\ j.stmt \in Statements
  BY <1>3 DEF Statements
<1>5. /\ DOMAIN dbs' = DOMAIN dbs \cup {n}
      /\ \A m \in DOMAIN dbs : dbs'[m] = dbs[m]
      /\ n \notin DOMAIN dbs => IsDb(dbs'[n]) /\ dbs'[n].txn = None
  <2>1. CASE n \in DOMAIN dbs
    BY <2>1 DEF handle_upload
  <2>2. CASE n \notin DOMAIN dbs
    <3>1. PICK h, d : h = FreshHandle /\ d = IF n \in DOMAIN disk THEN disk[n] ELSE {}
      OBVIOUS
    <3>2. d \in SUBSET Items
      BY <3>1 DEF ApiInv, TablesInv, IsTable
    <3>3. PICK r : r = [db |-> h, data |-> d, txn |-> None]
      OBVIOUS
    <3>4. IsDb(r) /\ r.txn = None
      BY <3>2, <3>3 DEF IsDb
    <3>5. dbs' = Inserted(dbs, n, r)
      BY <2>2, <3>1, <3>3 DEF handle_upload, install
    <3> QED BY <2>2, <3>4, <3>5 DEF Inserted
  <2> QED BY <2>1, <2>2
<1>6. hold(w, j)
  BY <1>1, <1>3
<1>7. LockInv' /\ HeldInv'
  <2>1. Held(j)'
    BY <1>2, <1>4, <1>5 DEF Held, Works
  <2> QED BY <1>2, <1>6, <2>1, HoldKeepsLock
<1>8. \A m : ~Ending(m) /\ ~Ending(m)'
  BY <1>2, <1>4, <1>6, HoldEnding
<1>9. TablesInv'
  BY <1>2, <1>5 DEF ApiInv, TablesInv, IsTable, IsDb
<1>10. PromiseInv'
  BY <1>2, <1>5 DEF ApiInv, PromiseInv
<1>11. TransactionsAgree'
  BY <1>2, <1>5, <1>8 DEF ApiInv, TransactionsAgree
<1> QED BY <1>7, <1>9, <1>10, <1>11 DEF ApiInv

\* The registries without transaction t of the name n.
LEMMA RegistriesForget ==
  ASSUME TablesInv, TransactionsAgree, NEW t \in DOMAIN txns, NEW n, n = txns[t],
         txns' = Removed(txns, t), db_txn' = Removed(db_txn, n)
  PROVE  /\ IsTable(txns', Tids, Names) /\ IsTable(db_txn', Names, Tids)
         /\ DOMAIN txns' = DOMAIN txns \ {t} /\ DOMAIN db_txn' = DOMAIN db_txn \ {n}
         /\ \A s \in DOMAIN txns' : txns'[s] = txns[s] /\ txns'[s] \in DOMAIN db_txn' /\ db_txn'[txns'[s]] = s
         /\ \A m \in DOMAIN db_txn' : /\ db_txn'[m] = db_txn[m]
                                      /\ db_txn'[m] \in DOMAIN txns' /\ txns'[db_txn'[m]] = m
<1>1. IsTable(txns', Tids, Names) /\ IsTable(db_txn', Names, Tids)
  BY RestrictedIsTable DEF TablesInv, Removed
<1>2. DOMAIN txns' = DOMAIN txns \ {t} /\ \A s \in DOMAIN txns' : txns'[s] = txns[s]
  BY RemovedEntries
<1>3. DOMAIN db_txn' = DOMAIN db_txn \ {n} /\ \A m \in DOMAIN db_txn' : db_txn'[m] = db_txn[m]
  BY RemovedEntries
<1>4. /\ \A s \in DOMAIN txns : txns[s] \in DOMAIN db_txn /\ db_txn[txns[s]] = s
      /\ \A m \in DOMAIN db_txn : db_txn[m] \in DOMAIN txns /\ txns[db_txn[m]] = m
  BY DEF TransactionsAgree
<1>5. ASSUME NEW s \in DOMAIN txns'
      PROVE  txns'[s] \in DOMAIN db_txn' /\ db_txn'[txns'[s]] = s
  BY <1>2, <1>3, <1>4
<1>6. ASSUME NEW m \in DOMAIN db_txn'
      PROVE  db_txn'[m] \in DOMAIN txns' /\ txns'[db_txn'[m]] = m
  BY <1>2, <1>3, <1>4
<1> QED BY <1>1, <1>2, <1>3, <1>5, <1>6

LEMMA TxnEndKeeps ==
  ASSUME ApiInv, NEW w \in Workers, NEW u, NEW t \in Tids, NEW op \in {"commit", "rollback"},
         handle_txn_end(w, u, t, op)
  PROVE  ApiInv'
<1>1. PICK n : n = txns[t]
  OBVIOUS
<1>2. /\ t \in DOMAIN txns /\ state_lock = None
      /\ txns' = Removed(txns, t) /\ db_txn' = Removed(db_txn, n)
      /\ UNCHANGED <<dbs, disk, own, promised, strayed>>
  BY <1>1 DEF handle_txn_end, guarded, handle
<1>3. n \in Names
  BY <1>1, <1>2 DEF ApiInv, TablesInv, IsTable
<1>4. /\ IsTable(txns', Tids, Names) /\ IsTable(db_txn', Names, Tids)
      /\ DOMAIN txns' = DOMAIN txns \ {t} /\ DOMAIN db_txn' = DOMAIN db_txn \ {n}
      /\ \A s \in DOMAIN txns' : txns'[s] = txns[s] /\ txns'[s] \in DOMAIN db_txn' /\ db_txn'[txns'[s]] = s
      /\ \A m \in DOMAIN db_txn' : /\ db_txn'[m] = db_txn[m]
                                   /\ db_txn'[m] \in DOMAIN txns' /\ txns'[db_txn'[m]] = m
  BY <1>1, <1>2, RegistriesForget DEF ApiInv
<1>5. TablesInv' /\ PromiseInv'
  BY <1>2, <1>4 DEF ApiInv, TablesInv, PromiseInv, IsTable, IsDb
<1>6. CASE n \notin DOMAIN dbs
  <2>1. UNCHANGED <<state_lock, pc, job>> /\ replaced' = replaced \ {n}
    BY <1>1, <1>6 DEF handle_txn_end
  <2>2. LockInv' /\ HeldInv' /\ \A m : ~Ending(m) /\ ~Ending(m)'
    BY <1>2, <2>1, NobodyHolds
  <2>3. TransactionsAgree'
    BY <1>2, <1>4, <1>6, <2>1, <2>2 DEF ApiInv, TransactionsAgree
  <2> QED BY <1>5, <2>2, <2>3 DEF ApiInv
<1>7. CASE n \in DOMAIN dbs
  <2>1. hold(w, [op |-> op, name |-> n, db |-> dbs[n].db, tid |-> t]) /\ replaced' = replaced
    BY <1>1, <1>7 DEF handle_txn_end
  <2>2. PICK j : j = [op |-> op, name |-> n, db |-> dbs[n].db, tid |-> t]
    OBVIOUS
  <2>3. j.op = op /\ j.name = n /\ j.db = dbs[n].db
    BY <2>2
  <2>4. hold(w, j)
    BY <2>1, <2>2
  <2>5. LockInv' /\ HeldInv'
    <3>1. Held(j)'
      BY <1>2, <1>4, <1>7, <2>3 DEF Held, Works
    <3> QED BY <1>2, <2>4, <3>1, HoldKeepsLock
  <2>6. \A m : ~Ending(m) /\ (Ending(m)' <=> m = n)
    BY <1>2, <2>3, <2>4, HoldEnding
  <2>7. TransactionsAgree'
    BY <1>2, <1>4, <2>1, <2>6 DEF ApiInv, TransactionsAgree
  <2> QED BY <1>5, <2>5, <2>7 DEF ApiInv
<1> QED BY <1>6, <1>7

-----------------------------------------------------------------------------
(* The work that is done with the state lock held.                         *)

\* What every kind of work starts from: w holds the lock, and with it what it
\* was told; when it is done, nobody does, and nobody is ending a transaction.
LEMMA WorkReleases ==
  ASSUME ApiInv, NEW w \in Workers, work(w), NEW j, j = job[w]
  PROVE  /\ Held(j) /\ LockInv' /\ HeldInv' /\ (\A n : ~Ending(n)')
         /\ \A n : Ending(n) <=> j.name = n /\ j.op \in {"commit", "rollback"}
<1>1. /\ pc[w] = "holding" /\ state_lock' = None
      /\ pc' = [pc EXCEPT ![w] = "idle"] /\ job' = [job EXCEPT ![w] = NoJob]
  BY DEF work
<1>2. Moves(w) /\ pc'[w] = "idle"
  BY <1>1, SetMoves DEF ApiInv
<1>3. LockInv' /\ state_lock = w
  BY <1>1, <1>2, ReleaseLock DEF ApiInv
<1>4. HeldInv' /\ Held(j)
  BY <1>1, <1>3, NoneAssumption DEF HeldInv, ApiInv
<1>5. EndingHeld /\ EndingHeld'
  BY <1>3, EndingIsHeld, EndingIsHeldAfter DEF ApiInv
<1> QED BY <1>1, <1>3, <1>4, <1>5, NoneAssumption DEF EndingHeld


\* /begin: the database takes its contents as what a rollback restores.
LEMMA BeginKeeps ==
  ASSUME ApiInv, NEW w \in Workers, work(w), NEW j, j = job[w], j.op = "begin"
  PROVE  ApiInv'
<1>1. /\ Held(j) /\ LockInv' /\ HeldInv' /\ (\A n : ~Ending(n)')
      /\ \A n : Ending(n) <=> j.name = n /\ j.op \in {"commit", "rollback"}
  BY WorkReleases
<1>2. PICK n : n = j.name
  OBVIOUS
<1>3. n \in DOMAIN dbs /\ n \notin DOMAIN db_txn /\ \A m : ~Ending(m)
  BY <1>1, <1>2 DEF Held
<1>4. begin(n)
  BY <1>2 DEF work
<1>5. PICK t \in Tids \ DOMAIN txns :
        /\ dbs' = [dbs EXCEPT ![n].txn = [tid |-> t, base |-> dbs[n].data]]
        /\ txns' = Inserted(txns, t, n) /\ db_txn' = Inserted(db_txn, n, t)
        /\ UNCHANGED <<disk, ghosts>>
  BY <1>4 DEF begin
<1>6. PICK r : r = [tid |-> t, base |-> dbs[n].data]
  OBVIOUS
<1>7. IsDb(dbs[n]) /\ n \in Names
  BY <1>3 DEF ApiInv, TablesInv
<1>8. r \in Transactions /\ r # None /\ r.tid = t /\ r.base = dbs[n].data
  BY <1>6, <1>7, NoneAssumption DEF Transactions, IsDb
<1>9. /\ DOMAIN dbs' = DOMAIN dbs /\ IsDb(dbs'[n])
      /\ dbs'[n].txn = r /\ dbs'[n].data = dbs[n].data
      /\ \A m \in DOMAIN dbs : m # n => dbs'[m] = dbs[m]
  <2>1. dbs' = [dbs EXCEPT ![n] = [dbs[n] EXCEPT !.txn = r]]
    BY <1>5, <1>6
  <2>2. PICK d : d = [dbs[n] EXCEPT !.txn = r]
    OBVIOUS
  <2>3. d.data = dbs[n].data /\ d.txn = r /\ d = [db |-> d.db, data |-> d.data, txn |-> d.txn]
    BY <1>7, <2>2 DEF IsDb
  <2>4. IsDb(d)
    BY <1>7, <1>8, <2>3 DEF IsDb
  <2>5. dbs' = [dbs EXCEPT ![n] = d]
    BY <2>1, <2>2
  <2> QED BY <1>3, <2>3, <2>4, <2>5
<1>10. /\ DOMAIN txns' = DOMAIN txns \cup {t} /\ txns'[t] = n
       /\ \A s \in DOMAIN txns : txns'[s] = txns[s]
       /\ DOMAIN db_txn' = DOMAIN db_txn \cup {n} /\ db_txn'[n] = t
       /\ \A m \in DOMAIN db_txn : db_txn'[m] = db_txn[m]
  BY <1>3, <1>5 DEF Inserted
<1>11. TablesInv'
  <2>1. IsTable(txns', Tids, Names) /\ IsTable(db_txn', Names, Tids)
    BY <1>5, <1>7, InsertedIsTable DEF ApiInv, TablesInv
  <2>2. \A m \in DOMAIN dbs' : IsDb(dbs'[m])
    BY <1>9 DEF ApiInv, TablesInv
  <2> QED BY <1>5, <1>9, <2>1, <2>2 DEF ApiInv, TablesInv, IsTable, IsDb
<1>12. PromiseInv'
  BY <1>5, <1>8, <1>9 DEF ApiInv, PromiseInv, ghosts
<1>13. TransactionsAgree'
  <2>1. replaced' = replaced /\ ~strayed' /\ \A m \in replaced : m \in DOMAIN db_txn
    BY <1>3, <1>5 DEF ApiInv, TransactionsAgree, ghosts
  <2>2. \A s \in DOMAIN txns' : txns'[s] \in DOMAIN db_txn' /\ db_txn'[txns'[s]] = s
    BY <1>3, <1>10 DEF ApiInv, TransactionsAgree
  <2>3. \A m \in DOMAIN db_txn' : db_txn'[m] \in DOMAIN txns' /\ txns'[db_txn'[m]] = m
    BY <1>3, <1>10 DEF ApiInv, TransactionsAgree
  <2>4. ASSUME NEW m \in DOMAIN dbs' \ replaced'
        PROVE  IF m \in DOMAIN db_txn' THEN dbs'[m].txn # None /\ dbs'[m].txn.tid = db_txn'[m]
               ELSE dbs'[m].txn # None => Ending(m)'
    <3>1. CASE m = n
      BY <1>8, <1>9, <1>10, <3>1
    <3>2. CASE m # n
      BY <1>3, <1>9, <1>10, <2>1, <2>4, <3>2 DEF ApiInv, TransactionsAgree
    <3> QED BY <3>1, <3>2
  <2> QED BY <1>10, <2>1, <2>2, <2>3, <2>4 DEF TransactionsAgree
<1> QED BY <1>1, <1>11, <1>12, <1>13 DEF ApiInv

\* /commit and /rollback: the database of n is in no transaction any more,
\* and what was promised of it is still there.
LEMMA EndKeeps ==
  ASSUME ApiInv, NEW n \in DOMAIN dbs, n \notin DOMAIN db_txn, NEW d, IsDb(d), d.txn = None,
         dbs' = [dbs EXCEPT ![n] = d], LockInv', HeldInv', \A m : ~Ending(m)', \A m : Ending(m) => m = n,
         own' = Rest(n), replaced' = replaced \ {n}, UNCHANGED <<txns, db_txn, disk, strayed>>,
         promised' \subseteq promised, \A x \in promised' : x[1] = n => x[2] \in d.data
  PROVE  ApiInv'
<1>1. /\ DOMAIN dbs' = DOMAIN dbs /\ dbs'[n] = d
      /\ \A m \in DOMAIN dbs : m # n => dbs'[m] = dbs[m]
  OBVIOUS
<1>2. TablesInv'
  BY <1>1 DEF ApiInv, TablesInv, IsTable, IsDb
<1>3. PromiseInv'
  <2>1. promised' \subseteq Names \X Items /\ own' \subseteq Names \X Items
    BY DEF ApiInv, PromiseInv, Rest
  <2>2. ASSUME NEW x \in promised'
        PROVE  /\ x[1] \in DOMAIN dbs' /\ x[2] \in dbs'[x[1]].data
               /\ dbs'[x[1]].txn # None => x \in own' \/ x[2] \in dbs'[x[1]].txn.base
    <3>1. /\ x[1] \in DOMAIN dbs /\ x[2] \in dbs[x[1]].data
          /\ dbs[x[1]].txn # None => x \in own \/ x[2] \in dbs[x[1]].txn.base
      BY <2>2 DEF ApiInv, PromiseInv
    <3>2. CASE x[1] = n
      BY <1>1, <2>2, <3>1, <3>2
    <3>3. CASE x[1] # n
      BY <1>1, <3>1, <3>3 DEF Rest
    <3> QED BY <3>2, <3>3
  <2> QED BY <2>1, <2>2 DEF PromiseInv
<1>4. TransactionsAgree'
  BY <1>1 DEF ApiInv, TransactionsAgree
<1> QED BY <1>2, <1>3, <1>4 DEF ApiInv

LEMMA CommitKeeps ==
  ASSUME ApiInv, NEW w \in Workers, work(w), NEW j, j = job[w], j.op = "commit"
  PROVE  ApiInv'
<1>1. /\ Held(j) /\ LockInv' /\ HeldInv' /\ (\A m : ~Ending(m)')
      /\ \A m : Ending(m) <=> j.name = m /\ j.op \in {"commit", "rollback"}
  BY WorkReleases
<1>2. PICK n : n = j.name
  OBVIOUS
<1>3. n \in DOMAIN dbs /\ n \notin DOMAIN db_txn /\ \A m : Ending(m) => m = n
  BY <1>1, <1>2 DEF Held
<1>4. commit(n)
  BY <1>2 DEF work
<1>5. IsDb(dbs[n])
  BY <1>3 DEF ApiInv, TablesInv
<1>6. PICK d : d = [dbs[n] EXCEPT !.txn = None]
  OBVIOUS
<1>7. d.data = dbs[n].data /\ d.txn = None /\ IsDb(d)
  BY <1>5, <1>6 DEF IsDb
<1>8. /\ dbs' = [dbs EXCEPT ![n] = d] /\ own' = Rest(n) /\ replaced' = replaced \ {n}
      /\ UNCHANGED <<txns, db_txn, disk, promised, strayed>>
  BY <1>4, <1>6 DEF commit
<1>9. \A x \in promised' : x[1] = n => x[2] \in d.data
  BY <1>7, <1>8 DEF ApiInv, PromiseInv
<1> QED BY <1>1, <1>3, <1>7, <1>8, <1>9, EndKeeps

LEMMA RollbackKeeps ==
  ASSUME ApiInv, NEW w \in Workers, work(w), NEW j, j = job[w], j.op = "rollback"
  PROVE  ApiInv'
<1>1. /\ Held(j) /\ LockInv' /\ HeldInv' /\ (\A m : ~Ending(m)')
      /\ \A m : Ending(m) <=> j.name = m /\ j.op \in {"commit", "rollback"}
  BY WorkReleases
<1>2. PICK n : n = j.name
  OBVIOUS
<1>3. n \in DOMAIN dbs /\ n \notin DOMAIN db_txn /\ \A m : Ending(m) => m = n
  BY <1>1, <1>2 DEF Held
<1>4. rollback(n)
  BY <1>2 DEF work
<1>5. IsDb(dbs[n])
  BY <1>3 DEF ApiInv, TablesInv
<1>6. PICK d : d = Undone(dbs[n])
  OBVIOUS
<1>7. /\ IsDb(d) /\ d.txn = None
      /\ d.data = IF dbs[n].txn = None THEN dbs[n].data ELSE dbs[n].txn.base
  <2>1. CASE dbs[n].txn = None
    BY <1>5, <1>6, <2>1 DEF Undone
  <2>2. CASE dbs[n].txn # None
    <3>1. dbs[n].txn.base \subseteq Items
      BY <1>5, <2>2 DEF IsDb, Transactions
    <3> QED BY <1>5, <1>6, <2>2, <3>1 DEF Undone, IsDb
  <2> QED BY <2>1, <2>2
<1>8. /\ dbs' = [dbs EXCEPT ![n] = d] /\ own' = Rest(n) /\ replaced' = replaced \ {n}
      /\ promised' = promised \ (own \ Rest(n)) /\ UNCHANGED <<txns, db_txn, disk, strayed>>
  BY <1>4, <1>6 DEF rollback
<1>9. ASSUME NEW x \in promised', x[1] = n PROVE x[2] \in d.data
  <2>1. x \in promised /\ x \notin own
    BY <1>8, <1>9 DEF Rest
  <2> QED BY <1>7, <1>9, <2>1 DEF ApiInv, PromiseInv
<1> QED BY <1>1, <1>3, <1>7, <1>8, <1>9, EndKeeps

\* A statement with the state lock held, of a transaction or not.
LEMMA StatementKeeps ==
  ASSUME ApiInv, NEW n \in DOMAIN dbs, NEW h, NEW stmt \in Statements, NEW inOwn \in BOOLEAN,
         query(n, h, stmt, inOwn), UNCHANGED <<txns, db_txn, disk, replaced>>, strayed' = FALSE,
         own \subseteq own', own' \subseteq own \cup promised', inOwn => promised' \ promised \subseteq own',
         LockInv', HeldInv', \A m : ~Ending(m) /\ ~Ending(m)'
  PROVE  ApiInv'
<1>1. n \in Names
  BY DEF ApiInv, TablesInv
<1>2. promised' \subseteq Names \X Items
  <2>1. stmt.kind = "insert" => stmt.item \in Items
    BY DEF Statements
  <2>2. promised' = promised \/ promised' = Promise(n, stmt, inOwn)
    BY DEF query
  <2> QED BY <1>1, <2>1, <2>2 DEF Promise, ApiInv, PromiseInv
<1>3. own' \subseteq Names \X Items
  BY <1>2 DEF ApiInv, PromiseInv
<1>4. /\ TablesInv' /\ PromiseInv' /\ DOMAIN dbs' = DOMAIN dbs
      /\ \A m \in DOMAIN dbs : dbs'[m].db = dbs[m].db /\ dbs'[m].txn = dbs[m].txn
  BY <1>1, <1>3, QueryKeeps DEF ApiInv
<1>5. TransactionsAgree'
  BY <1>4 DEF ApiInv, TransactionsAgree
<1> QED BY <1>4, <1>5 DEF ApiInv

\* /tquery: the statement runs in the transaction whose tid it was sent with.
LEMMA TqueryKeeps ==
  ASSUME ApiInv, NEW w \in Workers, work(w), NEW j, j = job[w], j.op = "tquery"
  PROVE  ApiInv'
<1>1. /\ Held(j) /\ LockInv' /\ HeldInv' /\ (\A m : ~Ending(m)')
      /\ \A m : Ending(m) <=> j.name = m /\ j.op \in {"commit", "rollback"}
  BY WorkReleases
<1>2. PICK n, h, stmt, t : n = j.name /\ h = j.db /\ stmt = j.stmt /\ t = j.tid
  OBVIOUS
<1>3. /\ n \in DOMAIN dbs /\ dbs[n].db = h /\ stmt \in Statements
      /\ t \in DOMAIN txns /\ txns[t] = n /\ \A m : ~Ending(m)
  BY <1>1, <1>2 DEF Held
<1>4. tquery(n, h, stmt, t)
  BY <1>2 DEF work
<1>5. PICK inOwn \in BOOLEAN : inOwn = (Loaded(n, h) /\ dbs[n].txn # None /\ dbs[n].txn.tid = t)
  OBVIOUS
<1>6. /\ query(n, h, stmt, inOwn) /\ own' = own \cup (promised' \ promised)
      /\ strayed' = (strayed \/ (~inOwn /\ n \notin replaced))
      /\ UNCHANGED <<txns, db_txn, disk, replaced>>
  BY <1>4, <1>5 DEF tquery
<1>7. n \notin replaced => inOwn
  BY <1>3, <1>5 DEF ApiInv, TransactionsAgree, Loaded
<1>8. strayed' = FALSE
  BY <1>6, <1>7 DEF ApiInv, TransactionsAgree
<1> QED BY <1>1, <1>3, <1>6, <1>8, StatementKeeps

LEMMA BatchKeeps ==
  ASSUME ApiInv, NEW w \in Workers, work(w), NEW j, j = job[w], j.op = "batch"
  PROVE  ApiInv'
<1>1. /\ Held(j) /\ LockInv' /\ HeldInv' /\ (\A m : ~Ending(m)')
      /\ \A m : Ending(m) <=> j.name = m /\ j.op \in {"commit", "rollback"}
  BY WorkReleases
<1>2. PICK n, h, stmt : n = j.name /\ h = j.db /\ stmt = j.stmt
  OBVIOUS
<1>3. n \in DOMAIN dbs /\ stmt \in Statements /\ \A m : ~Ending(m)
  BY <1>1, <1>2 DEF Held
<1>4. batch(n, h, stmt)
  BY <1>2 DEF work
<1>5. query(n, h, stmt, FALSE) /\ UNCHANGED <<txns, db_txn, disk, replaced, own, strayed>>
  BY <1>4 DEF batch
<1>6. strayed' = FALSE
  BY <1>5 DEF ApiInv, TransactionsAgree
<1> QED BY <1>1, <1>3, <1>5, <1>6, StatementKeeps

\* /checkpoint writes the directory; /backup and /export only read.
LEMMA CheckpointKeeps ==
  ASSUME ApiInv, NEW w \in Workers, work(w), NEW j, j = job[w],
         j.op \in {"checkpoint", "backup", "export"}
  PROVE  ApiInv'
<1>1. /\ Held(j) /\ LockInv' /\ HeldInv' /\ (\A m : ~Ending(m)')
      /\ \A m : Ending(m) <=> j.name = m /\ j.op \in {"commit", "rollback"}
  BY WorkReleases
<1>2. \A m : ~Ending(m)
  BY <1>1
<1>3. /\ UNCHANGED <<registries, ghosts>>
      /\ disk' = disk \/ disk' = Inserted(disk, j.name, dbs[j.name].data)
  BY DEF work
<1>4. j.name \in Names /\ dbs[j.name].data \in SUBSET Items
  BY <1>1 DEF Held, ApiInv, TablesInv, IsDb
<1>5. IsTable(disk', Names, SUBSET Items)
  BY <1>3, <1>4, InsertedIsTable DEF ApiInv, TablesInv
<1>6. TablesInv' /\ PromiseInv'
  BY <1>3, <1>5 DEF ApiInv, TablesInv, PromiseInv, registries, ghosts, IsTable, IsDb
<1>7. TransactionsAgree'
  BY <1>1, <1>2, <1>3 DEF ApiInv, TransactionsAgree, registries, ghosts
<1> QED BY <1>1, <1>6, <1>7 DEF ApiInv

LEMMA WorkKeeps ==
  ASSUME ApiInv, NEW w \in Workers, work(w)
  PROVE  ApiInv'
<1>1. PICK j : j = job[w]
  OBVIOUS
<1>2. j.op \in Works
  BY <1>1, WorkReleases DEF Held
<1> QED BY <1>1, <1>2, BeginKeeps, CommitKeeps, RollbackKeeps, TqueryKeeps, BatchKeeps, CheckpointKeeps
        DEF Works


-----------------------------------------------------------------------------
(* The server's transactions.                                              *)

LEMMA RestartKeeps ==
  ASSUME ApiInv, restart
  PROVE  ApiInv'
<1>1. /\ DOMAIN dbs' = {} /\ DOMAIN txns' = {} /\ DOMAIN db_txn' = {}
      /\ promised' = {} /\ own' = {} /\ replaced' = {} /\ state_lock' = None
      /\ UNCHANGED <<disk, strayed>>
  BY EmptyTable DEF restart
<1>2. pc' = [w \in Workers |-> "idle"] /\ job' = [w \in Workers |-> NoJob]
  BY DEF restart
<1>3. LockInv'
  BY <1>1, <1>2, NoneAssumption DEF LockInv
<1>4. TablesInv' /\ HeldInv' /\ PromiseInv'
  BY <1>1 DEF ApiInv, TablesInv, HeldInv, PromiseInv, IsTable
<1>5. TransactionsAgree'
  BY <1>1 DEF ApiInv, TransactionsAgree
<1> QED BY <1>3, <1>4, <1>5 DEF ApiInv

LEMMA InitApi ==
  ASSUME Init
  PROVE  ApiInv
<1>1. /\ DOMAIN dbs = {} /\ DOMAIN txns = {} /\ DOMAIN db_txn = {} /\ DOMAIN disk = {}
      /\ promised = {} /\ own = {} /\ replaced = {} /\ state_lock = None /\ strayed = FALSE
  BY EmptyTable DEF Init
<1>2. pc = [w \in Workers |-> "idle"] /\ job = [w \in Workers |-> NoJob]
  BY DEF Init
<1>3. LockInv
  BY <1>1, <1>2, NoneAssumption DEF LockInv
<1>4. TablesInv /\ HeldInv /\ PromiseInv /\ TransactionsAgree
  BY <1>1 DEF TablesInv, HeldInv, PromiseInv, IsTable, TransactionsAgree
<1> QED BY <1>3, <1>4 DEF ApiInv

LEMMA RouteKeeps ==
  ASSUME ApiInv, NEW w \in Workers, NEW u \in Users, Route(w, u)
  PROVE  ApiInv'
BY RunQueryKeeps, BuildKeeps, LoadKeeps, UnloadKeeps, UploadKeeps, HoldLoadedKeeps, TqueryTakesLock,
   TxnEndKeeps, CancelKeeps, MonitorKeeps DEF Route

LEMMA ProceedKeeps ==
  ASSUME ApiInv, NEW w \in Workers, Proceed(w)
  PROVE  ApiInv'
BY LockDbKeeps, EvaluateKeeps, UnregisterKeeps, WorkKeeps, ReadStatsKeeps DEF Proceed

\* Requests about users, and stuttering.
LEMMA ManageKeeps ==
  ASSUME ApiInv, UNCHANGED apiVars
  PROVE  ApiInv'
<1>1. UNCHANGED <<dbs, txns, db_txn, disk, state_lock, pc, job, replaced, own, promised, strayed>>
  BY DEF apiVars, registries, locks, ghosts
<1>2. LockInv' /\ (state_lock # None => job'[state_lock] = job[state_lock])
  BY <1>1 DEF ApiInv, LockInv
<1>3. TablesInv' /\ PromiseInv'
  BY <1>1 DEF ApiInv, TablesInv, PromiseInv, IsTable, IsDb
<1>4. HeldInv' /\ TransactionsAgree'
  BY <1>1, <1>2, QuietKeeps DEF ApiInv, SameShape
<1> QED BY <1>2, <1>3, <1>4 DEF ApiInv

LEMMA NextKeepsApi ==
  ASSUME ApiInv, [Next]_vars
  PROVE  ApiInv'
<1>1. ASSUME NEW w \in Workers, handle_login(w) \/ handle_logout(w) PROVE ApiInv'
  BY <1>1, ManageKeeps DEF handle_login, handle_logout
<1>2. ASSUME NEW w \in Workers, NEW u \in Users, Manage(w, u) PROVE ApiInv'
  BY <1>2, ManageKeeps
     DEF Manage, handle_user_create, handle_user_drop, handle_user_password, handle_user_grant
<1>3. ASSUME UNCHANGED vars PROVE ApiInv'
  BY <1>3, ManageKeeps DEF vars, apiVars
<1> QED BY <1>1, <1>2, <1>3, RouteKeeps, ProceedKeeps, ManageKeeps, RestartKeeps DEF Next

\* The strengthening is kept by every step of every worker.
LEMMA ApiInvariant == Spec => []ApiInv
<1>1. Init => ApiInv
  BY InitApi
<1>2. ApiInv /\ [Next]_vars => ApiInv'
  BY NextKeepsApi
<1> QED BY <1>1, <1>2, PTL DEF Spec

\* http_api.rs: whatever the requests of any number of workers do, in any
\* order, the transaction registries and the loaded databases agree, a
\* statement sent with a tid runs in the transaction of that tid, and an
\* answered insert stays until it is deleted, rolled back by its own
\* transaction, or its database is replaced.
THEOREM TransactionSafety == Spec => []TransactionsAreKept
<1>1. ApiInv => TransactionsAreKept
  BY DEF ApiInv, PromiseInv, TransactionsAreKept, InsertsAreKept
<1> QED BY <1>1, ApiInvariant, PTL


=============================================================================
