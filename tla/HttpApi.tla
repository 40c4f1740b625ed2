------------------------------ MODULE HttpApi ------------------------------
(***************************************************************************)
(* src/http_users.rs: the users of the HTTP API, their privileges and      *)
(* their login sessions. The table is rewritten to one file after every    *)
(* change; sessions are in memory only. The callers hold the lock of the   *)
(* server's state, so every operation is one step. A user name is its rank *)
(* in the order in which save writes the names. A salted hash is the       *)
(* password it was made from: verify_hash accepts that one and, collisions *)
(* aside, no other.                                                        *)
(*                                                                         *)
(* src/http_api.rs: ApiServer, named databases behind HTTP. Every          *)
(* connection has a worker thread. One lock guards the registries          *)
(* (ApiState), one lock guards each loaded Database. A request is          *)
(* authorized and routed under the state lock; a query then waits for its  *)
(* database with the state lock released, so that /cancel gets through,    *)
(* and most other endpoints wait for it with the state lock held.          *)
(*                                                                         *)
(* A section that runs under the state lock and waits for nothing is one   *)
(* step. A refused request (400, 401, 403, 404, 409) changes nothing. A    *)
(* Database is its contents and, in a transaction, what rollback restores  *)
(* (module Database); a statement reads, or inserts or deletes an item.    *)
(* What becomes of a database that is no longer loaded, but that a job     *)
(* still has a handle of, is not followed.                                 *)
(***************************************************************************)
EXTENDS Naturals, Functions

CONSTANTS
  Users,        \* names, as ranks
  Root,         \* ROOT_USER
  Passwords,    \* passwords in use
  Seed,         \* the password root is seeded with
  Garbled,      \* stands for a hash that no password has
  Privileges,   \* enum Privilege
  Lists,        \* the privilege lists that requests carry
  Tokens,       \* session tokens
  Nobody,       \* no user
  MaxBorn       \* bound: how often users are added

ASSUME UsersAssumption ==
  /\ Root \in Users /\ Users \subseteq Nat /\ Seed \in Passwords /\ Garbled \notin Passwords
  /\ Lists \subseteq SUBSET Privileges /\ "Admin" \in Privileges
  /\ Nobody \notin Users /\ MaxBorn \in Nat

VARIABLES
  users,     \* name -> [password, privileges, born]; born is history: the
             \* number of the addition that made the record
  sessions,  \* token -> [user, expired, born]; born is history: that of the
             \* user who logged in
  file,      \* users.db: what the last save wrote
  unsaved,   \* history variable: a save failed since the last good one
  added      \* history variable: how often a user was added

userVars == <<users, sessions, file, unsaved, added>>

\* HashMap::insert and remove.
Inserted(table, key, value) ==
  [k \in DOMAIN table \cup {key} |-> IF k = key THEN value ELSE table[k]]
Removed(table, key) == Restrict(table, DOMAIN table \ {key})

Rooted(table) ==
  IF Root \in DOMAIN table THEN table
  ELSE Inserted(table, Root, [password |-> Seed, privileges |-> {"Admin"}, born |-> 0])

\* UserStore::open: reads the file and seeds root if it has none.
open(table) ==
  /\ users' = Rooted(table) /\ file' = Rooted(table)
  /\ sessions' = << >> /\ unsaved' = FALSE /\ UNCHANGED added

UsersInit ==
  /\ users = Rooted(<< >>) /\ file = Rooted(<< >>)
  /\ sessions = << >> /\ unsaved = FALSE /\ added = 0

\* save: fs::write truncates the file and writes the whole table. If that fails,
\* or the process ends in it, the file keeps what it was or has the first lines
\* of the table, in the order of the names, and the change stays in memory. Of
\* the line after them read_file may still take the name, with some of the
\* digits of the hash or some of the privileges.
Cut(user) ==
  {[user EXCEPT !.password = Garbled, !.privileges = {}]}
    \cup {[user EXCEPT !.privileges = list] : list \in SUBSET user.privileges}
Before(table, u) == Restrict(table, {v \in DOMAIN table : v < u})
Torn(table) ==
  {Before(table, u) : u \in Users}
    \cup UNION {{Inserted(Before(table, u), u, user) : user \in Cut(table[u])} : u \in DOMAIN table}
save(table) ==
  \/ file' = table /\ unsaved' = FALSE
  \/ file' \in {file} \cup Torn(table) /\ unsaved' = TRUE

has(u, p) == u = Root \/ {"Admin", p} \cap users[u].privileges # {}
has_priv(u, p) == u \in DOMAIN users /\ has(u, p)

verify(u, p) == u \in DOMAIN users /\ users[u].password = p

add(u, p, privs) ==
  /\ u \notin DOMAIN users /\ added < MaxBorn /\ added' = added + 1
  /\ LET table == Inserted(users, u, [password |-> p, privileges |-> privs,
                                      born |-> added + 1])
     IN  users' = table /\ save(table)
  /\ UNCHANGED sessions

Without(u) == Removed(users, u)
SessionsOfOthers(u) ==
  Restrict(sessions, {t \in DOMAIN sessions : sessions[t].user # u})
\* Faulty: the sessions of a dropped user are left to session_user, which
\* only looks for a user of that name.
drop_user_keep_sessions(u) ==
  /\ u # Root /\ u \in DOMAIN users
  /\ users' = Without(u) /\ save(Without(u))
  /\ UNCHANGED <<sessions, added>>
drop_user(u) ==
  /\ u # Root /\ u \in DOMAIN users
  /\ users' = Without(u) /\ save(Without(u))
  /\ sessions' = SessionsOfOthers(u) /\ UNCHANGED added

set_password(u, p) ==
  /\ u \in DOMAIN users
  /\ LET table == [users EXCEPT ![u].password = p]
     IN  users' = table /\ save(table)
  /\ UNCHANGED <<sessions, added>>

modify_privs(u, privs) ==
  /\ u # Root /\ u \in DOMAIN users
  /\ LET table == [users EXCEPT ![u].privileges = privs]
     IN  users' = table /\ save(table)
  /\ UNCHANGED <<sessions, added>>
grant(u, privs) == u \in DOMAIN users /\ modify_privs(u, users[u].privileges \cup privs)
revoke(u, privs) == u \in DOMAIN users /\ modify_privs(u, users[u].privileges \ privs)
clear_privileges(u) == modify_privs(u, {})

\* login: a fresh token.
login(u, p) ==
  /\ verify(u, p)
  /\ \E t \in Tokens \ DOMAIN sessions :
       sessions' = Inserted(sessions, t,
                            [user |-> u, expired |-> FALSE, born |-> users[u].born])
  /\ UNCHANGED <<users, file, unsaved, added>>

logout(t) ==
  /\ sessions' = Removed(sessions, t)
  /\ UNCHANGED <<users, file, unsaved, added>>

\* session_user: who a token stands for. A token that has expired, or whose
\* user is gone, is pruned by the lookup; it is refused before and after.
session_user(t) ==
  IF t \in DOMAIN sessions /\ ~sessions[t].expired /\ sessions[t].user \in DOMAIN users
  THEN sessions[t].user ELSE Nobody
prune(t) ==
  /\ t \in DOMAIN sessions /\ session_user(t) = Nobody
  /\ logout(t)

\* The time to live of a session runs out.
expire(t) ==
  /\ t \in DOMAIN sessions /\ ~sessions[t].expired
  /\ sessions' = [sessions EXCEPT ![t].expired = TRUE]
  /\ UNCHANGED <<users, file, unsaved, added>>

-----------------------------------------------------------------------------
CONSTANTS
  Workers,   \* connection threads
  Names,     \* database names
  Items,     \* what statements insert and delete
  Handles,   \* bound: Database objects (Arc<Mutex<Database>>), as numbers
  Tids,      \* transaction ids
  None       \* absent value: no lock holder, no transaction

ASSUME NoneAssumption ==
  None \notin Workers /\ None \notin [tid : Tids, base : SUBSET Items]

VARIABLES
  dbs,         \* name -> the loaded database [db, data, txn]: its handle, its
               \* contents, and None or [tid, base]: what rollback restores,
               \* and as history the transaction that began
  disk,        \* name -> contents of its directory
  txns,        \* tid -> name
  db_txn,      \* name -> tid
  tasks,       \* task -> [user, db, cancel]; a task is named by its worker
  state_lock,  \* holder of the lock of ApiState
  db_lock,     \* handle -> holder of its lock
  pc, job,     \* worker -> where it is, and the work it does
  replaced,    \* history: names reloaded while in a transaction
  own,         \* history: <<name, item>> inserted by the open transactions
  promised,    \* history: <<name, item>> that an answered insert put there
  strayed      \* history: a transactional statement ran outside of its own

registries == <<dbs, txns, db_txn>>
locks == <<state_lock, db_lock>>
ghosts == <<replaced, own, promised, strayed>>
vars == <<userVars, registries, disk, tasks, locks, pc, job, ghosts>>

NoJob == [db |-> None]

\* ApiServer::bind.
Init ==
  /\ UsersInit /\ disk = << >> 
  /\ dbs = << >> /\ txns = << >> /\ db_txn = << >> /\ tasks = << >>
  /\ state_lock = None /\ db_lock = [h \in Handles |-> None]
  /\ pc = [w \in Workers |-> "idle"] /\ job = [w \in Workers |-> NoJob]
  /\ replaced = {} /\ own = {} /\ promised = {} /\ strayed = FALSE

-----------------------------------------------------------------------------
\* resolve_user: Basic credentials or a session token.
Credentials == (Users \X Passwords) \cup Tokens
resolve_user(c) ==
  IF c \in Tokens THEN session_user(c)
  ELSE IF verify(c[1], c[2]) THEN c[1] ELSE Nobody

\* handle: an idle worker has parsed a request of u and takes the state lock.
handle(w, u) ==
  /\ pc[w] = "idle" /\ state_lock = None
  /\ \E c \in Credentials : resolve_user(c) = u
\* guarded: u holds the privilege of the endpoint.
guarded(w, u, p) == handle(w, u) /\ has_priv(u, p)

apiVars == <<registries, disk, tasks, locks, pc, job, ghosts>>

handle_login(w) ==
  /\ pc[w] = "idle" /\ state_lock = None
  /\ \E u \in Users, p \in Passwords : login(u, p)
  /\ UNCHANGED apiVars

handle_logout(w) ==
  /\ pc[w] = "idle" /\ state_lock = None
  /\ \E t \in DOMAIN sessions : logout(t)
  /\ UNCHANGED apiVars

handle_user_create(w, u) ==
  /\ guarded(w, u, "Admin")
  /\ \E name \in Users, p \in Passwords, l \in Lists : add(name, p, l)
  /\ UNCHANGED apiVars

handle_user_drop(w, u) ==
  /\ guarded(w, u, "Admin")
  /\ \E name \in Users : drop_user(name)
  /\ UNCHANGED apiVars

handle_user_password(w, u) ==
  /\ handle(w, u)
  /\ \E target \in Users, p \in Passwords :
       (target = u \/ has_priv(u, "Admin")) /\ set_password(target, p)
  /\ UNCHANGED apiVars

handle_user_grant(w, u) ==
  /\ guarded(w, u, "Admin")
  /\ \E name \in Users, l \in Lists :
       grant(name, l) \/ revoke(name, l) \/ clear_privileges(name)
  /\ UNCHANGED apiVars

-----------------------------------------------------------------------------
\* Tasks and queries.

register_task(w, u, n) ==
  tasks' = Inserted(tasks, w, [user |-> u, db |-> n, cancel |-> FALSE])

Statements == [kind : {"read"}] \cup [kind : {"insert", "delete"}, item : Items]
is_update_sparql(stmt) == stmt.kind # "read"

\* handle_query, handle_update and run_query: a statement that updates needs
\* Update on either endpoint. The job keeps the handle, not the name.
run_query(w, u, n, stmt) ==
  /\ guarded(w, u, IF is_update_sparql(stmt) THEN "Update" ELSE "Query")
  /\ n \in DOMAIN dbs
  /\ register_task(w, u, n)
  /\ pc' = [pc EXCEPT ![w] = "queued"]
  /\ job' = [job EXCEPT ![w] = [db |-> dbs[n].db, name |-> n, stmt |-> stmt]]
  /\ UNCHANGED <<userVars, registries, disk, locks, ghosts>>

\* The effect of a statement on a database, and what it promises: an insert
\* promises the item to the readers of the name, unless it runs in somebody
\* else's transaction or on a database that is no longer the loaded one.
Applied(d, stmt) ==
  CASE stmt.kind = "insert" -> [d EXCEPT !.data = @ \cup {stmt.item}]
    [] stmt.kind = "delete" -> [d EXCEPT !.data = @ \ {stmt.item}]
    [] OTHER -> d
Loaded(n, h) == n \in DOMAIN dbs /\ dbs[n].db = h
Promise(n, stmt, inOwn) ==
  CASE stmt.kind = "insert" /\ (inOwn \/ dbs[n].txn = None) -> promised \cup {<<n, stmt.item>>}
    [] stmt.kind = "delete" -> promised \ {<<n, stmt.item>>}
    [] OTHER -> promised
query(n, h, stmt, inOwn) ==
  IF Loaded(n, h)
  THEN /\ dbs' = [dbs EXCEPT ![n] = Applied(@, stmt)]
       /\ promised' = Promise(n, stmt, inOwn)
  ELSE UNCHANGED <<dbs, promised>>

\* execute_query_job: takes the lock of the database,
lock_db(w) ==
  /\ pc[w] = "queued" /\ db_lock[job[w].db] = None
  /\ db_lock' = [db_lock EXCEPT ![job[w].db] = w]
  /\ pc' = [pc EXCEPT ![w] = "running"]
  /\ UNCHANGED <<userVars, registries, disk, tasks, state_lock, job, ghosts>>

\* Faulty: the lock of the database is kept until the task is unregistered.
evaluate_keep_lock(w) ==
  /\ pc[w] = "running" /\ state_lock = None
  /\ query(job[w].name, job[w].db, job[w].stmt, FALSE)
  /\ db_lock' = [db_lock EXCEPT ![job[w].db] = None]
  /\ pc' = [pc EXCEPT ![w] = "done"] /\ job' = [job EXCEPT ![w] = NoJob]
  /\ UNCHANGED <<userVars, txns, db_txn, disk, tasks, state_lock, replaced, own, strayed>>

\* evaluates (a cancelled read stops with an error, an update ignores the
\* flag) and releases the lock,
evaluate(w) ==
  /\ pc[w] = "running"
  /\ LET j == job[w]
     IN  /\ query(j.name, j.db, j.stmt, FALSE)
         /\ db_lock' = [db_lock EXCEPT ![j.db] = None]
  /\ pc' = [pc EXCEPT ![w] = "done"] /\ job' = [job EXCEPT ![w] = NoJob]
  /\ UNCHANGED <<userVars, txns, db_txn, disk, tasks, state_lock, replaced, own, strayed>>

\* and unregisters the task under the state lock.
Unregistered(w) == Removed(tasks, w)
unregister_task(w) ==
  /\ pc[w] = "done" /\ state_lock = None
  /\ tasks' = Unregistered(w)
  /\ pc' = [pc EXCEPT ![w] = "idle"]
  /\ UNCHANGED <<userVars, registries, disk, locks, job, ghosts>>

handle_cancel(w, u, t) ==
  /\ handle(w, u) /\ (has_priv(u, "Admin") \/ has_priv(u, "Update"))
  /\ t \in DOMAIN tasks
  /\ has_priv(u, "Admin") \/ tasks[t].user = u
  /\ tasks' = [tasks EXCEPT ![t].cancel = TRUE]
  /\ UNCHANGED <<userVars, registries, disk, locks, pc, job, ghosts>>

-----------------------------------------------------------------------------
\* Databases: built, loaded, unloaded, dropped, restored under the state lock.

InUse == {dbs[n].db : n \in DOMAIN dbs} \cup {job[w].db : w \in Workers}
FreshHandle == CHOOSE h \in Handles \ InUse : \A g \in Handles \ InUse : h <= g

\* A new Database with contents d takes the name; jobs keep the old handle.
install(n, d) ==
  /\ Handles \ InUse # {}
  /\ dbs' = Inserted(dbs, n, [db |-> FreshHandle, data |-> d, txn |-> None])
Forget(n) == promised' = {x \in promised : x[1] # n}

\* Faulty: without the check for an open transaction.
handle_build_busy(w, u, n) ==
  /\ guarded(w, u, "Load")
  /\ \E d \in SUBSET Items : install(n, d) /\ disk' = Inserted(disk, n, d)
  /\ Forget(n)
  /\ UNCHANGED <<userVars, txns, db_txn, tasks, locks, pc, job, replaced, own, strayed>>
handle_build(w, u, n) ==
  /\ guarded(w, u, "Load") /\ n \notin DOMAIN db_txn
  /\ \E d \in SUBSET Items : install(n, d) /\ disk' = Inserted(disk, n, d)
  /\ Forget(n)
  /\ UNCHANGED <<userVars, txns, db_txn, tasks, locks, pc, job, replaced, own, strayed>>

\* No check for an open transaction here: see replaced.
handle_load(w, u, n) ==
  /\ guarded(w, u, "Load") /\ n \in DOMAIN disk
  /\ install(n, disk[n])
  /\ Forget(n)
  /\ replaced' = IF n \in DOMAIN db_txn THEN replaced \cup {n} ELSE replaced
  /\ UNCHANGED <<userVars, txns, db_txn, disk, tasks, locks, pc, job, own, strayed>>

handle_unload(w, u, n) ==
  /\ guarded(w, u, "Unload") /\ n \notin DOMAIN db_txn /\ n \in DOMAIN dbs
  /\ dbs' = Removed(dbs, n)
  /\ Forget(n)
  /\ UNCHANGED <<userVars, txns, db_txn, disk, tasks, locks, pc, job, replaced, own, strayed>>

\* The database is gone from memory also when its directory cannot be removed;
\* then the files are taken to be as they were.
handle_drop(w, u, n) ==
  /\ guarded(w, u, "Unload") /\ n \notin DOMAIN db_txn
  /\ n \in DOMAIN dbs \cup DOMAIN disk
  /\ dbs' = Removed(dbs, n)
  /\ disk' \in {disk, Removed(disk, n)}
  /\ Forget(n)
  /\ UNCHANGED <<userVars, txns, db_txn, tasks, locks, pc, job, replaced, own, strayed>>

\* The archive is one that /backup, /export or somebody else wrote.
handle_restore(w, u, n) ==
  /\ guarded(w, u, "Restore") /\ n \notin DOMAIN db_txn
  /\ \E d \in SUBSET Items : install(n, d) /\ disk' = Inserted(disk, n, d)
  /\ Forget(n)
  /\ UNCHANGED <<userVars, txns, db_txn, tasks, locks, pc, job, replaced, own, strayed>>

-----------------------------------------------------------------------------
\* Requests that wait for the database with the state lock held.

hold(w, work) ==
  /\ state_lock' = w
  /\ pc' = [pc EXCEPT ![w] = "holding"]
  /\ job' = [job EXCEPT ![w] = work]

\* handle_begin, handle_checkpoint, handle_backup, handle_export, handle_batch
\* of a loaded database, each with its privilege.
Holding == [begin |-> "Update", checkpoint |-> "Update", backup |-> "Backup",
            export |-> "Export", batch |-> "Update"]
hold_loaded(w, u, n) ==
  /\ n \in DOMAIN dbs
  /\ \E op \in DOMAIN Holding :
       /\ guarded(w, u, Holding[op])
       /\ op = "begin" => n \notin DOMAIN db_txn
       /\ \E stmt \in IF op = "batch" THEN Statements \ [kind : {"read"}]
                                      ELSE [kind : {"read"}] :
            hold(w, [op |-> op, name |-> n, db |-> dbs[n].db, stmt |-> stmt])
  /\ UNCHANGED <<userVars, registries, disk, tasks, db_lock, ghosts>>

\* handle_upload: a database that is not loaded is opened, or created, first.
handle_upload(w, u, n) ==
  /\ guarded(w, u, "Load") /\ n \notin DOMAIN db_txn
  /\ IF n \in DOMAIN dbs THEN UNCHANGED dbs
     ELSE install(n, IF n \in DOMAIN disk THEN disk[n] ELSE {})
  /\ \E x \in Items :
       hold(w, [op |-> "batch", name |-> n, db |-> dbs'[n].db,
                stmt |-> [kind |-> "insert", item |-> x]])
  /\ UNCHANGED <<userVars, txns, db_txn, disk, tasks, db_lock, ghosts>>

handle_tquery(w, u, t) ==
  /\ handle(w, u) /\ t \in DOMAIN txns /\ txns[t] \in DOMAIN dbs
  /\ \E stmt \in Statements :
       /\ has_priv(u, IF is_update_sparql(stmt) THEN "Update" ELSE "Query")
       /\ hold(w, [op |-> "tquery", name |-> txns[t], db |-> dbs[txns[t]].db,
                   stmt |-> stmt, tid |-> t])
  /\ UNCHANGED <<userVars, registries, disk, tasks, db_lock, ghosts>>

\* handle_txn_end: the registries forget the transaction first.
handle_txn_end(w, u, t, op) ==
  /\ guarded(w, u, "Update") /\ t \in DOMAIN txns
  /\ LET n == txns[t]
     IN  /\ txns' = Removed(txns, t)
         /\ db_txn' = Removed(db_txn, n)
         /\ IF n \in DOMAIN dbs
            THEN hold(w, [op |-> op, name |-> n, db |-> dbs[n].db, tid |-> t]) /\ UNCHANGED replaced
            ELSE UNCHANGED <<state_lock, pc, job>> /\ replaced' = replaced \ {n}
  /\ UNCHANGED <<userVars, dbs, disk, tasks, db_lock, own, promised, strayed>>

Rest(n) == {x \in own : x[1] # n}

\* Database::begin, commit and rollback of the database the worker got; the
\* last two fail if it is in no transaction.
begin(n) ==
  \E t \in Tids \ DOMAIN txns :
    /\ dbs' = [dbs EXCEPT ![n].txn = [tid |-> t, base |-> dbs[n].data]]
    /\ txns' = Inserted(txns, t, n) /\ db_txn' = Inserted(db_txn, n, t)
    /\ UNCHANGED <<disk, ghosts>>
Undone(d) == IF d.txn = None THEN d ELSE [d EXCEPT !.data = d.txn.base, !.txn = None]
commit(n) ==
  /\ dbs' = [dbs EXCEPT ![n].txn = None]
  /\ own' = Rest(n) /\ replaced' = replaced \ {n}
  /\ UNCHANGED <<txns, db_txn, disk, promised, strayed>>
rollback(n) ==
  /\ dbs' = [dbs EXCEPT ![n] = Undone(@)]
  /\ own' = Rest(n) /\ replaced' = replaced \ {n}
  /\ promised' = promised \ (own \ Rest(n))
  /\ UNCHANGED <<txns, db_txn, disk, strayed>>

\* A statement of transaction t.
tquery(n, h, stmt, t) ==
  LET inOwn == Loaded(n, h) /\ dbs[n].txn # None /\ dbs[n].txn.tid = t
  IN  /\ query(n, h, stmt, inOwn)
      /\ own' = own \cup (promised' \ promised)
      /\ strayed' = (strayed \/ (~inOwn /\ n \notin replaced))
      /\ UNCHANGED <<txns, db_txn, disk, replaced>>

\* A batch runs as one INSERT DATA or DELETE DATA.
batch(n, h, stmt) ==
  /\ query(n, h, stmt, FALSE)
  /\ UNCHANGED <<txns, db_txn, disk, replaced, own, strayed>>

\* The worker gets the database's lock, does its work and releases both.
work(w) ==
  LET j == job[w]
  IN  /\ pc[w] = "holding" /\ db_lock[j.db] = None
      /\ CASE j.op = "begin" -> begin(j.name)
           [] j.op = "commit" -> commit(j.name)
           [] j.op = "rollback" -> rollback(j.name)
           [] j.op = "tquery" -> tquery(j.name, j.db, j.stmt, j.tid)
           [] j.op = "batch" -> batch(j.name, j.db, j.stmt)
           [] j.op = "checkpoint" -> /\ disk' = Inserted(disk, j.name, dbs[j.name].data)
                                     /\ UNCHANGED <<registries, ghosts>>
           [] j.op \in {"backup", "export"} -> UNCHANGED <<registries, disk, ghosts>>
      /\ state_lock' = None
      /\ pc' = [pc EXCEPT ![w] = "idle"] /\ job' = [job EXCEPT ![w] = NoJob]
      /\ UNCHANGED <<userVars, tasks, db_lock>>

\* handle_status, handle_monitor, handle_show: the handles are cloned and each
\* database is locked in turn with the state lock released.
monitor(w, u) ==
  /\ handle(w, u)
  /\ pc' = [pc EXCEPT ![w] = "reading"]
  /\ job' = [job EXCEPT ![w] = [db |-> None, rest |-> {dbs[n].db : n \in DOMAIN dbs}]]
  /\ UNCHANGED <<userVars, registries, disk, tasks, locks, ghosts>>
read_stats(w) ==
  /\ pc[w] = "reading"
  /\ IF job[w].rest = {}
     THEN pc' = [pc EXCEPT ![w] = "idle"] /\ job' = [job EXCEPT ![w] = NoJob]
     ELSE /\ \E h \in job[w].rest :
               db_lock[h] = None /\ job' = [job EXCEPT ![w].rest = @ \ {h}]
          /\ UNCHANGED pc
  /\ UNCHANGED <<userVars, registries, disk, tasks, locks, ghosts>>

-----------------------------------------------------------------------------
\* The process ends, whatever its workers are doing, and is started again.
restart ==
  /\ open(file)
  /\ dbs' = << >> /\ txns' = << >> /\ db_txn' = << >> /\ tasks' = << >>
  /\ state_lock' = None /\ db_lock' = [h \in Handles |-> None]
  /\ pc' = [w \in Workers |-> "idle"] /\ job' = [w \in Workers |-> NoJob]
  /\ replaced' = {} /\ own' = {} /\ promised' = {}
  /\ UNCHANGED <<disk, strayed>>

Manage(w, u) ==
  \/ handle_user_create(w, u) \/ handle_user_drop(w, u)
  \/ handle_user_password(w, u) \/ handle_user_grant(w, u)
Route(w, u) ==
  \/ \E n \in Names :
       \/ \E stmt \in Statements : run_query(w, u, n, stmt)
       \/ handle_build(w, u, n) \/ handle_load(w, u, n)
       \/ handle_unload(w, u, n) \/ handle_drop(w, u, n)
       \/ handle_restore(w, u, n) \/ handle_upload(w, u, n)
       \/ hold_loaded(w, u, n)
  \/ \E t \in Tids :
       \/ handle_tquery(w, u, t)
       \/ \E op \in {"commit", "rollback"} : handle_txn_end(w, u, t, op)
  \/ \E t \in Workers : handle_cancel(w, u, t)
  \/ monitor(w, u)
Proceed(w) ==
  lock_db(w) \/ evaluate(w) \/ unregister_task(w) \/ work(w) \/ read_stats(w)

Next ==
  \/ \E w \in Workers :
       \/ handle_login(w) \/ handle_logout(w) \/ Proceed(w)
       \/ \E u \in Users : Manage(w, u) \/ Route(w, u)
  \/ \E t \in Tokens : (expire(t) \/ prune(t)) /\ UNCHANGED apiVars
  \/ restart

Spec == Init /\ [][Next]_vars
FairSpec == Spec /\ \A w \in Workers : WF_vars(Proceed(w))

-----------------------------------------------------------------------------
(* Properties.                                                             *)

\* The transaction of n is being ended: it is no longer registered.
Ending(n) ==
  \E w \in Workers : /\ pc[w] = "holding" /\ job[w].name = n
                     /\ job[w].op \in {"commit", "rollback"}

\* The registries and the databases agree about transactions: tid and name
\* point at each other, a loaded database is in a transaction exactly while
\* one is registered for its name, and a statement sent with a tid runs in
\* the transaction of that tid (the comment in handle_tquery), whatever
\* /commit, /rollback, /build, /unload, /drop and /restore do meanwhile. Only
\* /load, which does not look at db_txn, can take the database away, and
\* only from the transaction that is open then.
TransactionsAgree ==
  /\ \A t \in DOMAIN txns : txns[t] \in DOMAIN db_txn /\ db_txn[txns[t]] = t
  /\ \A n \in DOMAIN db_txn : db_txn[n] \in DOMAIN txns /\ txns[db_txn[n]] = n
  /\ \A n \in DOMAIN dbs \ replaced :
       IF n \in DOMAIN db_txn THEN dbs[n].txn # None /\ dbs[n].txn.tid = db_txn[n]
       ELSE dbs[n].txn # None => Ending(n)
  /\ \A n \in replaced : n \in DOMAIN db_txn \/ Ending(n)
  /\ ~strayed

\* An item whose insert was answered is in the database loaded under the name
\* until it is deleted, rolled back by its own transaction, or the database is
\* replaced, unloaded or dropped, however queries, batches, uploads and
\* transactions of several workers interleave.
InsertsAreKept ==
  \A x \in promised : x[1] \in DOMAIN dbs /\ x[2] \in dbs[x[1]].data

\* What /begin, /tquery, /commit, /rollback, /query and /batch were answered
\* holds of the databases, for all the requests of all the workers.
TransactionsAreKept == TransactionsAgree /\ InsertsAreKept

\* A session stands for the user who logged in and for no later user of the
\* same name, root is always there with every privilege, and the file is what
\* the users are unless a save has failed.
UsersAreSound ==
  /\ \A t \in Tokens : session_user(t) # Nobody =>
       sessions[t].born = users[session_user(t)].born
  /\ \A p \in Privileges : has_priv(Root, p)
  /\ ~unsaved => file = users

\* Whoever holds the state lock lets it go: it waits for one database, whose
\* running query needs no lock to finish, and no new query can get in between.
StateLockIsReleased == (state_lock # None) ~> (state_lock = None)


-----------------------------------------------------------------------------
(* The instance. Requests about users and sessions, and requests about     *)
(* databases, touch disjoint state; a request is authorized once, when it  *)
(* is routed. One part of the instance manages users, with no database     *)
(* loaded, the other serves databases to root.                             *)
VARIABLE part

MCInit == Init /\ part \in {"users", "databases"}

Managing ==
  /\ \/ \E w \in Workers :
          \/ handle_login(w) \/ handle_logout(w)
          \/ \E u \in Users : Manage(w, u)
     \/ \E t \in Tokens : (expire(t) \/ prune(t)) /\ UNCHANGED apiVars
     \/ restart

Serving ==
  \/ \E w \in Workers : Proceed(w) \/ Route(w, Root)
  \/ restart

MCNext ==
  /\ IF part = "users" THEN Managing ELSE Serving
  /\ UNCHANGED part

MCSpec ==
  /\ MCInit /\ [][MCNext]_<<vars, part>>
  /\ \A w \in Workers : WF_<<vars, part>>(Proceed(w) /\ UNCHANGED part)
=============================================================================
