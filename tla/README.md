# gStore-rust: TLA+ models, model checking and proofs

This directory holds a formal model of gStore-rust, an RDF database with in-memory,
RocksDB and paged-file storage, a SPARQL engine, optimistic transactions, backups, an
HTTP API and a Raft-replicated, sharded cluster. Each module is written from the Rust
source; `PROJECT.json` maps every definition to the lines it models, lists the runs,
the faulty variants that show a property can fail, the disagreements found between
code and documentation, the hazards of the code, and the theorems.

File names below are relative to the crate (`src/src` in the map).

## 1. Inventory

### Parts, their state and operations

| Part | Code | State | Operations |
|---|---|---|---|
| Triple store contract | `store/mod.rs` traits `TripleSource`, `MutableStore` | a set of id triples | insert, remove, bulk_load; eight access patterns; statistics |
| In-memory store | `store/mod.rs` `TripleStore` | three adjacency maps, a counter | the same |
| RocksDB store | `backend/rocks.rs` | three key orders, reference counts, cached totals | the same, open, flush |
| Disk store | `kvstore/store.rs`, `disk_dict.rs` | dictionary trees, three trees of triples, statistics, VList index, roots | intern, insert, delete, compact, flush, open with upgrade, load into memory |
| Value files | `kvstore/ivarray.rs`, `isarray.rs`, `overflow.rs`, `vlist.rs`, `string_index.rs` | tables, directories, chains, postings | insert, get, remove, search |
| B+ tree | `kvstore/bptree.rs` | pages, root | insert, delete, get, scan |
| Pager | `kvstore/pager.rs` | file, WAL, page cache, header (page count, free list, roots) | read, write, alloc, free, flush, recovery |
| Dictionary | `dict/mod.rs` | string <-> id, stack of freed ids | intern, get, resolve, remove |
| Database | `db/mod.rs` | dictionary, default and named graphs, entity index, result cache, undo log, redo log, update log, backups | insert, remove, clear, load, rules, begin/commit/rollback, query, reclaim, backup, restore, replay, save, load |
| Concurrent database | `concurrent.rs` | authoritative database, published snapshot, OCC history, live starts, version chains | begin, insert, delete, read, commit, drop, update, version views |
| Raft | `cluster.rs` `RaftState`, `ClusterNode`, `ReplicaGroup` | term, vote, log, commit and apply indices, snapshot, leader's indices | tick, vote, append, snapshot, propose, compact, fail, restore |
| Elastic shards | `cluster.rs` `ClusterConfig`, `ShardCluster` | members, epoch, buckets, triples per server | add_node, remove_node, insert, migrate |
| Sharded reads | `cluster.rs` `ShardedStore`, `NetworkShardedStore`, `RemoteShard` | cached connections | fan-out and merge of reads, routed inserts, retries |
| Wire protocol | `rpc.rs` | none | encoding of requests, responses, log entries; frames |
| Entity signatures | `signature/` | VS-tree of bit signatures, in memory or in a node file | insert, update, remove, candidates |
| Query engine, planner | `query/` | none across calls | evaluation of SPARQL algebra, join orders, typed values |
| Reasoner | `reason/mod.rs` | named rules | RDFS and rule fixpoints |
| Analytics | `analytics/mod.rs` | none across calls | path, component, centrality, community and matching algorithms |
| HTTP API | `http_api.rs`, `http_users.rs` | databases, transactions and tasks by name, users, sessions, user file | request handlers, one thread per connection |
| Parsers | `parser/sparql/`, `ntriples.rs`, `nquads.rs`, `turtle.rs`, `trig.rs` | none across calls | text to syntax trees and terms |
| Other parsers | `parser/rdfxml.rs`, `jsonld.rs`, `rdfa.rs` | none across calls | XML, JSON and HTML to triples |
| SPARQL endpoint, clients | `server.rs`, `sparql_results.rs`, `client` code | one locked database | request parsing, result formats |
| Question answering | `gnlqa/` | answer cache, conversation | a client of the database |

### How they interact

`ConcurrentDb` owns one `Database` behind a mutex and publishes clones of it; the HTTP
API keeps each `Database` behind a mutex of its own and all registries behind another.
A `Database` owns a `Dictionary`, one `TripleStore` or `RocksStore` per graph and an
entity index; it writes redo records that backups read, and its UPDATE statements to a
second log. A request text goes through the lexer and the parser to the engine, which
asks the planner for a join order, the VS-tree for candidates and the store for ids.
`DiskStore` is a set of B+ trees and arrays that share one `Pager`, so a write to any of
them can make the pager evict, that is flush, in the middle of an operation of another.
`ClusterNode` drives a `RaftState` from three kinds of thread and applies committed
entries to a `TripleStore`; `ReplicaGroup` drives several `RaftState`s in one process;
`ShardCluster` and `NetworkShardedStore` call shard servers over TCP in the format of
`rpc.rs`.

### What is hard here

* *Interleaving*: commits, legacy writers and version views around three locks; the
  driver, connection and client threads of a Raft node; sends outside its mutex; two
  levels of locks in the HTTP API and handles that outlive their registration.
* *Failure*: power loss at any write of the pager, inside recovery, inside an
  operation that evicts; interrupted `save`; log writes that fail or are torn; shard
  calls that fail after taking effect or are served twice; late and repeated messages.
* *Long sequences*: B+ tree splits, borrows and merges; overflow chains that grow and
  shrink; redundant indexes and counters; signatures updated in a split tree; reused
  ids; compaction and catch-up by snapshot.
* *Two meanings of one number*: the same term has an id as a node and another as a
  predicate; bindings, templates, caches and inference must not mix them.
* *Boundaries*: byte sizes of pages against counts of keys; 64- and 128-bit arithmetic
  that falls back to doubles; leap years and eras; loop guards; frame limits.
* *Text*: the point where a token, a group, a graph block or a chunk ends.

The list with lines is under `hazards` in `PROJECT.json`.

## 2. Modules

An arrow reads "is compared with".

| Module | Models | Built on |
|---|---|---|
| `SnapshotIsolation` | what transactions promise, with no locks and no collection | |
| `ConcurrentDb` | `concurrent.rs` at lock granularity -> `SnapshotIsolation` | |
| `ConcurrentDbProofs` | proofs about it | `ConcurrentDb` |
| `RaftState` | the pure state machine of one replica, as operators on a record | |
| `ClusterNode` | threads and TCP round trips around it | `RaftState` |
| `RaftLogs` | proofs: what relates logs, votes and acknowledgements, the steps that keep it, and what each handler of `RaftState` does with a sound request or a backed reply | `ClusterNode` |
| `ClusterNodeProofs` | proofs: the actions of `ClusterNode` keep the invariant; its theorems | `RaftLogs` |
| `ReplicaGroup` | the in-process group, compaction, routed writes | `RaftState` |
| `ShardCluster` | membership changes and migration | |
| `ShardClusterProofs` | proofs about it | `ShardCluster` |
| `Scatter` | the answers of a shard, and merged reads -> one set of triples | |
| `RemoteShards` | remote shards, their connections, retries and late requests | `Scatter` |
| `Rpc` | the bytes of every message | |
| `AtomicPages` | a file that changes only by whole commits | |
| `Pager` | `kvstore/pager.rs` -> `AtomicPages` | |
| `PagerProofs` | proofs about it | `Pager` |
| `BPlusTree` | `kvstore/bptree.rs`, page by page, byte sizes exact -> a map | |
| `ValueFiles` | arrays, chains and value lists, page by page -> maps; the n-gram and ordered index of strings -> a scan | |
| `TripleSet` | the contract of a storage backend | |
| `TripleStore` | in-memory backend -> `TripleSet` | |
| `TripleStoreProofs` | proofs about it | `TripleStore` |
| `RocksStore` | RocksDB backend -> `TripleSet` | |
| `RocksStoreProofs` | proofs about it | `RocksStore` |
| `Backend` | the enum a database holds: one of the two, calls dispatched | `TripleStore`, `RocksStore` |
| `DiskStore` | paged backend and its dictionaries -> `TripleSet` | `Dictionary` |
| `Dictionary` | one id space | |
| `Database` | transactions, graphs, caches, index, redo and backups | `Dictionary` |
| `Journal` | redo log, update log and backups, with failing writes and restarts | |
| `SaveLoad` | the files of `save` and `load` | |
| `HttpApi` | users, privileges, sessions and their file; the request handlers and their locks | |
| `HttpApiProofs` | proofs about it | `HttpApi` |
| `Sparql` | what a query means, over terms and multisets | |
| `JoinOrder` | candidates, optimizer, planner | |
| `Query` | the engine, over ids and rows -> `Sparql` | `Sparql`, `JoinOrder` |
| `TypedValues` | numbers, dates and comparisons of `query/value.rs` | |
| `Reason` | RDFS and rule inference -> the closure | |
| `VsTree` | signatures, the tree in memory and on disk, the database around it -> a scan | `Reason` |
| `GraphView` | graph algorithms -> definitions by walks and sets | |
| `SparqlLexer` | the tokenizer -> the longest token | |
| `SparqlParser` | the recursive-descent parser -> the grammar | |
| `RdfText` | terms as text, N-Triples, N-Quads, Turtle, TriG, loader chunks | `SparqlLexer` |
| `MC*` | instances for TLC, and the reference definitions of their runs | the modules named |

Operators whose comment starts with "Faulty" are not part of the model: each is
the variant of the next definition that a plausible slip would have produced, and
`PROJECT.json` pairs it with the property that catches it.

### Correspondence of state and actions

* **ConcurrentDb.** `writer` and `occ` are the owners of the two mutexes; `history`,
  `live_starts`, `last_legacy_version` are the fields of `OccState`; `chains` is
  `VersionedStore`. A triple is its key. A critical section that another thread
  cannot look into is one step; `commit` is split into lock, validate, publish,
  record and finish because readers of `current` and of the chains can run between
  them. `log` is a history variable: what each version published. Of a read, the key it
  tracks and the snapshot it is answered from are state; the answer is not.
* **RaftState.** A record with the fields of the Rust struct; each method is an
  operator from a state to the next one and the messages it emits. Election timers
  are randomized in the code, so an election may start at any tick.
* **ClusterNode.** `queue` is the local queue of `dispatch_outgoing`, `flight` what each
  thread has sent: the clients mutex is held until the reply is there, and free again
  while the thread handles it. `late` are requests whose sender timed out and
  which the peer may still handle. `applying` holds the drained entries while
  `apply_lock` is held. A Raft node keeps nothing on disk, so `kill`/`revive` is the
  switch of the code, not a recovery.
* **ReplicaGroup.** Single-threaded: `phase`, `q` and `guard` are the locals of
  `deliver` and `elect`. Each bucket has its own group, so one is modelled.
* **ShardCluster.** `step`, `todo`, `move` and `batch` are the progress of
  `rebalance` and `migrate`. Every remote call may fail before or after it took effect, or
  be served later (`late`), and the first failure ends the operation as `?` does.
* **RemoteShards.** `conn` is the connection a `RemoteShard` caches, `wires` the queues of
  every connection ever made, `attempt` the loop of `call`. `before` and `added` bound
  what a read may see.
* **Rpc.** A byte is a number below a small base; a reader is a position. One table
  gives each message the tag and the fields it is written with, another those it is read
  with, as the two matches of the source do.
* **Pager.** `file` is what reads see, `disk` what survives; a crash keeps any part of
  the unsynced writes. The log is absent, torn or complete. `call` remembers the write
  that made an eviction run `flush`. `root` are the pages the client uses, `doomed` those it
  has freed and still links: most clients free a page first and overwrite its link
  (`unlink`) afterwards. Both are in the committed header, for a file is used as it was when it
  was committed; `shared` remembers that a file with such a page was recovered.
* **BPlusTree, ValueFiles.** A page is a parsed node, directory or chain page; keys and
  values are numbers or short byte strings with exact lengths. A serialization past the
  page buffer is a panic and is recorded as one.
* **TripleStore, RocksStore, DiskStore.** Sorted vectors without repetitions are sets;
  the reads are operators compared with those of `TripleSet`. In `DiskStore` an
  operation is a sequence of page-writing steps with `evict` and a crash in between, and
  a query resolves terms through the strings a `DiskDict` has kept.
* **Database.** Undo and redo logs are sequences of records; a cached result is the
  answer it stored; the index maps an entity to the edges it was signed from.
* **Journal.** The same logs seen from the files: a write may stop inside a record
  (`Torn`), the process may restart, and replay runs statements and records again.
* **SaveLoad.** Five files written in order, each created and then written.
* **HttpApi.** `state_lock` and the lock of each `Database` object are explicit; a worker is
  routed, waits for a database with or without the state lock as its handler does, holds
  it, and answers. A database is its contents and what a rollback restores. A save of the
  users that stops may leave the file without its last lines, and the last one left cut:
  such a line gives a user a password that nobody chose (`Garbled`) or fewer privileges.
  `/drop` may fail to remove the directory after it has unregistered the database.
* **Query.** A row is a function from columns to ids with `Unbound`; node ids, predicate
  ids and computed values are different ranges, as in the engine. The multiset of rows is
  compared with the multiset of derivations of `Sparql`.
* **TypedValues.** Widths of integers and precision of doubles are constants, so that
  overflow and rounding occur at small numbers; dates are exact.
* **VsTree, Reason.** A signature is its set of bits with the code's bit positions; the tree
  is a tree of nodes; on disk, a sequence of pages. Terms have a node id and possibly a
  predicate id.
* **GraphView.** Edges and dense indices; ratios are pairs of integers and modularity gains
  are multiplied by their denominator.
* **SparqlLexer, SparqlParser, RdfText.** A position in a sequence of characters or tokens,
  and 0 after an error; each parsing function is an operator.

## 3. Runs

Deadlock is checked unless the client of the model may run out of work at a bound, or
the run enumerates inputs of functions (the cfg then says so). A run of several parts
starts in one of them and stays there; the parts share no state, so nothing is lost by
not mixing them.

| Run | Shows | Bounds |
|---|---|---|
| `occ_safety` | no lost update; a pinned view keeps its data; the commit history keeps exactly what open transactions need | 2 transactions, a view, a writer that may fail, 1 key, 4 versions |
| `occ_refines` | `ConcurrentDb` implements `SnapshotIsolation`; serializable reads and readers are current (`CommitsAreCurrent`); the writer lock is released | the same with serializable transactions and no failing update, 3 versions |
| `raft_node` | Raft safety (one leader a term, matching logs, complete leaders); commits are final; stores replay the log | 3 nodes, a contested third term, a death (no request is late then), 1 late message |
| `cluster` | a group serves exactly its log, its second election wins and its delivery guard is not reached; probes are current; migrations are exact and minimal; calls on remote shards, the messages they are made of, and reads of a cluster whose buckets have moved agree with those of one local store | 3 replicas, threshold 1, 2 entries, 3 terms; 3 servers, 2 buckets, 3 triples, 4 epochs, 2 failing calls; 1 local and 1 remote shard, 2 failures; every kind of message |
| `storage` | atomic flush and sound free list; the tree is a map, leaks nothing, fits its pages; arrays, lists and the string index; the disk store across crashes, evictions and upgrades; load after an interrupted or finished save | 2 pages, cache of 1, 1 failing write; 5 keys of 2000 bytes; 5 changes of the value files; 5 strings; 6 triples, 3 operations; 2 saves of 5 databases |
| `backend` | both backends are a set of triples with exact statistics | 8 triples; every subset is bulk loaded in memory, pairs in RocksDB |
| `database` | rollback, cache, index and ids; backups; both logs replay | 3 strings, a named graph, undo and redo logs of 2; 5 statements, 3 records, 1 fault, 1 restart |
| `db_unlogged` | expected to fail: increments miss CLEAR and rules | the same as `database` |
| `http_api` | transactions and answered inserts are kept; sessions and the user file are sound; the state lock is released | 2 workers, 1 name, 3 database objects, 1 transaction id, 2 users, 2 births |
| `query` | answers, forms and updates are those of SPARQL; plans join every pattern once; arithmetic, comparison and dates | every data set over 7 triples and 2 quads under the corpus of `MCQuery`; all pairs of small numbers; years around 0 and 1900 to 2040 |
| `graph` | searches and measures agree with their definitions; signatures never hide a match; inference reaches exactly the closure | every graph over 9 edges; every schema over 8 statements; 3 rules; every history of 6 indexed triples with fan-out 2 |
| `syntax` | longest tokens; requests and documents are read as written, whole or in chunks; references resolve by segments | texts of 4 pieces, groups of 3 elements, documents of 3 lines or 2 statements, references of 6 characters |

Why the bounds are enough: two transactions and a legacy writer give every pair of
conflicting parties, and four versions let a version be collected below, at and
above a pin. Three Raft nodes are the smallest group with a minority; three terms
let a deposed leader return. Threshold 1 compacts after every entry. Two failures let
both attempts of a retried call break. Two long keys fill a page, so five keys give a
tree of three levels with a borrow and a merge at each level; directories and chains of
two or three entries make a value cross a page in each direction. A page cache of one
(the code's minimum is eight) makes an eviction possible inside every operation. Two
ids in each role and two predicates give every sharing of subjects, predicates and
objects between triples. Three database objects let a name be replaced while an old
handle is still held. The query corpus has every construct alone and inside each
construct that treats it specially, on data with a cycle, a loop and a dead end.
Its left-deep search takes at most four variables (64 in the code), so that the other
searches run too. Fan-out two splits the signature tree at every third entity. Widths of three to seven
bits put every overflow and every tie of rounding within the enumerated numbers.
The caps on versions, terms, log lengths and operations are in the guards of the
client's actions, never in those of the system's answers to them. Two runs have a state
constraint: `database` does not continue past a reclaim inside a transaction, a gap in
the backups, or a change that its log does not have, and does not combine backups with the
query cache or the two logs with each other, which share nothing; `storage` not past a crash into a
half-flushed operation of the disk store; their properties exclude what comes after (see
below).

### Fairness and liveness

`FairSpec` of `ConcurrentDb` assumes weak fairness of the steps a thread takes while
it holds a lock: those sections wait for no other thread, so the operating system
scheduling the thread suffices. Nothing is assumed about callers: a transaction may
stay open for ever. Under it `WriterIsReleased` holds.

`MCSpec` and `FairSpec` of `HttpApi` assume weak fairness of a worker that
is past routing: a handler runs to its answer, and a query over a finite database ends.
No fairness of lock acquisition is assumed: `StateLockIsReleased` holds because a worker
that waits for a database with the state lock held keeps every later query from being routed.

Termination of `ensure_leader` and of `deliver` are stated as bounds (`SecondElectionWins`,
`GuardIsNeverReached`, parts of `GroupServesItsLog`) because the code itself counts.

### Where code and documentation disagree

One disagreement has a run of its own, `db_unlogged`: CLEAR, DROP and the rules change
the store without a redo record, and the documentation of `backup_incremental` says that
an increment captures every committed mutation.

The others met while modelling are conditions of properties or inputs left out of a
corpus: the definition states the situation it excludes.

| Property | What it excludes | What the code does there |
|---|---|---|
| `CommitsAreCurrent` | `UpdateMayFail` | a failing multi-operation UPDATE leaves changes in the database that the next commit publishes (`concurrent.rs:476`) |
| `ProbesAreCurrent` | a group without a leader | insert answers from the first replica that is up (`cluster.rs:3245`); remove asks for a leader first |
| `GroupServesItsLog` | a group without a quorum | insert counts an entry no quorum holds (`cluster.rs:3252`) |
| `MigrationsAreExact` | failed calls, a cluster emptied, a late purge, `add_node` of a member with the endpoint of another server | nothing is copied to that server and the old one is no longer read (`cluster.rs:1248`); the new owner is in force before its triples have arrived (`cluster.rs:1246`); removing the old owner then hides them; a purge served late deletes a bucket that came back |
| `RemoteCallsAgree` | an unreachable shard; the flag of a repeated insert | the shard counts as empty; an insert whose first answer was lost reports that nothing was new (`cluster.rs:563`) |
| `FlushIsAtomic`, `FreeListIsSound` | a failed write | the flush after a failed one truncates the log that is still needed (`kvstore/pager.rs:358`) |
| `FreeListIsSound` | a file recovered with a page that is freed and still linked | clients free a page before they overwrite its link (`kvstore/bptree.rs:630`, `:655` before `:528`, `:542`; `:435` before `:436`; `ivarray.rs:174`, `:218`; `store.rs:714`): an eviction in between commits it as used and free, and after a crash it is given out while in use |
| `RestoreIsCommitted` | a full backup in a transaction | the backup contains its uncommitted changes (`db/mod.rs:1295`) |
| `LogsReplay` | unlogged changes, a torn record, a rollback after a failed flush, increments older than a backup made with the log off | CLEAR and rules write no record; pending records of an earlier commit are dropped by the rollback (`db/mod.rs:768`); a backup made with the log off is marked with offset 0 |
| `DerivedStateIsCurrent`, `RollbackRestores` | reclaiming ids in a transaction | ids that the undo log names are freed (`db/mod.rs:1697`) |
| `LoadsAreSnapshots` | an interrupted save over an earlier one | `load` compares counts only and trusts the index file (`db/mod.rs:1228`) |
| `IndexFilesAgree` (`TreeAgrees`), every node fits its page | keys of different lengths | a split by count or a longer separator writes past the page (`kvstore/bptree.rs:244`, `:562`) |
| `IndexFilesAgree` (`TreeAgrees`), no leaf is empty | keys above 2035 bytes | a lone leaf under a single-child parent stays empty (`kvstore/bptree.rs:274`) |
| `DiskStoreAgrees` | a crash into a file flushed inside a mutation | ids are given out twice, the VList is stale, statistics are half rebuilt (`kvstore/store.rs:213`, `:282`, `:144`) |
| `TransactionsAreKept` | `/load` during a transaction; plain updates inside one; handles of replaced databases | `/load` has no busy check; a rollback undoes the updates of others; an update on a replaced handle is acknowledged and lost |
| `UsersAreSound` | a failed or torn save | users that are not in the file are lost, a cut line gives another password, and root is seeded again; a changed password keeps its sessions |
| `AnswersAgree`, `FormsAgree` | a variable both in predicate and in node position; a predicate variable of a sub-SELECT joined outside; GRAPH ?g around a pattern that binds ?g | ids of the two spaces are joined or minted anew (`query/engine.rs:1325`), or the inner binding is overwritten |
| `AnswersAgree` | a negated property set that is walked backwards (its object bound, its subject not) or that has `^` entries; BOUND of an outer variable inside EXISTS; `AVG`, `GROUP_CONCAT` | only entries of the direction of the walk are banned (`query/engine.rs:998`): `?x !:p :b` bans nothing; the variable is substituted and BOUND of a value is an error (`query/engine.rs:1974`, `:2010`) |
| `StructuresAgree`, `SearchesAgree` | rounding; the stability of label propagation | scores are sums of doubles in different orders, so a tie can be cut (`analytics/mod.rs:2615`); propagation stops after 100 rounds, settled or not |
| `ValuesAgree` | decimals whose scales do not fit 128 bits together | compared as doubles; truth of the same value is exact |
| `InferenceIsExact` | a property declared a sub-property of `rdfs:subClassOf` or another word of the vocabulary | the derived statement is not closed under in the same call |
| `FilterIsExact` | literals as subjects | a literal is not signed when a triple is inserted (`db/mod.rs:679`) |
| `RequestsAreRead`, `DocumentsAreRead` | a blank-node label before a dot; `;` before `]`; prefixes that begin with "base" or "prefix"; a prefix redefined in TriG; a TriG block that ends in a comment; `SELECT *` over MINUS; a nested filter of OPTIONAL | the label keeps the dot; the text is refused or read as a directive; the last definition holds for the whole document; the dot added to the block is part of the comment (`parser/trig.rs:410`); MINUS variables are listed; the filter is lifted |
| `RequestsAreRead` | what `USING` selects; several constraints after one HAVING; relative references other than names under a base that ends in a slash | the clause is read and dropped (`parser/sparql/mod.rs:1264`), so an update ranges over the whole store; `HAVING (a) (b)` is refused and `HAVING (a) HAVING (b)`, which SPARQL does not have, is read (`:254`); `<b>` in base `<http://h/a>` is `<http://h/ab>` (`:1452`), what `parser/turtle.rs:675` calls wrong |

Some are outside the models: a purge request to a Raft node changes one replica outside
the log (`cluster.rs:2688`); `DiskStore::num_predicates` counts predicates that have no
triple left (`kvstore/store.rs:959`); the comment that the state lock is "only ever held
briefly", so that `/cancel` can be delivered, does not cover the handlers that wait for a
database with it; a `/drop` whose directory cannot be removed may have removed part of it,
which no model of files sees; `RocksStore::flush` asks for the default column family
only (`backend/rocks.rs:130`), and nothing here counts on it; the dictionary key of an
anonymous blank node of a TriG block cannot be parsed back by `ntriples::parse_term`; RocksDB databases lose their named graphs on open.

## 4. Proofs

`tlapm` proves the theorems below for every value of the constants that satisfies
the assumptions named in the modules (finite or infinite sets of transactions, keys,
ids; any version bound).

**ConcurrentDbProofs.** `TypeCorrect`: types and lock ownership. `FirstCommitterWins`:
no transaction commits over a write it did not see. `NoLostUpdate` alone is not inductive:
a commit is validated against `history`, which is collected. The invariant
`Validation` adds `PinsAreCounted` (`live_starts` counts exactly the registered
handles at each version), `HistoryIsComplete` (for every registered transaction, each
later commit is still in `history`), `ValidationInputs` (what a transaction past
validation has compared is still current while it holds the locks) and
`HistoryIsBounded`, which is also the theorem `HistoryBound`. The step that matters is
collection: the lemma on `retire` shows that a version at or below the floor is
needed by no handle left.

`ViewsAreStable` is the theorem `StableViews`. Its invariant `Versions` has two parts:
`ChainsAreExact` (at the newest version, and from the oldest pin on at every version, the
chains answer what that version published) and `ChainsAreOrdered` (one record a version,
and nobody is pinned at the version being recorded). The steps that matter are recording
and `gc_versions`, whose lemma takes the newest record at or below a version as a greatest
element: that takes the place of induction over versions.
`CommitsAreCurrent` (`CurrentCommits`) rests on the invariant `Freshness`: the database
differs from the published one only by what the lock owner did (`DatabaseIsOwned`), a value
that is no longer that of a snapshot was written after its start (`SnapshotsAge`), no
later version wrote what a validated serializable transaction read (`ReadsAreUnwritten`),
and what validation compares with is real (`ConflictsAreReal`, `UnusedIsClean`).
`SnapshotIsolationRefined` shows `Spec => ImplementsSnapshotIsolation`: one lemma per
action says which step of `SnapshotIsolation` it is, or that it is a stutter under the
mapping (a transaction commits when its version is published; collection and locks are invisible).
The results on commits and the refinement assume `~UpdateMayFail`, as the run
`occ_refines` does: a multi-operation update that fails half way leaves its first operations in the authoritative database
(section 3, `concurrent.rs:476`), and what the next commit publishes is then not a
transaction of the abstract specification. `StableViews` and the earlier theorems do
not assume it.

**RaftLogs, ClusterNodeProofs.** `RaftSafety` is `Spec => []RaftIsSafe`,
`CommitFinality` is `Spec => CommitIsFinal` and `StateMachineSafety` is
`Spec => []ReplicasAreReplays`, for any finite set of nodes, any set of threads, campaigns,
client mutations and time-outs. Assumed are `NodesAssumption`
(the group is finite and not empty, and `Nil` is no node) and `BoundsAssumption` (the
bounds are numbers or sets of the right kind). Nothing in `RaftIsSafe` is
inductive: a vote or an acknowledgement still on its way matters as much as one received.
The invariant `Inv` therefore states that there are

* `V`, who voted for whom in which term,
* `L`, the log the leader of each term had last, and
* `A`, how much of that log each node has acknowledged,

such that the nodes satisfy `Core`, every queued or late request is `Sound` (what it says was
true of some candidate or leader), every reply in flight is `Backed` by `V` or `A`, and
what was committed is chosen (`Settled`). They are bound by quantifiers, so the model has
no variable for them. The parts of `Core` that carry the argument are `Complete` (what may
still be chosen in a term is in the log of every later leader), `Holding` (who acknowledged
an entry keeps it while it may be chosen), `UpToDate` (a candidate's log is beyond what its
voters acknowledged) and `CommitsSafe` (nodes commit only what is chosen).
`RaftLogs` reduces a change of one node to four kinds of step, each with its new ghosts:
`StayStep` (terms, roles and commit indices), `VoteStep`, `LeadStep` (winning, and a leader's own
appends) and `AcceptStep` (a follower takes a leader's entries).
Its last part shows that each operator of `RaftState` is one of the four steps, and that
sound requests and backed replies stay so for ever, which is why late and repeated
messages do no harm. `ClusterNodeProofs` has one lemma per action. The current-term rule of
`advance_commit` is used in `AgreedIsChosen`, the up-to-date check of a vote in
`UpToDateIsBeyond`, the consistency check of an append in `ConsistentShares`.

`StateMachineSafety` adds `Served`: what a thread has drained is the end of the part of the
log up to `last_applied`, the store and the configuration are what the rest of that
part leads to (`Serves`), and `committed` is at least as long as every commit index.
`Replay` is a recursive function: `UnfoldingExists` shows that its defining equation has a
solution (the shortest prefix without a table of states would have one), and `ReplayNext`
that one more entry is one more `act` and `reconfigure`. A node's committed prefix and
`committed` agree because both are prefixes of chosen entries (`SafesAgree`).
`apply_lock` is what makes `ServesDrained` hold: nothing is drained while a batch is being applied.

**TripleStoreProofs.** `Inv` is `TypeOK`, `IndexesAgree`, `NoEmptyLists` and
`CountIsExact`. The count is not inductive alone because insert and remove consult
`s2po` only, and pruning is needed for the statistics, which count keys.
From it follow `ReadsCorrect` (every read and statistic is that of the set) and
`Refinement` (`Spec => Contract!Spec`), with `Held(s2po)`-style mapping of the store to
the set of its triples. Finite-set cardinality comes from `FiniteSetTheorems`.

**RocksStoreProofs.** For any ids and predicates, and batches of triples over them
(`BatchesAssumption`, which `Backend` assumes of its instance), `RocksCorrect` is
`Spec => RocksImplements`. The code never recounts: it steps stored numbers, and decides
from the old value of one counter whether another moves. The invariant `Exact` states what
every counter is, of the database and of the disk: a reference count is the number of triples
that hold its key up (`Occ`), a distinct count the number of live keys of its group, and no
reference count of zero is stored, because `ids_under` scans the keys. `CountAdd`
says which counters one triple moves; `EdgeIsZero` and `BatchIsBumped` that the keys of the
batch, chosen by a 0 before an insertion and a 1 before a removal, are exactly those; a
removal is the insertion read backwards. The reads then compare sizes of sets by
bijections (`SameSize`).

**PagerProofs.** For any number of pages, any cache capacity and any data
(`PagerAssumption`): `FlushAtomicity` is `Spec => FlushIsAtomic`, every step that is not
followed by a failed write is a step of `AtomicPages` (a client's change of one page and
the header, a whole commit, a crash, a recovery) or a stutter; `AtomicRefinement` is the
whole refinement when no write fails; `FreeListSafety` is `Spec => []FreeListIsSound`: the
free pages of any recovered file are distinct and none is in use, except those that the
client had freed and was about to unlink, up to the first recovery of a file with one.
The invariant of the first two (`LogInvariant`) says, as long as no write has failed, that
a complete log has a header (`WalInv`), that a clean page of the cache is that of the file
(`CacheInv`), that the batch of a flush is the header and the dirty pages from its first
step to its last (`FlushInv`), and that what the file has and the disk may not have is in the log
(`SyncInv`), so that a crash inside recovery is recovered again. After a failed
write nothing of this is claimed: the next flush truncates the log that is still needed
(section 3). The free list is in three places at once, the recovered file, the
cache, and a call of `alloc` or `free` that waits for the flush of its own eviction:
`ListInv` says that the recovered file has a list, and that there is a threading of
the pages that reads see (`Threads`) from which the waiting call takes or to which it adds
exactly its page (`Waits`). A list is an existential over the sequence of its pages rather
than a walk, so that no induction is needed; that a free page is left in the range of the
header is the pigeonhole principle on finite sets.

**ShardClusterProofs.** For any servers, buckets, triples and routing, with a hash that ranks
the servers of a bucket without ties (`ShardAssumption`), `MigrationSafety` is
`Spec => MigrationsAreExact`. The invariant has four parts. `Progress` says what the
operation under way has left to do: each bucket of `todo` goes from an endpoint that is
still attached to the owner under the new config. `InTransit` says that a triple of the bucket
that is being moved is in the batch, or at another server already, so that the purge may
come. `NothingLost` is the property itself, under any failed, broken or late call.
`Placed` says, as long as no call has failed, at which servers a triple is at each
step of a migration (`At`): at the old owner while its bucket waits, at one or both while it
moves, at the new one after. The owner is a `CHOOSE` of the highest hash, which exists because
the members are finitely many; induction over finite sets is avoided by an invariant
of its own, `Ranked`: every non-empty group of members has a highest hash, which one node more
or less preserves. That the reads gathered from the servers are then those of one store is
left to the run (`RemoteCallsAgree`): they fold and merge answers.

**HttpApiProofs.** For any sets of workers, users, names, databases, tids and items
(`UsersAssumption`, `NoneAssumption`): `UsersSafety` is `Spec => []UsersAreSound` and
`TransactionSafety` is `Spec => []TransactionsAreKept`. `UsersInv` adds
`SessionsAreOfUsers` (a session is of a user of the table, and of that very record), because a
session is removed with its user and not when it is used. `ApiInv` joins to the agreement
of the three registries (`TransactionsAgree`) who holds which lock at which point of a
handler (`LockInv`), that the database a worker with the state lock waits for is still the
one registered and, where the handler has taken its entry, has no transaction
registered (`HeldInv`), and where a rollback would leave each promised item (`PromiseInv`).
`HeldInv` is where the state lock matters: a handler that kept its `Arc` past the lock
could end a transaction of a database that was replaced meanwhile.

Only model-checked: everything else above; liveness (`WriterIsReleased`,
`StateLockIsReleased`), which tlapm does not reason about; the modules that recurse
over data (`BPlusTree`, `ValueFiles`, `Query`, `GraphView`, `VsTree`, `Reason`, the parsers),
because what a recursive definition computes for every input needs an induction over data
that the installed provers cannot instantiate. Where a proof meets one recursive function
(`Replay` in `StateMachineSafety`) the induction is replaced by an argument about the least
index at which two replays differ.

## 5. Not modelled

* RDF/XML, JSON-LD and RDFa: readers of XML, JSON and HTML trees, without state.
* The function library of the engine (strings, hashes, regular expressions, path and graph
  extension functions), result formats, the SPARQL endpoint and the clients: formatting
  and I/O around modelled parts.
* Floating-point analytics (PageRank, HITS, SimRank, spectral measures) and the text of
  doubles with exponents or infinities: outside TLC's numbers.
* The characters of user rules (their terms are modelled), command-line tools, and the prompts and ranking of `gnlqa`.
* Prefix compression in the dictionary, `Database::build_disk` and `open_rocksdb`: file
  creation around modelled stores. The creation of a new page file, whose header bypasses
  the log, is taken as the initial state.
* A crash inside one operation of the arrays or the B+ tree: `Pager` shows that the flush is
  atomic, `DiskStore` where evictions cut its operations, but neither tears a tree.

## 6. Plan

Done: every part of the inventory that keeps state, the SPARQL and line-oriented parsers,
the engine, the planner, inference, signatures and the discrete analytics.

Proofs to add, in order:

1. The bijection of `Dictionary`.
2. `LoadIsASnapshot` of `SaveLoad`.

Models to add: the tree-to-triples part of RDF/XML and JSON-LD; a B+ tree torn by a crash;
the session and repair loop of `gnlqa`.
