-------------------------------- MODULE Pager --------------------------------
(***************************************************************************)
(* src/kvstore/pager.rs: a paged file with a write-back cache, a free list *)
(* and a write-ahead log, under crashes and I/O errors.                    *)
(*                                                                         *)
(* A file is what reads see (file) and what has reached the disk (disk): a *)
(* crash keeps any part of the writes that were not synced. The log is     *)
(* absent, torn or complete; its checksum and commit marker are what tells *)
(* the last two apart. The layer above is a client that keeps the pages it *)
(* uses in a header root: it links a page after alloc, and unlinks it      *)
(* before free or, as most of the code does, after it (BPlusTree's merges, *)
(* IvArray, DiskStore::compact). Page contents are a few data values, or a *)
(* link.                                                                   *)
(***************************************************************************)
EXTENDS Integers, FiniteSets, Functions

CONSTANTS
  MaxPage,    \* bound: the last page the client may make the file grow to
  Data,       \* contents the client writes
  Zero,       \* the content of a page just allocated
  Nil,
  capacity,   \* pages the cache holds before it evicts (8 or more in the code)
  MaxErrors   \* bound: I/O errors that flush returns

ASSUME PagerAssumption ==
  /\ MaxPage \in Nat \ {0} /\ capacity \in Nat \ {0} /\ MaxErrors \in Nat
  /\ Nil \notin Data \cup {Zero}

Pages == 1 .. MaxPage
link(p) == [next |-> p]
Absent == [wal |-> "absent"]
Torn == [wal |-> "torn"]
Complete(b) == [wal |-> "complete", batch |-> b]

VARIABLES
  file, disk,   \* page id -> content; page 0 is the header; Nil is past the end
  wal,          \* the log
  running,      \* FALSE from a crash until open() has recovered
  page_count, free_head, root,   \* the header fields in memory
  doomed,       \* linked pages that the operation under way has freed
  cache,        \* page id -> [data, dirty], for the cached pages
  pc,           \* where flush() is: "idle", "wal", "apply", "drop"
  batch,        \* the pages flush() commits
  applied,      \* those it has written to the main file
  call,         \* the write_page that made flush() run to evict, or Nil
  errors,       \* I/O errors so far
  shared        \* history: recovered a file that links a page being freed

header == <<page_count, free_head, root, doomed>>
store == <<file, disk, wal>>
commit == <<pc, batch, applied, call>>
vars == <<store, running, header, cache, commit, errors, shared>>

header_bytes == [page_count |-> page_count, free_head |-> free_head, root |-> root, doomed |-> doomed]
Empty == [page_count |-> 1, free_head |-> 0, root |-> {}, doomed |-> {}]

\* open() of a fresh file, after its first flush.
Init ==
  /\ file = [p \in 0 .. MaxPage |-> IF p = 0 THEN Empty ELSE Nil]
  /\ disk = file /\ wal = Absent /\ running = TRUE
  /\ page_count = 1 /\ free_head = 0 /\ root = {} /\ doomed = {}
  /\ cache = << >>
  /\ pc = "idle" /\ batch = << >> /\ applied = {} /\ call = Nil
  /\ errors = 0 /\ shared = FALSE

Overlay(f, b) == [p \in DOMAIN f |-> IF p \in DOMAIN b THEN b[p] ELSE f[p]]
content(p) == IF p \in DOMAIN cache THEN cache[p].data ELSE file[p]
dirty == {p \in DOMAIN cache : cache[p].dirty}
put(c, p, data, d) == [q \in DOMAIN c \cup {p} |-> IF q = p THEN [data |-> data, dirty |-> d] ELSE c[q]]
\* The cache without one clean page (the least recently used; which one that
\* is is left open), if it is full and has one.
evicted(c) ==
  LET clean == {p \in DOMAIN c : ~c[p].dirty}
  IN  IF Cardinality(DOMAIN c) < capacity \/ clean = {} THEN {c}
      ELSE {Restrict(c, DOMAIN c \ {p}) : p \in clean}

-----------------------------------------------------------------------------
(* The operations. Each needs the pager to itself (&mut self).             *)
idle == running /\ pc = "idle"

\* flush(): the header h and every dirty page are the batch.
begin_flush(h) ==
  /\ batch' = [p \in dirty \cup {0} |-> IF p = 0 THEN h ELSE cache[p].data]
  /\ pc' = "wal" /\ applied' = {}
flush ==
  /\ idle
  /\ begin_flush(header_bytes)
  /\ UNCHANGED <<store, running, header, cache, call, errors, shared>>

\* write_page(): into the cache. A full cache with no clean page is flushed
\* first (its header is h), and the write then waits in call, done holding what
\* follows it.
\* Faulty: free() makes the page the head of the list before it writes it.
write_page_head_first(p, data, done, h) ==
  LET head == IF done = "free" THEN p ELSE free_head
  IN  /\ IF p \in DOMAIN cache \/ Cardinality(DOMAIN cache) < capacity \/ DOMAIN cache # dirty
         THEN /\ \E c \in IF p \in DOMAIN cache THEN {cache} ELSE evicted(cache) :
                   cache' = put(c, p, data, TRUE)
              /\ UNCHANGED commit
         ELSE /\ call' = [page |-> p, data |-> data, done |-> done]
              /\ begin_flush([h EXCEPT !.free_head = head])
              /\ UNCHANGED cache
      /\ free_head' = head /\ UNCHANGED page_count
write_page(p, data, done, h) ==
  IF p \in DOMAIN cache \/ Cardinality(DOMAIN cache) < capacity \/ DOMAIN cache # dirty
  THEN /\ \E c \in IF p \in DOMAIN cache THEN {cache} ELSE evicted(cache) :
            cache' = put(c, p, data, TRUE)
       /\ free_head' = IF done = "free" THEN p ELSE free_head
       /\ UNCHANGED <<commit, page_count>>
  ELSE /\ call' = [page |-> p, data |-> data, done |-> done]
       /\ begin_flush(h)
       /\ UNCHANGED <<cache, free_head, page_count>>

\* The pages the client reaches. An operation that has freed a page does not use
\* it again, but once one was cut by an error or a crash its pages are in use.
used == IF shared \/ errors > 0 THEN root \cup doomed ELSE root

\* The client overwrites a page it uses.
write(p, d) ==
  /\ idle /\ p \in used /\ content(p) # d
  /\ write_page(p, d, "write", header_bytes)
  /\ UNCHANGED <<store, running, root, doomed, errors, shared>>

\* The page ids that the first bytes of a page can be read as.
next_free(data) ==
  IF data \in {link(q) : q \in 0 .. MaxPage} THEN {data.next} ELSE IF data = Zero THEN {0} ELSE Pages

\* alloc(), with a free page: reading its link puts it in the cache (which may
\* outgrow its capacity), so zeroing it does not evict.
alloc_free ==
  /\ idle /\ free_head # 0 /\ content(free_head) # Nil
  /\ \E c \in IF free_head \in DOMAIN cache THEN {cache} ELSE evicted(cache) :
       cache' = put(c, free_head, Zero, TRUE)
  /\ free_head' \in next_free(content(free_head))
  /\ root' = root \cup {free_head} /\ doomed' = doomed \ {free_head}
  /\ UNCHANGED <<store, running, page_count, commit, errors, shared>>
\* alloc(), at the end of the file: the page is counted before it is written.
alloc_new ==
  /\ idle /\ free_head = 0 /\ page_count \in Pages
  /\ page_count' = page_count + 1
  /\ IF Cardinality(DOMAIN cache) < capacity \/ DOMAIN cache # dirty
     THEN /\ \E c \in evicted(cache) : cache' = put(c, page_count, Zero, TRUE)
          /\ root' = root \cup {page_count}
          /\ UNCHANGED commit
     ELSE /\ call' = [page |-> page_count, data |-> Zero, done |-> "alloc"]
          /\ begin_flush([header_bytes EXCEPT !.page_count = page_count + 1])
          /\ UNCHANGED <<cache, root>>
  /\ UNCHANGED <<store, running, free_head, doomed, errors, shared>>

\* free(): the page is written as a free page and then becomes the head of the
\* list. The client has unlinked it, or still links it and will unlink it.
free(p, linked) ==
  /\ idle /\ p \in used
  /\ root' = root \ {p} /\ doomed' = IF linked THEN doomed \cup {p} ELSE doomed \ {p}
  /\ write_page(p, link(free_head), "free", [header_bytes EXCEPT !.root = root', !.doomed = doomed'])
  /\ UNCHANGED <<store, running, errors, shared>>
\* The client overwrites its link to a page it has freed. If that write evicts,
\* a flush comes first: it commits the page as free and as linked.
unlink(p) ==
  /\ idle /\ p \in doomed
  /\ doomed' = doomed \ {p}
  /\ UNCHANGED <<store, running, page_count, free_head, root, cache, commit, errors, shared>>

\* read_page(): a miss caches the page, evicting a clean one if the cache is
\* full and has one. Past the end of the file it is an error.
read_page(p) ==
  /\ idle /\ p \in used \ DOMAIN cache /\ file[p] # Nil
  /\ \E c \in evicted(cache) : cache' = put(c, p, file[p], FALSE)
  /\ UNCHANGED <<store, running, header, commit, errors, shared>>

-----------------------------------------------------------------------------
(* flush(), step by step.                                                  *)

\* write_wal(): the previous log is truncated, ...
wal_open ==
  /\ running /\ pc = "wal" /\ wal # Torn
  /\ wal' = Torn
  /\ UNCHANGED <<file, disk, running, header, cache, commit, errors, shared>>
\* ... the batch is written and synced.
\* Faulty: the log is not synced before the main file is written.
wal_write_unsynced ==
  /\ running /\ pc = "wal" /\ wal = Torn
  /\ pc' = "apply"
  /\ UNCHANGED <<store, running, header, cache, batch, applied, call, errors, shared>>
wal_write ==
  /\ running /\ pc = "wal" /\ wal = Torn
  /\ wal' = Complete(batch) /\ pc' = "apply"
  /\ UNCHANGED <<file, disk, running, header, cache, batch, applied, call, errors, shared>>
\* The batch is written to the main file, page by page, and synced; ...
apply(p) ==
  /\ running /\ pc = "apply" /\ p \in DOMAIN batch \ applied
  /\ file' = [file EXCEPT ![p] = batch[p]]
  /\ applied' = applied \cup {p}
  /\ UNCHANGED <<disk, wal, running, header, cache, pc, batch, call, errors, shared>>
sync ==
  /\ running /\ pc = "apply" /\ applied = DOMAIN batch
  /\ disk' = file /\ pc' = "drop"
  /\ UNCHANGED <<file, wal, running, header, cache, batch, applied, call, errors, shared>>
\* ... the log is removed (an error is ignored) and the pages are clean. A
\* write_page that was waiting evicts a page now and goes on.
drop(removed) ==
  /\ running /\ pc = "drop"
  /\ wal' = IF removed THEN Absent ELSE wal
  /\ LET clean == [p \in DOMAIN cache |-> [cache[p] EXCEPT !.dirty = FALSE]]
     IN  IF call = Nil THEN cache' = clean /\ UNCHANGED <<free_head, root>>
         ELSE /\ \E c \in evicted(clean) : cache' = put(c, call.page, call.data, TRUE)
              /\ free_head' = IF call.done = "free" THEN call.page ELSE free_head
              /\ root' = IF call.done = "alloc" THEN root \cup {call.page} ELSE root
  /\ pc' = "idle" /\ batch' = << >> /\ applied' = {} /\ call' = Nil
  /\ UNCHANGED <<file, disk, running, page_count, doomed, errors, shared>>

\* An I/O error makes flush(), and the operation that called it, return: the
\* log and the main file stay as they are, and so do the dirty flags.
io_error ==
  /\ running /\ pc \in {"wal", "apply"} /\ errors < MaxErrors
  /\ errors' = errors + 1
  /\ pc' = "idle" /\ batch' = << >> /\ applied' = {} /\ call' = Nil
  /\ UNCHANGED <<store, running, header, cache, shared>>

-----------------------------------------------------------------------------
(* Crashes and recovery.                                                   *)

\* A crash, of a running pager or in the middle of recovery, keeps any part of
\* what was not synced, a log being written included.
crash ==
  /\ running' = FALSE
  /\ \E kept \in SUBSET {p \in DOMAIN file : file[p] # disk[p]} :
       disk' = [p \in DOMAIN disk |-> IF p \in kept THEN file[p] ELSE disk[p]]
  /\ file' = disk'
  /\ IF pc = "wal" /\ wal = Torn THEN wal' \in {Torn, Complete(batch)} ELSE UNCHANGED wal
  /\ cache' = << >> /\ page_count' = 1 /\ free_head' = 0 /\ root' = {} /\ doomed' = {}
  /\ pc' = "idle" /\ batch' = << >> /\ applied' = {} /\ call' = Nil
  /\ UNCHANGED <<errors, shared>>

\* recover_wal(), in open(), replays a complete log, page by page (a crash may
\* come in between), syncs, and removes it; a torn one is only removed.
replay(p) ==
  /\ ~running /\ wal.wal = "complete" /\ p \in DOMAIN wal.batch /\ file[p] # wal.batch[p]
  /\ file' = [file EXCEPT ![p] = wal.batch[p]]
  /\ UNCHANGED <<disk, wal, running, header, cache, commit, errors, shared>>
open ==
  /\ ~running
  /\ wal.wal = "complete" => \A p \in DOMAIN wal.batch : file[p] = wal.batch[p]
  /\ disk' = file /\ wal' = Absent /\ running' = TRUE
  /\ page_count' = file[0].page_count /\ free_head' = file[0].free_head /\ root' = file[0].root
  /\ doomed' = file[0].doomed /\ shared' = (shared \/ file[0].doomed # {})
  /\ UNCHANGED <<file, cache, commit, errors>>

Next ==
  \/ flush \/ alloc_free \/ alloc_new
  \/ \E p \in Pages : unlink(p) \/ read_page(p) \/ (\E linked \in BOOLEAN : free(p, linked)) \/ \E d \in Data : write(p, d)
  \/ wal_open \/ wal_write \/ sync \/ io_error \/ crash \/ open
  \/ \E p \in 0 .. MaxPage : apply(p) \/ replay(p)
  \/ \E removed \in BOOLEAN : drop(removed)

Spec == Init /\ [][Next]_vars

-----------------------------------------------------------------------------
(* Properties.                                                             *)

\* What the file holds once the log has been recovered.
Recovered == IF wal.wal = "complete" THEN Overlay(disk, wal.batch) ELSE disk
\* What the running pager reads: its header, its cache, the file under it.
Image ==
  IF ~running THEN Recovered
  ELSE [p \in DOMAIN file |-> IF p = 0 THEN header_bytes ELSE content(p)]

\* Types.
TypeOK ==
  LET Contents == Data \cup {Zero, Nil} \cup {link(p) : p \in 0 .. MaxPage}
  IN  /\ \A p \in Pages : file[p] \in Contents /\ disk[p] \in Contents
      /\ page_count \in 1 .. MaxPage + 1 /\ free_head \in 0 .. MaxPage /\ root \subseteq Pages /\ doomed \subseteq Pages
      /\ DOMAIN cache \subseteq Pages /\ \A p \in DOMAIN cache : cache[p].data \in Contents
      /\ pc \in {"idle", "wal", "apply", "drop"} /\ applied \subseteq DOMAIN batch
      /\ running \in BOOLEAN /\ errors \in Nat /\ shared \in BOOLEAN

\* flush ("either the old state or the new state, never a partial mix"): the
\* pager implements an atomically committed file, until flush returns an error.
\* (After one a batch may be half applied, and the next flush truncates the log
\* that could repair it before it has written its own.)
Atomic == INSTANCE AtomicPages WITH Header <- 0, image <- Image, durable <- Recovered, up <- running
FlushIsAtomic == [][errors' = 0 => Atomic!Next]_<<Image, Recovered, running>>

\* l threads the n free pages of image f: each links to the next, the file
\* covers them and the client uses none.
FreeList(f, n, l) ==
  /\ f[0].free_head = l[1] /\ l[n + 1] = 0
  /\ \A i \in 1 .. n :
       /\ l[i] \in Pages /\ f[l[i]] = link(l[i + 1])
       /\ l[i] < f[0].page_count /\ l[i] \notin f[0].root
       /\ \A j \in 1 .. n : l[i] = l[j] => i = j
  /\ \A p \in f[0].root : p < f[0].page_count

\* alloc, free, and the flush an eviction may run in the middle of them or
\* between them and the write that unlinks a page: in any file a crash can
\* leave, the free list ends, holds only free pages the file covers, and no page
\* the client uses but for those that the operation cut by the crash had freed
\* and not yet unlinked. Nothing is said after flush has returned an error, nor
\* after the recovery of a file with such a page, which is in use and is handed
\* out again.
FreeListIsSound ==
  /\ TypeOK
  /\ errors = 0 /\ ~shared =>
       \E n \in 0 .. MaxPage : \E l \in [1 .. n + 1 -> 0 .. MaxPage] : FreeList(Recovered, n, l)
=============================================================================
