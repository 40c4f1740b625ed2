----------------------------- MODULE PagerProofs -----------------------------
(***************************************************************************)
(* Proofs about Pager: as long as flush has returned no error, the file is *)
(* changed by whole commits only, whatever step a crash comes between.     *)
(***************************************************************************)
EXTENDS Pager, FiniteSetTheorems, TLAPS

-----------------------------------------------------------------------------
(* The invariant.                                                          *)

Headers == [page_count : 1 .. MaxPage + 1, free_head : 0 .. MaxPage, root : SUBSET Pages,
            doomed : SUBSET Pages]
IsFile(f) == f = [p \in 0 .. MaxPage |-> f[p]] /\ f[0] \in Headers

\* A complete log has a header and pages of the file.
WalInv ==
  \/ wal = Absent \/ wal = Torn
  \/ /\ wal = Complete(wal.batch) /\ DOMAIN wal.batch \subseteq 0 .. MaxPage
     /\ 0 \in DOMAIN wal.batch /\ wal.batch[0] \in Headers

\* A clean page of the cache is that of the file.
IsCache(c, f) ==
  /\ DOMAIN c \subseteq Pages
  /\ \A p \in DOMAIN c :
       /\ c[p] = [data |-> c[p].data, dirty |-> c[p].dirty] /\ c[p].dirty \in BOOLEAN
       /\ c[p].dirty \/ c[p].data = f[p]
CacheInv ==
  /\ IsCache(cache, file)
  /\ call # Nil => call.page \in Pages

\* From its first step to its last, the batch of a flush is the header and the
\* dirty pages as they still are; while they are applied the log has them.
FlushInv ==
  /\ pc \in {"idle", "wal", "apply", "drop"}
  /\ pc # "idle" =>
       /\ running /\ DOMAIN batch = dirty \cup {0} /\ applied \subseteq DOMAIN batch
       /\ batch[0] = header_bytes /\ \A p \in dirty : batch[p] = cache[p].data
  /\ pc = "idle" => call = Nil
  /\ pc = "wal" => applied = {}
  /\ pc \in {"apply", "drop"} => wal = Complete(batch)

\* What the file has and the disk may not have is in the log.
SyncInv ==
  /\ running /\ pc # "apply" =>
       /\ file = disk
       /\ wal.wal = "complete" => \A p \in DOMAIN wal.batch : disk[p] = wal.batch[p]
  /\ pc = "apply" => \A p \in 0 .. MaxPage : file[p] = IF p \in applied THEN batch[p] ELSE disk[p]
  /\ ~running =>
       /\ pc = "idle" /\ cache = << >>
       /\ \A p \in 0 .. MaxPage :
            file[p] = disk[p] \/ (wal.wal = "complete" /\ p \in DOMAIN wal.batch /\ file[p] = wal.batch[p])

Core ==
  /\ IsFile(file) /\ IsFile(disk) /\ header_bytes \in Headers /\ running \in BOOLEAN
  /\ WalInv /\ CacheInv /\ FlushInv /\ SyncInv
\* After an error nothing is said: a batch may be half applied, and the log that
\* could repair it is truncated by the next flush.
PagerInv == errors \in Nat /\ (errors = 0 => Core)

-----------------------------------------------------------------------------
(* The cache.                                                              *)

\* Eviction drops only clean pages.
LEMMA EvictedIsClean ==
  ASSUME NEW c, NEW e \in evicted(c)
  PROVE  /\ DOMAIN e \subseteq DOMAIN c /\ \A p \in DOMAIN e : e[p] = c[p]
         /\ \A p \in DOMAIN c \ DOMAIN e : ~c[p].dirty
BY DEF evicted, Restrict

\* A page put into the cache, after an eviction or not, with the file as it
\* was: no other page looks different.
LEMMA PutKeepsOthers ==
  ASSUME NEW c, IsCache(c, file), UNCHANGED file,
         NEW e \in {c} \cup evicted(c), NEW p \in Pages, NEW data, NEW d \in BOOLEAN,
         d \/ data = file[p], cache' = put(e, p, data, d)
  PROVE  /\ IsCache(cache', file')
         /\ content(p)' = data
         /\ \A q \in Pages \ {p} : content(q)' = IF q \in DOMAIN c THEN c[q].data ELSE file[q]
<1>1. /\ DOMAIN e \subseteq DOMAIN c /\ \A q \in DOMAIN e : e[q] = c[q]
      /\ \A q \in DOMAIN c \ DOMAIN e : ~c[q].dirty
  BY EvictedIsClean
<1>2. /\ DOMAIN cache' = DOMAIN e \cup {p}
      /\ cache'[p] = [data |-> data, dirty |-> d]
      /\ \A q \in DOMAIN e \ {p} : cache'[q] = e[q]
  BY DEF put
<1>3. IsCache(cache', file')
  BY <1>1, <1>2 DEF IsCache
<1>4. content(p)' = data
  BY <1>2 DEF content
<1>5. \A q \in Pages \ {p} : content(q)' = IF q \in DOMAIN c THEN c[q].data ELSE file[q]
  BY <1>1, <1>2 DEF content, IsCache
<1> QED BY <1>1, <1>2, <1>3, <1>4, <1>5

-----------------------------------------------------------------------------
(* Steps of a running pager that commit nothing.                           *)

\* One page may look different, and the header.
LEMMA ModifyStep ==
  ASSUME running, running', IsFile(file), IsFile(file'), Recovered' = Recovered,
         NEW p \in Pages, \A q \in Pages \ {p} : content(q)' = content(q)
  PROVE  Atomic!Next
<1>1. \A q \in Pages : q \in 0 .. MaxPage /\ q # 0
  BY PagerAssumption DEF Pages
<1>2. DOMAIN file = 0 .. MaxPage /\ DOMAIN file' = 0 .. MaxPage
  BY DEF IsFile
<1>3. /\ Image = [q \in 0 .. MaxPage |-> IF q = 0 THEN header_bytes ELSE content(q)]
      /\ Image' = [q \in 0 .. MaxPage |-> IF q = 0 THEN header_bytes' ELSE content(q)']
  BY <1>2 DEF Image
<1>4. /\ DOMAIN Image = 0 .. MaxPage /\ DOMAIN Image' = 0 .. MaxPage
      /\ \A q \in 0 .. MaxPage : q # 0 => Image[q] = content(q) /\ Image'[q] = content(q)'
  BY <1>3
<1>5. \A q \in DOMAIN Image \ {0, p} : Image'[q] = Image[q]
  BY <1>4, PagerAssumption DEF Pages
<1>6. Atomic!Modify
  BY <1>1, <1>4, <1>5 DEF Atomic!Modify
<1> QED BY <1>6 DEF Atomic!Next

\* What the pager reads, and what it is about to do, is as it was.
SameImage ==
  /\ header_bytes' = header_bytes /\ \A q \in Pages : content(q)' = content(q)
  /\ UNCHANGED call

\* The files, the log and the cache are left alone, and no flush is under way.
LEMMA begin_flushKeeps ==
  ASSUME Core, idle, NEW h, begin_flush(h), h = header_bytes', h \in Headers,
         UNCHANGED <<store, running, cache>>, call' = Nil \/ call'.page \in Pages
  PROVE  Core' /\ Recovered' = Recovered /\ \A q \in Pages : content(q)' = content(q)
<1>1. Recovered' = Recovered /\ \A q \in Pages : content(q)' = content(q)
  BY DEF store, Recovered, content
<1>2. dirty' = dirty /\ dirty \subseteq Pages /\ 0 \notin Pages
  BY PagerAssumption DEF dirty, Core, CacheInv, IsCache, Pages
<1>3. FlushInv'
  BY <1>2 DEF FlushInv, begin_flush, idle, store, dirty
<1>4. WalInv' /\ CacheInv' /\ SyncInv'
  BY DEF WalInv, CacheInv, SyncInv, Core, begin_flush, idle, store
<1> QED BY <1>1, <1>3, <1>4 DEF Core, store, IsFile

LEMMA flushKeeps ==
  ASSUME Core, flush
  PROVE  Core' /\ Atomic!Next /\ SameImage
<1>1. header_bytes' = header_bytes /\ header_bytes \in Headers
  BY DEF flush, header_bytes, header, Core
<1>2. call' = Nil \/ call'.page \in Pages
  BY DEF Core, CacheInv, flush
<1>3. Core' /\ Recovered' = Recovered /\ \A q \in Pages : content(q)' = content(q)
  BY <1>1, <1>2, begin_flushKeeps DEF flush
<1>4. 1 \in Pages
  BY PagerAssumption DEF Pages
<1> QED BY <1>1, <1>3, <1>4, ModifyStep DEF flush, idle, Core, store, SameImage

\* A page put into the cache outside of flush.
LEMMA PutKeeps ==
  ASSUME Core, idle, UNCHANGED <<store, running, commit>>, header_bytes' \in Headers,
         NEW e \in {cache} \cup evicted(cache), NEW p \in Pages, NEW data, NEW d \in BOOLEAN,
         d \/ data = file[p], cache' = put(e, p, data, d)
  PROVE  Core' /\ Atomic!Next /\ content(p)' = data /\ \A q \in Pages \ {p} : content(q)' = content(q)
<1>1. /\ IsCache(cache', file')
      /\ content(p)' = data /\ \A q \in Pages \ {p} : content(q)' = content(q)
  BY PutKeepsOthers DEF Core, CacheInv, store, content
<1>2. CacheInv'
  BY <1>1 DEF CacheInv, commit, Core
<1>3. FlushInv' /\ SyncInv' /\ WalInv'
  BY DEF FlushInv, SyncInv, WalInv, commit, store, Core, idle
<1>4. Core'
  BY <1>2, <1>3 DEF Core, store
<1>5. Recovered' = Recovered
  BY DEF Recovered, store
<1> QED BY <1>1, <1>4, <1>5, ModifyStep DEF idle, Core

LEMMA HeaderFields ==
  ASSUME Core
  PROVE  /\ page_count \in 1 .. MaxPage + 1 /\ free_head \in 0 .. MaxPage
         /\ root \subseteq Pages /\ doomed \subseteq Pages
BY DEF Core, Headers, header_bytes

LEMMA write_pageKeeps ==
  ASSUME Core, idle, UNCHANGED <<store, running>>, root' \subseteq Pages, doomed' \subseteq Pages,
         NEW p \in Pages, NEW data, NEW done, NEW h,
         h = [page_count |-> page_count, free_head |-> free_head, root |-> root', doomed |-> doomed'],
         write_page(p, data, done, h)
  PROVE  Core' /\ Atomic!Next
<1>1. page_count \in 1 .. MaxPage + 1 /\ free_head \in 0 .. MaxPage /\ p \in 0 .. MaxPage /\ h \in Headers
  BY HeaderFields, PagerAssumption DEF Pages, Headers
<1>2. CASE p \in DOMAIN cache \/ Cardinality(DOMAIN cache) < capacity \/ DOMAIN cache # dirty
  <2>1. PICK e \in {cache} \cup evicted(cache) : cache' = put(e, p, data, TRUE)
    BY <1>2 DEF write_page
  <2>2. page_count' = page_count /\ free_head' \in {free_head, p} /\ UNCHANGED commit
    BY <1>2 DEF write_page
  <2>3. header_bytes' \in Headers
    BY <1>1, <2>2 DEF header_bytes, Headers
  <2> QED BY <2>1, <2>2, <2>3, PutKeeps
<1>3. CASE ~(p \in DOMAIN cache \/ Cardinality(DOMAIN cache) < capacity \/ DOMAIN cache # dirty)
  <2>1. /\ call' = [page |-> p, data |-> data, done |-> done] /\ begin_flush(h)
        /\ UNCHANGED <<cache, free_head, page_count>>
    BY <1>3 DEF write_page
  <2>2. h = header_bytes' /\ call'.page \in Pages
    BY <2>1 DEF header_bytes
  <2>3. Core' /\ Recovered' = Recovered /\ \A q \in Pages : content(q)' = content(q)
    BY <1>1, <2>1, <2>2, begin_flushKeeps
  <2> QED BY <2>3, ModifyStep DEF idle, Core
<1> QED BY <1>2, <1>3

LEMMA writeKeeps ==
  ASSUME Core, NEW p \in Pages, NEW d, write(p, d)
  PROVE  Core' /\ Atomic!Next
<1>1. root' \subseteq Pages /\ doomed' \subseteq Pages
  BY HeaderFields DEF write
<1>2. PICK h : h = header_bytes
  OBVIOUS
<1>3. h = [page_count |-> page_count, free_head |-> free_head, root |-> root', doomed |-> doomed']
  BY <1>2 DEF write, header_bytes
<1>4. write_page(p, d, "write", h)
  BY <1>2 DEF write
<1> QED BY <1>1, <1>3, <1>4, write_pageKeeps DEF write

LEMMA freeKeeps ==
  ASSUME Core, NEW p \in Pages, NEW linked \in BOOLEAN, free(p, linked)
  PROVE  Core' /\ Atomic!Next
<1>1. root' \subseteq Pages /\ doomed' \subseteq Pages
  BY HeaderFields DEF free
<1>2. PICK h : h = [header_bytes EXCEPT !.root = root', !.doomed = doomed']
  OBVIOUS
<1>3. h = [page_count |-> page_count, free_head |-> free_head, root |-> root', doomed |-> doomed']
  BY <1>2 DEF header_bytes
<1>4. PICK l : l = link(free_head)
  OBVIOUS
<1>5. write_page(p, l, "free", h)
  BY <1>2, <1>4 DEF free
<1> QED BY <1>1, <1>3, <1>5, write_pageKeeps DEF free

\* unlink is a change of the header.
LEMMA unlinkKeeps ==
  ASSUME Core, NEW p \in Pages, unlink(p)
  PROVE  Core' /\ Atomic!Next
<1>1. /\ UNCHANGED <<store, running, page_count, free_head, root, cache, commit>>
      /\ idle /\ doomed' \subseteq Pages
  BY HeaderFields DEF unlink
<1>2. header_bytes' \in Headers
  BY <1>1, HeaderFields DEF header_bytes, Headers
<1>3. Recovered' = Recovered /\ \A q \in Pages : content(q)' = content(q)
  BY <1>1 DEF store, Recovered, content
<1>4. WalInv' /\ CacheInv' /\ FlushInv' /\ SyncInv'
  BY <1>1 DEF Core, WalInv, CacheInv, FlushInv, SyncInv, commit, store, idle
<1>5. Core'
  BY <1>1, <1>2, <1>4 DEF Core, store
<1> QED BY <1>1, <1>3, <1>5, ModifyStep DEF idle, Core

LEMMA alloc_freeKeeps ==
  ASSUME Core, alloc_free
  PROVE  Core' /\ Atomic!Next
<1>1. PICK p : p = free_head
  OBVIOUS
<1>2. p \in Pages /\ page_count \in 1 .. MaxPage + 1 /\ root \subseteq Pages /\ doomed \subseteq Pages
  BY <1>1, HeaderFields, PagerAssumption DEF alloc_free, Pages
<1>3. PICK e \in {cache} \cup evicted(cache) : cache' = put(e, p, Zero, TRUE)
  BY <1>1 DEF alloc_free
<1>4. \A data : next_free(data) \subseteq 0 .. MaxPage
  BY PagerAssumption DEF next_free, link, Pages
<1>5. free_head' \in 0 .. MaxPage
  BY <1>4 DEF alloc_free
<1>6. header_bytes' \in Headers
  BY <1>1, <1>2, <1>5 DEF alloc_free, header_bytes, Headers
<1> QED BY <1>2, <1>3, <1>6, PutKeeps DEF alloc_free

LEMMA alloc_newKeeps ==
  ASSUME Core, alloc_new
  PROVE  Core' /\ Atomic!Next
<1>1. PICK p : p = page_count
  OBVIOUS
<1>2. /\ p \in Pages /\ p + 1 \in 1 .. MaxPage + 1 /\ free_head \in 0 .. MaxPage
      /\ root \subseteq Pages /\ doomed \subseteq Pages
  BY <1>1, HeaderFields, PagerAssumption DEF alloc_new, Pages
<1>3. CASE Cardinality(DOMAIN cache) < capacity \/ DOMAIN cache # dirty
  <2>1. PICK e \in {cache} \cup evicted(cache) : cache' = put(e, p, Zero, TRUE)
    BY <1>1, <1>3 DEF alloc_new
  <2>2. header_bytes' \in Headers
    BY <1>1, <1>2, <1>3 DEF alloc_new, header_bytes, Headers
  <2> QED BY <1>2, <1>3, <2>1, <2>2, PutKeeps DEF alloc_new
<1>4. CASE ~(Cardinality(DOMAIN cache) < capacity \/ DOMAIN cache # dirty)
  <2>1. PICK h : h = [header_bytes EXCEPT !.page_count = page_count + 1]
    OBVIOUS
  <2>2. /\ call' = [page |-> p, data |-> Zero, done |-> "alloc"] /\ begin_flush(h)
        /\ UNCHANGED <<cache, root, doomed, free_head, store, running>> /\ page_count' = p + 1
    BY <1>1, <1>4, <2>1 DEF alloc_new
  <2>3. h = header_bytes' /\ h \in Headers /\ call'.page \in Pages
    BY <1>1, <1>2, <2>1, <2>2 DEF header_bytes, Headers
  <2>4. Core' /\ Recovered' = Recovered /\ \A q \in Pages : content(q)' = content(q)
    BY <2>2, <2>3, begin_flushKeeps DEF alloc_new
  <2> QED BY <1>2, <2>4, ModifyStep DEF idle, Core, alloc_new
<1> QED BY <1>3, <1>4

LEMMA read_pageKeeps ==
  ASSUME Core, NEW p \in Pages, read_page(p)
  PROVE  Core' /\ Atomic!Next /\ SameImage
<1>1. PICK data : data = file[p]
  OBVIOUS
<1>2. PICK e \in {cache} \cup evicted(cache) : cache' = put(e, p, data, FALSE)
  BY <1>1 DEF read_page
<1>3. header_bytes' = header_bytes /\ header_bytes' \in Headers
  BY DEF read_page, header, header_bytes, Core
<1>4. /\ Core' /\ Atomic!Next
      /\ content(p)' = data /\ \A q \in Pages \ {p} : content(q)' = content(q)
  BY <1>1, <1>2, <1>3, PutKeeps DEF read_page
<1>5. content(p) = data
  BY <1>1 DEF read_page, content
<1> QED BY <1>3, <1>4, <1>5 DEF read_page, commit, SameImage

-----------------------------------------------------------------------------
(* The steps of flush.                                                     *)

\* A log that is on disk, page by page, changes nothing when it is gone.
LEMMA AppliedLog ==
  ASSUME IsFile(disk), wal.wal = "complete" => \A p \in DOMAIN wal.batch : disk[p] = wal.batch[p]
  PROVE  Recovered = disk
BY DEF IsFile, Recovered, Overlay

LEMMA WalKinds ==
  ASSUME NEW b
  PROVE  /\ Absent.wal # "complete" /\ Torn.wal # "complete" /\ Absent # Torn
         /\ Complete(b).wal = "complete" /\ Complete(b).batch = b
         /\ Complete(b) # Torn /\ Complete(b) # Absent
BY DEF Absent, Torn, Complete

LEMMA wal_openKeeps ==
  ASSUME Core, wal_open
  PROVE  Core' /\ Atomic!Next /\ SameImage
<1>1. wal' = Torn /\ wal'.wal # "complete"
  BY DEF wal_open, Torn
<1>2. Recovered = disk
  BY AppliedLog DEF Core, SyncInv, wal_open
<1>3. Recovered' = disk'
  BY <1>1 DEF Recovered
<1>4. Recovered' = Recovered
  BY <1>2, <1>3 DEF wal_open
<1>5. FlushInv' /\ SyncInv' /\ WalInv' /\ CacheInv' /\ header_bytes' = header_bytes
  BY <1>1 DEF FlushInv, SyncInv, WalInv, CacheInv, Core, wal_open, commit, dirty, header, header_bytes
<1>6. Core'
  BY <1>5 DEF Core, wal_open
<1>7. 1 \in Pages /\ \A q \in Pages : content(q)' = content(q)
  BY PagerAssumption DEF Pages, content, wal_open
<1> QED BY <1>4, <1>5, <1>6, <1>7, ModifyStep DEF wal_open, Core, commit, SameImage

\* The image of a running pager is its batch over the file on disk.
LEMMA ImageIsBatch ==
  ASSUME Core, pc \in {"wal", "apply", "drop"}
  PROVE  Image = Overlay(disk, batch) /\ DOMAIN batch \subseteq 0 .. MaxPage /\ 0 \in DOMAIN batch /\ batch[0] \in Headers
<1>1. /\ running /\ DOMAIN batch = dirty \cup {0} /\ batch[0] = header_bytes
      /\ \A p \in dirty : batch[p] = cache[p].data
  BY DEF Core, FlushInv
<1>2. dirty \subseteq Pages /\ Pages \subseteq 0 .. MaxPage /\ 0 \notin Pages /\ 0 \in 0 .. MaxPage
  BY PagerAssumption DEF Core, CacheInv, IsCache, Pages, dirty
<1>3. DOMAIN file = 0 .. MaxPage /\ DOMAIN disk = 0 .. MaxPage
  BY DEF Core, IsFile
<1>4. ASSUME NEW p \in Pages
      PROVE  content(p) = Overlay(disk, batch)[p]
  <2>1. CASE p \in dirty
    BY <1>1, <1>2, <1>3, <2>1 DEF content, Overlay, dirty
  <2>2. CASE p \notin dirty
    <3>1. content(p) = file[p]
      BY <2>2 DEF content, dirty, Core, CacheInv, IsCache
    <3>2. file[p] = disk[p]
      BY <1>1, <1>2, <2>2 DEF Core, SyncInv, FlushInv
    <3> QED BY <1>1, <1>2, <1>3, <2>2, <3>1, <3>2 DEF Overlay
  <2> QED BY <2>1, <2>2
<1>5. \A p \in 0 .. MaxPage : p # 0 => p \in Pages
  BY PagerAssumption DEF Pages
<1>6. Image = [p \in 0 .. MaxPage |-> IF p = 0 THEN header_bytes ELSE content(p)]
  BY <1>1, <1>3 DEF Image
<1>7. Overlay(disk, batch) = [p \in 0 .. MaxPage |-> Overlay(disk, batch)[p]]
  BY <1>3 DEF Overlay
<1>8. Overlay(disk, batch)[0] = header_bytes
  BY <1>1, <1>2, <1>3 DEF Overlay
<1>9. Image = Overlay(disk, batch)
  BY <1>4, <1>5, <1>6, <1>7, <1>8
<1> QED BY <1>1, <1>2, <1>9 DEF Core

\* The commit: the log with the batch reaches the disk.
LEMMA wal_writeKeeps ==
  ASSUME Core, wal_write
  PROVE  Core' /\ Atomic!Next /\ SameImage
<1>1. wal' = Complete(batch) /\ wal'.wal = "complete" /\ wal'.batch = batch
  BY DEF wal_write, Complete
<1>2. Image = Overlay(disk, batch) /\ DOMAIN batch \subseteq 0 .. MaxPage /\ 0 \in DOMAIN batch /\ batch[0] \in Headers
  BY ImageIsBatch DEF wal_write
<1>3. Recovered' = Overlay(disk, batch)
  BY <1>1 DEF Recovered, wal_write
<1>4. Image' = Image
  BY DEF wal_write, header, Image, header_bytes, content
<1>5. running /\ running'
  BY DEF wal_write
<1>6. Atomic!Commit
  BY <1>2, <1>3, <1>4, <1>5 DEF Atomic!Commit
<1>7. dirty' = dirty /\ header_bytes' = header_bytes
  BY DEF wal_write, dirty, header, header_bytes
<1>8. WalInv' /\ CacheInv'
  BY <1>1, <1>2 DEF WalInv, CacheInv, Core, wal_write
<1>9. FlushInv'
  BY <1>1, <1>7 DEF FlushInv, Core, wal_write
<1>10. file = disk /\ applied = {}
  BY DEF Core, SyncInv, FlushInv, wal_write
<1>11. SyncInv'
  BY <1>1, <1>10 DEF SyncInv, wal_write
<1>12. \A q \in Pages : content(q)' = content(q)
  BY DEF content, wal_write
<1> QED BY <1>6, <1>7, <1>8, <1>9, <1>11, <1>12 DEF Core, wal_write, Atomic!Next, SameImage

\* A page of the batch is written to the main file: it is dirty in the cache,
\* and the log has it.
LEMMA applyKeeps ==
  ASSUME Core, NEW p \in 0 .. MaxPage, apply(p)
  PROVE  Core' /\ Atomic!Next /\ SameImage
<1>1. /\ running /\ pc = "apply" /\ p \in DOMAIN batch /\ wal = Complete(batch)
      /\ file' = [file EXCEPT ![p] = batch[p]] /\ applied' = applied \cup {p}
      /\ UNCHANGED <<disk, wal, running, header, cache, pc, batch, call>>
  BY DEF apply, Core, FlushInv
<1>2. DOMAIN batch = dirty \cup {0} /\ batch[0] = header_bytes /\ header_bytes \in Headers
  BY <1>1 DEF Core, FlushInv
<1>3. DOMAIN file = 0 .. MaxPage /\ file[0] \in Headers
  BY DEF Core, IsFile
<1>4. \A q \in 0 .. MaxPage : file'[q] = IF q = p THEN batch[p] ELSE file[q]
  BY <1>1, <1>3
<1>5. IsFile(file')
  <2>1. file' = [q \in 0 .. MaxPage |-> file'[q]]
    BY <1>1, <1>3
  <2>2. 0 \in 0 .. MaxPage
    BY PagerAssumption
  <2> QED BY <1>2, <1>3, <1>4, <2>1, <2>2 DEF IsFile
<1>6. dirty' = dirty /\ header_bytes' = header_bytes
  BY <1>1 DEF dirty, header, header_bytes
<1>7. FlushInv' /\ WalInv'
  BY <1>1, <1>6 DEF FlushInv, WalInv, Core
<1>8. SyncInv'
  BY <1>1, <1>4 DEF SyncInv, Core
<1>9. \A q \in DOMAIN cache : ~cache[q].dirty => q # p /\ q # 0 /\ q \in 0 .. MaxPage
  BY <1>1, <1>2, PagerAssumption DEF dirty, Core, CacheInv, IsCache, Pages
<1>10. CacheInv'
  BY <1>1, <1>4, <1>9 DEF CacheInv, IsCache, Core
<1>11. Core'
  BY <1>1, <1>5, <1>6, <1>7, <1>8, <1>10 DEF Core
<1>12. Recovered' = Recovered
  BY <1>1 DEF Recovered
<1>13. ASSUME NEW q \in Pages
       PROVE  content(q)' = content(q)
  <2>1. q \in 0 .. MaxPage /\ q # 0
    BY PagerAssumption DEF Pages
  <2> QED BY <1>1, <1>2, <1>4, <2>1 DEF content, dirty
<1>14. 1 \in Pages
  BY PagerAssumption DEF Pages
<1> QED BY <1>1, <1>6, <1>11, <1>12, <1>13, <1>14, ModifyStep DEF Core, SameImage

\* All pages of the batch are in the file, which is synced; the log is not
\* needed any more.
LEMMA syncKeeps ==
  ASSUME Core, sync
  PROVE  Core' /\ Atomic!Next /\ SameImage
<1>1. /\ running /\ pc = "apply" /\ pc' = "drop" /\ wal = Complete(batch) /\ applied = DOMAIN batch
      /\ disk' = file /\ UNCHANGED <<file, wal, running, header, cache, batch, applied, call>>
  BY DEF sync, Core, FlushInv
<1>2. DOMAIN batch \subseteq 0 .. MaxPage
  BY <1>1, ImageIsBatch
<1>3. \A p \in 0 .. MaxPage : file[p] = IF p \in DOMAIN batch THEN batch[p] ELSE disk[p]
  BY <1>1 DEF Core, SyncInv
<1>4. wal.wal = "complete" /\ wal.batch = batch
  BY <1>1 DEF Complete
<1>5. Recovered = Overlay(disk, batch)
  BY <1>4 DEF Recovered
<1>6. Recovered' = disk'
  <2>1. IsFile(disk') /\ \A p \in DOMAIN batch : disk'[p] = batch[p]
    BY <1>1, <1>2, <1>3 DEF Core
  <2> QED BY <1>1, <1>4, <2>1 DEF Recovered, Overlay, IsFile
<1>7. Recovered' = Recovered
  BY <1>1, <1>3, <1>5, <1>6 DEF Overlay, Core, IsFile
<1>8. dirty' = dirty /\ header_bytes' = header_bytes
  BY <1>1 DEF dirty, header, header_bytes
<1>9. FlushInv' /\ WalInv' /\ CacheInv'
  BY <1>1, <1>8 DEF FlushInv, WalInv, Core, CacheInv
<1>10. SyncInv'
  BY <1>1, <1>2, <1>3, <1>4 DEF SyncInv
<1>11. Core'
  BY <1>1, <1>8, <1>9, <1>10 DEF Core
<1>12. 1 \in Pages /\ \A q \in Pages : content(q)' = content(q)
  BY <1>1, PagerAssumption DEF Pages, content
<1> QED BY <1>1, <1>7, <1>8, <1>11, <1>12, ModifyStep DEF Core, SameImage


LEMMA CleanRecord ==
  ASSUME NEW data, NEW d, NEW v, NEW r, r = [data |-> data, dirty |-> d]
  PROVE  [r EXCEPT !.dirty = v] = [data |-> data, dirty |-> v]
OBVIOUS

\* What drop does to the image: nothing, or what the waiting call asked for.
DropDoes ==
  /\ call' = Nil /\ page_count' = page_count /\ doomed' = doomed
  /\ IF call = Nil
     THEN UNCHANGED <<free_head, root>> /\ \A q \in Pages : content(q)' = content(q)
     ELSE /\ free_head' = IF call.done = "free" THEN call.page ELSE free_head
          /\ root' = IF call.done = "alloc" THEN root \cup {call.page} ELSE root
          /\ \E p \in Pages : /\ p = call.page /\ content(p)' = call.data
                              /\ \A q \in Pages \ {p} : content(q)' = content(q)

\* The log may go, the pages are clean, and the call that waited is finished.
LEMMA dropKeeps ==
  ASSUME Core, NEW removed \in BOOLEAN, drop(removed)
  PROVE  Core' /\ Atomic!Next /\ DropDoes
<1>1. PICK clean : clean = [p \in DOMAIN cache |-> [cache[p] EXCEPT !.dirty = FALSE]]
  OBVIOUS
<1>2. /\ running /\ pc = "drop" /\ pc' = "idle" /\ call' = Nil
      /\ wal' = IF removed THEN Absent ELSE wal
      /\ UNCHANGED <<file, disk, running, page_count, doomed>>
  BY DEF drop
<1>3. /\ wal = Complete(batch) /\ file = disk /\ \A p \in DOMAIN batch : disk[p] = batch[p]
      /\ DOMAIN batch = dirty \cup {0} /\ \A p \in dirty : batch[p] = cache[p].data
  BY <1>2 DEF Core, FlushInv, SyncInv, Complete
<1>4. \A p \in DOMAIN cache :
        /\ p \in Pages /\ cache[p] = [data |-> cache[p].data, dirty |-> cache[p].dirty]
        /\ cache[p].data = file[p]
  BY <1>3 DEF Core, CacheInv, IsCache, dirty
<1>5. /\ DOMAIN clean = DOMAIN cache
      /\ \A p \in DOMAIN clean : clean[p] = [data |-> file[p], dirty |-> FALSE]
  <2>1. DOMAIN clean = DOMAIN cache
    BY <1>1
  <2>2. ASSUME NEW p \in DOMAIN clean
        PROVE  clean[p] = [data |-> file[p], dirty |-> FALSE]
    <3>1. clean[p] = [cache[p] EXCEPT !.dirty = FALSE] /\ cache[p] = [data |-> file[p], dirty |-> cache[p].dirty]
      BY <1>1, <1>4, <2>1
    <3>2. PICK r, data, d, v : r = cache[p] /\ data = file[p] /\ d = cache[p].dirty /\ v = FALSE
      OBVIOUS
    <3>3. [r EXCEPT !.dirty = v] = [data |-> data, dirty |-> v]
      BY <3>1, <3>2, CleanRecord
    <3> QED BY <3>1, <3>2, <3>3
  <2> QED BY <2>1, <2>2
<1>6. IsCache(clean, file)
  <2>1. \A p \in DOMAIN clean : p \in Pages /\ clean[p].data = file[p] /\ clean[p].dirty = FALSE
    BY <1>4, <1>5
  <2> QED BY <1>5, <2>1 DEF IsCache
<1>7. /\ page_count \in 1 .. MaxPage + 1 /\ free_head \in 0 .. MaxPage /\ Pages \subseteq 0 .. MaxPage
      /\ root \subseteq Pages /\ doomed \subseteq Pages
  BY HeaderFields, PagerAssumption DEF Pages
<1>8. /\ IsCache(cache', file') /\ header_bytes' \in Headers
      /\ \E p \in Pages : \A q \in Pages \ {p} : content(q)' = content(q)
      /\ DropDoes
  <2>1. CASE call = Nil
    <3>1. cache' = clean /\ UNCHANGED <<free_head, root>>
      BY <1>1, <2>1 DEF drop
    <3>2. header_bytes' \in Headers
      BY <1>2, <1>7, <3>1 DEF header_bytes, Headers
    <3>3. \A q \in Pages : content(q)' = content(q)
      BY <1>2, <1>4, <1>5, <3>1 DEF content
    <3>4. 1 \in Pages
      BY PagerAssumption DEF Pages
    <3>5. DropDoes
      BY <1>2, <2>1, <3>1, <3>3 DEF DropDoes
    <3> QED BY <1>2, <1>6, <3>1, <3>2, <3>3, <3>4, <3>5
  <2>2. CASE call # Nil
    <3>1. PICK p : p = call.page
      OBVIOUS
    <3>2. PICK data : data = call.data
      OBVIOUS
    <3>3. p \in Pages
      BY <2>2, <3>1 DEF Core, CacheInv
    <3>4. PICK e \in {clean} \cup evicted(clean) : cache' = put(e, p, data, TRUE)
      BY <1>1, <2>2, <3>1, <3>2 DEF drop
    <3>5. free_head' \in {free_head, p} /\ root' \in {root, root \cup {p}}
      BY <2>2, <3>1 DEF drop
    <3>6. header_bytes' \in Headers
      BY <1>2, <1>7, <3>3, <3>5 DEF header_bytes, Headers
    <3>7. /\ IsCache(cache', file')
          /\ content(p)' = data
          /\ \A q \in Pages \ {p} : content(q)' = IF q \in DOMAIN clean THEN clean[q].data ELSE file[q]
      BY <1>2, <1>6, <3>3, <3>4, PutKeepsOthers
    <3>8. \A q \in Pages \ {p} : content(q)' = content(q)
      BY <1>4, <1>5, <3>7 DEF content
    <3>9. DropDoes
      <4>1. /\ free_head' = IF call.done = "free" THEN call.page ELSE free_head
            /\ root' = IF call.done = "alloc" THEN root \cup {call.page} ELSE root
        BY <2>2 DEF drop
      <4> QED BY <1>2, <2>2, <3>1, <3>2, <3>3, <3>7, <3>8, <4>1 DEF DropDoes
    <3> QED BY <3>3, <3>6, <3>7, <3>8, <3>9
  <2> QED BY <2>1, <2>2
<1>9. wal' \in {wal, Absent} /\ wal.wal = "complete" /\ wal.batch = batch /\ Absent.wal # "complete"
  BY <1>2, <1>3 DEF Complete, Absent
<1>10. Recovered = disk
  BY <1>3, <1>9, AppliedLog DEF Core
<1>11. Recovered' = disk'
  BY <1>2, <1>9, <1>10 DEF Recovered
<1>12. WalInv' /\ FlushInv' /\ CacheInv'
  BY <1>2, <1>8, <1>9 DEF WalInv, FlushInv, CacheInv, Core
<1>13. SyncInv'
  BY <1>2, <1>3, <1>9 DEF SyncInv
<1>14. Core'
  BY <1>2, <1>8, <1>12, <1>13 DEF Core
<1> QED BY <1>2, <1>8, <1>10, <1>11, <1>14, ModifyStep DEF Core

-----------------------------------------------------------------------------
(* Crashes and recovery.                                                   *)

\* What a crash may add to the disk is in the log, if the log is complete.
LEMMA UnsyncedIsLogged ==
  ASSUME Core, NEW p \in 0 .. MaxPage, file[p] # disk[p]
  PROVE  wal.wal = "complete" /\ p \in DOMAIN wal.batch /\ file[p] = wal.batch[p]
<1>1. CASE ~running
  BY <1>1 DEF Core, SyncInv
<1>2. CASE running
  <2>1. pc = "apply"
    BY <1>2 DEF Core, SyncInv, FlushInv
  <2>2. wal = Complete(batch) /\ applied \subseteq DOMAIN batch
    BY <2>1 DEF Core, FlushInv
  <2>3. file[p] = IF p \in applied THEN batch[p] ELSE disk[p]
    BY <2>1 DEF Core, SyncInv
  <2> QED BY <2>2, <2>3 DEF Complete
<1> QED BY <1>1, <1>2

LEMMA crashKeeps ==
  ASSUME Core, crash
  PROVE  Core' /\ Atomic!Next
<1>1. PICK kept \in SUBSET {p \in DOMAIN file : file[p] # disk[p]} :
        disk' = [p \in DOMAIN disk |-> IF p \in kept THEN file[p] ELSE disk[p]]
  BY DEF crash
<1>2. /\ running' = FALSE /\ file' = disk' /\ cache' = << >> /\ pc' = "idle" /\ call' = Nil
      /\ page_count' = 1 /\ free_head' = 0 /\ root' = {} /\ doomed' = {}
      /\ IF pc = "wal" /\ wal = Torn THEN wal' \in {Torn, Complete(batch)} ELSE wal' = wal
  BY DEF crash
<1>3. DOMAIN disk = 0 .. MaxPage /\ DOMAIN file = 0 .. MaxPage /\ 0 \in 0 .. MaxPage
      /\ disk[0] \in Headers /\ file[0] \in Headers
  BY PagerAssumption DEF Core, IsFile
<1>4. IsFile(disk')
  BY <1>1, <1>3 DEF IsFile
<1>5. \A p \in 0 .. MaxPage : disk'[p] = disk[p] \/
        (wal.wal = "complete" /\ p \in DOMAIN wal.batch /\ disk'[p] = wal.batch[p])
  BY <1>1, <1>3, UnsyncedIsLogged
<1>6. Image' = Recovered'
  BY <1>2 DEF Image
<1>7. WalInv' /\ Recovered' \in {Recovered, Image}
  <2>1. CASE pc = "wal" /\ wal = Torn
    <3>1. disk' = disk
      BY <1>3, <1>4, <1>5, <2>1 DEF Torn, Core, IsFile
    <3>2. CASE wal' = Torn
      BY <2>1, <3>1, <3>2 DEF WalInv, Recovered, Torn
    <3>3. CASE wal' = Complete(batch)
      <4>1. Image = Overlay(disk, batch) /\ DOMAIN batch \subseteq 0 .. MaxPage /\ 0 \in DOMAIN batch /\ batch[0] \in Headers
        BY <2>1, ImageIsBatch
      <4>2. wal'.wal = "complete" /\ wal'.batch = batch
        BY <3>3 DEF Complete
      <4> QED BY <3>1, <3>3, <4>1, <4>2 DEF WalInv, Recovered
    <3> QED BY <1>2, <2>1, <3>2, <3>3
  <2>2. CASE ~(pc = "wal" /\ wal = Torn)
    <3>1. wal' = wal
      BY <1>2, <2>2
    <3>2. CASE wal.wal = "complete"
      <4>1. Overlay(disk', wal.batch) = Overlay(disk, wal.batch)
        <5>1. DOMAIN disk' = 0 .. MaxPage
          BY <1>4 DEF IsFile
        <5> QED BY <1>3, <1>5, <5>1 DEF Overlay
      <4> QED BY <3>1, <3>2, <4>1 DEF Recovered, WalInv, Core
    <3>3. CASE wal.wal # "complete"
      <4>1. disk' = disk
        BY <1>4, <1>5, <3>3 DEF Core, IsFile
      <4> QED BY <3>1, <3>3, <4>1 DEF Recovered, WalInv, Core
    <3> QED BY <3>2, <3>3
  <2> QED BY <2>1, <2>2
<1>8. Atomic!Crash
  BY <1>2, <1>6, <1>7 DEF Atomic!Crash
<1>9. header_bytes' \in Headers
  BY <1>2, PagerAssumption DEF header_bytes, Headers
<1>10. CacheInv' /\ FlushInv' /\ SyncInv'
  BY <1>2 DEF CacheInv, IsCache, FlushInv, SyncInv
<1>11. Core'
  BY <1>2, <1>4, <1>7, <1>9, <1>10 DEF Core
<1> QED BY <1>8, <1>11 DEF Atomic!Next

\* Replaying a page changes nothing that recovery would not change anyway.
LEMMA replayKeeps ==
  ASSUME Core, NEW p \in 0 .. MaxPage, replay(p)
  PROVE  Core' /\ UNCHANGED <<Image, Recovered, running>>
<1>1. /\ ~running /\ wal.wal = "complete" /\ p \in DOMAIN wal.batch
      /\ file' = [file EXCEPT ![p] = wal.batch[p]]
      /\ UNCHANGED <<disk, wal, running, header, cache, commit>>
  BY DEF replay
<1>2. UNCHANGED <<Image, Recovered, running>>
  BY <1>1 DEF Image, Recovered
<1>3. wal.batch[0] \in Headers /\ DOMAIN file = 0 .. MaxPage /\ file[0] \in Headers /\ 0 \in 0 .. MaxPage
  BY <1>1, PagerAssumption DEF Core, WalInv, Absent, Torn, IsFile
<1>4. \A q \in 0 .. MaxPage : file'[q] = IF q = p THEN wal.batch[q] ELSE file[q]
  BY <1>1, <1>3
<1>5. IsFile(file')
  <2>1. file' = [q \in 0 .. MaxPage |-> file'[q]]
    BY <1>1, <1>3
  <2> QED BY <1>3, <1>4, <2>1 DEF IsFile
<1>6. cache = << >> /\ pc = "idle" /\ header_bytes' = header_bytes
  BY <1>1 DEF Core, SyncInv, header, header_bytes
<1>7. CacheInv' /\ FlushInv' /\ WalInv'
  BY <1>1, <1>6 DEF Core, CacheInv, IsCache, FlushInv, WalInv, commit
<1>8. SyncInv'
  BY <1>1, <1>4, <1>6 DEF Core, SyncInv, commit
<1> QED BY <1>1, <1>2, <1>5, <1>6, <1>7, <1>8 DEF Core

LEMMA openKeeps ==
  ASSUME Core, open
  PROVE  Core' /\ Atomic!Next
<1>1. /\ ~running /\ running' = TRUE /\ disk' = file /\ wal' = Absent
      /\ wal.wal = "complete" => \A p \in DOMAIN wal.batch : file[p] = wal.batch[p]
      /\ page_count' = file[0].page_count /\ free_head' = file[0].free_head
      /\ root' = file[0].root /\ doomed' = file[0].doomed
      /\ UNCHANGED <<file, cache, commit>>
  BY DEF open
<1>2. cache = << >> /\ pc = "idle" /\ file[0] \in Headers /\ DOMAIN file = 0 .. MaxPage /\ DOMAIN disk = 0 .. MaxPage
  BY <1>1 DEF Core, SyncInv, IsFile
<1>3. header_bytes' = file[0]
  BY <1>1, <1>2 DEF header_bytes, Headers
<1>4. Recovered = file
  <2>1. \A p \in 0 .. MaxPage : file[p] = disk[p] \/ (wal.wal = "complete" /\ p \in DOMAIN wal.batch /\ file[p] = wal.batch[p])
    BY <1>1 DEF Core, SyncInv
  <2>2. file = [p \in 0 .. MaxPage |-> file[p]] /\ disk = [p \in 0 .. MaxPage |-> disk[p]]
    BY DEF Core, IsFile
  <2>3. CASE wal.wal = "complete"
    BY <1>1, <1>2, <2>1, <2>2, <2>3 DEF Recovered, Overlay
  <2>4. CASE wal.wal # "complete"
    BY <2>1, <2>2, <2>4 DEF Recovered
  <2> QED BY <2>3, <2>4
<1>5. Recovered' = file
  BY <1>1 DEF Recovered, Absent
<1>6. Image = Recovered
  BY <1>1 DEF Image
<1>7. Image' = file
  <2>1. \A p \in 0 .. MaxPage : content(p)' = file[p]
    BY <1>1, <1>2 DEF content
  <2>2. Image' = [p \in 0 .. MaxPage |-> IF p = 0 THEN header_bytes' ELSE content(p)']
    BY <1>1, <1>2 DEF Image
  <2>3. file = [p \in 0 .. MaxPage |-> file[p]]
    BY DEF Core, IsFile
  <2> QED BY <1>3, <2>1, <2>2, <2>3
<1>8. Atomic!Recover
  BY <1>1, <1>4, <1>5, <1>6, <1>7 DEF Atomic!Recover
<1>9. CacheInv' /\ FlushInv' /\ SyncInv' /\ WalInv'
  BY <1>1, <1>2 DEF Core, CacheInv, IsCache, FlushInv, SyncInv, WalInv, commit, Absent
<1>10. Core'
  BY <1>1, <1>2, <1>3, <1>9 DEF Core
<1> QED BY <1>8, <1>10 DEF Atomic!Next

-----------------------------------------------------------------------------
(* The theorem.                                                            *)

LEMMA InitCore ==
  ASSUME Init
  PROVE  PagerInv
<1>1. DOMAIN file = 0 .. MaxPage /\ file[0] = Empty /\ Empty \in Headers /\ 0 \in 0 .. MaxPage
  BY PagerAssumption DEF Init, Empty, Headers, Pages
<1>2. IsFile(file)
  <2>1. file = [p \in 0 .. MaxPage |-> file[p]]
    BY DEF Init
  <2> QED BY <1>1, <2>1 DEF IsFile
<1>3. header_bytes \in Headers
  BY <1>1 DEF Init, header_bytes, Empty
<1>4. WalInv /\ CacheInv /\ FlushInv /\ SyncInv
  BY DEF Init, WalInv, CacheInv, IsCache, FlushInv, SyncInv, Absent
<1> QED BY <1>2, <1>3, <1>4 DEF Init, Core, PagerInv

\* Every step but an I/O error keeps the invariant, and is a step of the
\* atomic file or not seen by it.
LEMMA StepKeeps ==
  ASSUME Core, Next, ~io_error
  PROVE  Core' /\ (Atomic!Next \/ UNCHANGED <<Image, Recovered, running>>)
<1>1. ASSUME NEW p \in Pages,
             unlink(p) \/ read_page(p) \/ (\E linked \in BOOLEAN : free(p, linked)) \/ \E d \in Data : write(p, d)
      PROVE  Core' /\ Atomic!Next
  BY <1>1, unlinkKeeps, freeKeeps, read_pageKeeps, writeKeeps
<1>2. ASSUME NEW p \in 0 .. MaxPage, apply(p) \/ replay(p)
      PROVE  Core' /\ (Atomic!Next \/ UNCHANGED <<Image, Recovered, running>>)
  BY <1>2, applyKeeps, replayKeeps
<1>3. ASSUME NEW removed \in BOOLEAN, drop(removed)
      PROVE  Core' /\ Atomic!Next
  BY <1>3, dropKeeps
<1>4. ASSUME flush \/ alloc_free \/ alloc_new \/ wal_open \/ wal_write \/ sync \/ crash \/ open
      PROVE  Core' /\ Atomic!Next
  BY <1>4, flushKeeps, alloc_freeKeeps, alloc_newKeeps, wal_openKeeps, wal_writeKeeps, syncKeeps,
     crashKeeps, openKeeps
<1> QED BY <1>1, <1>2, <1>3, <1>4 DEF Next

\* Errors are only counted.
LEMMA ErrorsGrow ==
  ASSUME errors \in Nat, [Next]_vars
  PROVE  errors' \in Nat /\ (errors' = 0 => errors = 0 /\ (Next => ~io_error))
<1>1. ASSUME io_error PROVE errors' = errors + 1
  BY <1>1 DEF io_error
<1>2. ASSUME Next, ~io_error PROVE errors' = errors
  BY <1>2 DEF Next, flush, alloc_free, alloc_new, free, unlink, read_page, write, wal_open, wal_write, sync,
     crash, open, apply, replay, drop
<1>3. ASSUME UNCHANGED vars PROVE errors' = errors
  BY <1>3 DEF vars
<1> QED BY <1>1, <1>2, <1>3

LEMMA NextKeeps ==
  ASSUME PagerInv, [Next]_vars
  PROVE  PagerInv' /\ [errors' = 0 => Atomic!Next]_<<Image, Recovered, running>>
<1>1. errors' \in Nat /\ (errors' = 0 => errors = 0 /\ (Next => ~io_error))
  BY ErrorsGrow DEF PagerInv
<1>2. ASSUME errors' = 0
      PROVE  Core' /\ (Atomic!Next \/ UNCHANGED <<Image, Recovered, running>>)
  <2>1. Core
    BY <1>1, <1>2 DEF PagerInv
  <2>2. CASE Next
    BY <1>1, <1>2, <2>1, <2>2, StepKeeps
  <2>3. CASE UNCHANGED vars
    <3>1. UNCHANGED <<Image, Recovered, running>>
      BY <2>3 DEF vars, store, header, commit, Image, Recovered, header_bytes, content
    <3>2. Core'
      BY <2>1, <2>3 DEF vars, store, header, commit, Core, IsFile, WalInv, CacheInv, IsCache, FlushInv,
         SyncInv, dirty, header_bytes
    <3> QED BY <3>1, <3>2
  <2> QED BY <2>2, <2>3
<1> QED BY <1>1, <1>2 DEF PagerInv

\* The invariant of the page file: as long as flush has returned no error, a
\* page that the file has and the disk may not have is in the log, and a batch
\* being committed is the header and the dirty pages.
THEOREM LogInvariant == Spec => []PagerInv
<1>1. Init => PagerInv
  BY InitCore
<1>2. PagerInv /\ [Next]_vars => PagerInv'
  BY NextKeeps
<1> QED BY <1>1, <1>2, PTL DEF Spec

\* flush is atomic under a crash between any two of its writes, in the middle
\* of recovery, and in a flush that an eviction runs inside another operation.
THEOREM FlushAtomicity == Spec => FlushIsAtomic
<1>1. PagerInv /\ [Next]_vars => [errors' = 0 => Atomic!Next]_<<Image, Recovered, running>>
  BY NextKeeps
<1> QED BY <1>1, LogInvariant, PTL DEF Spec, FlushIsAtomic

\* A file whose writes never fail is an atomically committed file.
THEOREM AtomicRefinement == MaxErrors = 0 /\ Spec => Atomic!Spec
<1> SUFFICES ASSUME MaxErrors = 0 PROVE Spec => Atomic!Spec
  OBVIOUS
<1>1. Init => Atomic!Init
  <2> SUFFICES ASSUME Init PROVE Atomic!Init
    OBVIOUS
  <2>1. PagerInv /\ errors = 0 /\ running = TRUE
    BY InitCore DEF Init
  <2>2. Core
    BY <2>1 DEF PagerInv
  <2>3. Recovered = disk /\ disk = file
    BY DEF Init, Recovered, Absent
  <2>4. Image = [p \in 0 .. MaxPage |-> IF p = 0 THEN header_bytes ELSE content(p)]
    BY <2>1, <2>2 DEF Image, Core, IsFile
  <2>5. \A p \in 0 .. MaxPage : p # 0 => content(p) = file[p]
    BY DEF content, Init
  <2>6. header_bytes = file[0]
    BY PagerAssumption DEF header_bytes, Init, Empty
  <2>7. file = [p \in 0 .. MaxPage |-> file[p]]
    BY <2>2 DEF Core, IsFile
  <2>8. Image = file
    BY <2>4, <2>5, <2>6, <2>7
  <2> QED BY <2>1, <2>3, <2>8 DEF Atomic!Init
<1>2. errors = 0 /\ [Next]_vars => (errors = 0)'
  <2> SUFFICES ASSUME errors = 0, [Next]_vars
               PROVE  errors' = 0
    OBVIOUS
  <2>1. ~io_error
    BY PagerAssumption DEF io_error
  <2> QED BY <2>1 DEF Next, flush, alloc_free, alloc_new, free, unlink, read_page, write, wal_open, wal_write, sync,
       crash, open, apply, replay, drop, vars
<1>3. PagerInv /\ (errors = 0)' /\ [Next]_vars => [Atomic!Next]_<<Image, Recovered, running>>
  BY NextKeeps
<1>4. Init => errors = 0
  BY DEF Init
<1>5. Spec => [](errors = 0)
  BY <1>2, <1>4, PTL DEF Spec
<1> QED BY <1>1, <1>3, <1>5, LogInvariant, PTL DEF Spec, Atomic!Spec

-----------------------------------------------------------------------------
(* The free list.                                                          *)

Lists(n) == [1 .. n + 1 -> 0 .. MaxPage]
HasFreeList(f) == \E n \in 0 .. MaxPage : \E l \in Lists(n) : FreeList(f, n, l)

\* The same of what the running pager reads.
Threads(n, l) ==
  /\ free_head = l[1] /\ l[n + 1] = 0
  /\ \A i \in 1 .. n :
       /\ l[i] \in Pages /\ content(l[i]) = link(l[i + 1])
       /\ l[i] < page_count /\ l[i] \notin root
       /\ \A j \in 1 .. n : l[i] = l[j] => i = j
  /\ \A p \in root : p < page_count

\* What a call that waits for its flush is about to do keeps the list: it
\* writes a page in use, adds a page when there is no free one, or frees one
\* that is neither in use nor free.
Waits(n, l) ==
  call # Nil =>
    /\ call.done \in {"write", "alloc", "free"} /\ call.page \in Pages /\ call.page < page_count
    /\ call.done = "write" => call.page \in root
    /\ call.done = "alloc" => free_head = 0
    /\ call.done = "free" => /\ call.data = link(free_head) /\ call.page \notin root
                             /\ \A i \in 1 .. n : l[i] # call.page

ThreadInv == \E n \in 0 .. MaxPage : \E l \in Lists(n) : Threads(n, l) /\ Waits(n, l)

LEMMA ImageThreads ==
  ASSUME Core, running, NEW n \in 0 .. MaxPage, NEW l \in Lists(n)
  PROVE  FreeList(Image, n, l) <=> Threads(n, l)
<1>1. Image = [p \in 0 .. MaxPage |-> IF p = 0 THEN header_bytes ELSE content(p)]
  BY DEF Image, Core, IsFile
<1>2. Image[0] = header_bytes /\ \A p \in Pages : Image[p] = content(p)
  BY <1>1, PagerAssumption DEF Pages
<1>3. /\ Image[0].free_head = free_head /\ Image[0].page_count = page_count /\ Image[0].root = root
  BY <1>2 DEF header_bytes
<1> QED BY <1>2, <1>3 DEF FreeList, Threads

\* Distinct pages are at most all pages.
LEMMA ListsAreShort ==
  ASSUME NEW n \in Nat, NEW l \in [1 .. n -> Pages], \A i, j \in 1 .. n : l[i] = l[j] => i = j
  PROVE  n <= MaxPage
<1>1. l \in Injection(1 .. n, Pages)
  BY DEF Injection, IsInjective
<1>2. IsFiniteSet(Pages) /\ Cardinality(Pages) = MaxPage
  BY FS_Interval, PagerAssumption DEF Pages
<1>3. Cardinality(1 .. n) <= Cardinality(Pages)
  BY <1>1, <1>2, FS_Injection
<1>4. Cardinality(1 .. n) = n
  BY FS_Interval
<1> QED BY <1>2, <1>3, <1>4

LEMMA SameThreads ==
  ASSUME ThreadInv, Core, SameImage
  PROVE  ThreadInv'
<1>1. PICK n \in 0 .. MaxPage : \E l \in Lists(n) : Threads(n, l) /\ Waits(n, l)
  BY DEF ThreadInv
<1>2. PICK l \in Lists(n) : Threads(n, l) /\ Waits(n, l)
  BY <1>1
<1>3. page_count' = page_count /\ free_head' = free_head /\ root' = root
  BY DEF SameImage, header_bytes
<1>4. Threads(n, l)'
  BY <1>2, <1>3 DEF Threads, SameImage
<1>5. Waits(n, l)'
  BY <1>2, <1>3 DEF Waits, SameImage
<1> QED BY <1>4, <1>5 DEF ThreadInv

\* write_page: the page is written, or the call waits.
Wrote(p, data, done) ==
  /\ page_count' = page_count
  /\ \/ /\ content(p)' = data /\ \A q \in Pages \ {p} : content(q)' = content(q)
        /\ free_head' = IF done = "free" THEN p ELSE free_head
        /\ call' = Nil
     \/ /\ \A q \in Pages : content(q)' = content(q)
        /\ free_head' = free_head
        /\ call' = [page |-> p, data |-> data, done |-> done]
LEMMA write_pageDoes ==
  ASSUME Core, idle, UNCHANGED <<store, running>>, NEW p \in Pages, NEW data, NEW done, NEW h,
         write_page(p, data, done, h)
  PROVE  Wrote(p, data, done)
<1>1. CASE p \in DOMAIN cache \/ Cardinality(DOMAIN cache) < capacity \/ DOMAIN cache # dirty
  <2>1. PICK e \in {cache} \cup evicted(cache) : cache' = put(e, p, data, TRUE)
    BY <1>1 DEF write_page
  <2>2. /\ page_count' = page_count /\ UNCHANGED commit
        /\ free_head' = IF done = "free" THEN p ELSE free_head
    BY <1>1 DEF write_page
  <2>3. content(p)' = data /\ \A q \in Pages \ {p} : content(q)' = content(q)
    BY <2>1, PutKeepsOthers DEF Core, CacheInv, store, content
  <2>4. call' = Nil
    BY <2>2 DEF commit, Core, FlushInv, idle
  <2> QED BY <2>2, <2>3, <2>4 DEF Wrote
<1>2. CASE ~(p \in DOMAIN cache \/ Cardinality(DOMAIN cache) < capacity \/ DOMAIN cache # dirty)
  BY <1>2 DEF write_page, Wrote, store, content
<1> QED BY <1>1, <1>2

LEMMA writeThreads ==
  ASSUME ThreadInv, Core, used = root, NEW p \in Pages, NEW d, write(p, d)
  PROVE  ThreadInv'
<1>1. PICK n \in 0 .. MaxPage : \E l \in Lists(n) : Threads(n, l) /\ Waits(n, l)
  BY DEF ThreadInv
<1>2. PICK l \in Lists(n) : Threads(n, l) /\ Waits(n, l)
  BY <1>1
<1>3. PICK h : h = header_bytes
  OBVIOUS
<1>4. Wrote(p, d, "write")
  BY <1>3, write_pageDoes DEF write
<1>5. p \in root /\ root' = root /\ \A i \in 1 .. n : l[i] \in Pages \ {p}
  BY <1>2 DEF write, Threads
<1>6. free_head' = free_head /\ page_count' = page_count /\ \A i \in 1 .. n : content(l[i])' = content(l[i])
  BY <1>4, <1>5 DEF Wrote, content
<1>7. Threads(n, l)'
  BY <1>2, <1>5, <1>6 DEF Threads
<1>8. Waits(n, l)'
  BY <1>2, <1>4, <1>5 DEF Waits, Wrote, Threads
<1> QED BY <1>7, <1>8 DEF ThreadInv

\* A page that is neither in use nor free becomes the head of the list.
LEMMA PushThreads ==
  ASSUME NEW n \in 0 .. MaxPage, NEW l \in Lists(n), Threads(n, l), NEW p \in Pages, p \notin root',
         \A i \in 1 .. n : l[i] # p, p < page_count, root' \subseteq root, page_count' = page_count,
         content(p)' = link(free_head), free_head' = p, call' = Nil,
         \A q \in Pages \ {p} : content(q)' = content(q), page_count \in Nat
  PROVE  ThreadInv'
<1>1. PICK m : m = [i \in 1 .. n + 2 |-> IF i = 1 THEN p ELSE l[i - 1]]
  OBVIOUS
<1>2. /\ n \in Nat /\ \A i \in 1 .. n + 2 : i # 1 => i - 1 \in 1 .. n + 1
      /\ \A i \in 1 .. n + 1 : i # 1 => i - 1 \in 1 .. n
  BY PagerAssumption
<1>3. \A i \in 1 .. n : l[i] \in Pages
  BY DEF Threads
<1>4. m[1] = p /\ m[2] = free_head /\ m[n + 2] = 0 /\ \A i \in 1 .. n : m[i + 1] = l[i] /\ m[i + 2] = l[i + 1]
  BY <1>1, <1>2 DEF Threads
<1>5. m \in [1 .. n + 2 -> 0 .. MaxPage]
  <2>1. p \in 0 .. MaxPage
    BY PagerAssumption DEF Pages
  <2> QED BY <1>1, <1>2, <2>1 DEF Lists
<1>6. ASSUME NEW i \in 1 .. n + 1, NEW j \in 1 .. n + 1, m[i] = m[j]
      PROVE  i = j
  <2>1. \A k \in 1 .. n + 1 : k # 1 => k - 1 \in 1 .. n /\ m[k] = l[k - 1]
    BY <1>1, <1>2
  <2>2. CASE i = 1 \/ j = 1
    BY <1>4, <1>6, <2>1, <2>2
  <2>3. CASE i # 1 /\ j # 1
    <3>1. l[i - 1] = l[j - 1]
      BY <1>6, <2>1, <2>3
    <3>2. i - 1 = j - 1
      BY <2>1, <2>3, <3>1 DEF Threads
    <3> QED BY <3>2
  <2> QED BY <2>2, <2>3
<1>7. \A i \in 1 .. n + 1 : m[i] \in Pages
  BY <1>1, <1>2, <1>3
<1>8. n + 1 <= MaxPage
  <2>1. PICK k : k = [i \in 1 .. n + 1 |-> m[i]]
    OBVIOUS
  <2>2. k \in [1 .. n + 1 -> Pages] /\ \A i, j \in 1 .. n + 1 : k[i] = k[j] => i = j
    BY <1>6, <1>7, <2>1
  <2> QED BY <1>2, <2>2, ListsAreShort
<1>9. ASSUME NEW i \in 1 .. n + 1
      PROVE  /\ content(m[i])' = link(m[i + 1]) /\ m[i] < page_count' /\ m[i] \notin root'
  <2>1. CASE i = 1
    BY <1>4, <2>1 DEF content
  <2>2. CASE i # 1
    <3>1. PICK k \in 1 .. n : i = k + 1
      BY <1>2, <2>2
    <3>2. m[i] = l[k] /\ m[i + 1] = l[k + 1]
      BY <1>4, <3>1
    <3>3. l[k] \in Pages \ {p} /\ content(l[k]) = link(l[k + 1]) /\ l[k] < page_count /\ l[k] \notin root
      BY DEF Threads
    <3>4. content(l[k])' = link(l[k + 1])
      BY <3>3
    <3> QED BY <3>2, <3>3, <3>4
  <2> QED BY <2>1, <2>2
<1>10. n + 1 \in 0 .. MaxPage /\ m \in Lists(n + 1) /\ m[(n + 1) + 1] = 0
  BY <1>2, <1>4, <1>5, <1>8 DEF Lists
<1>11. Threads(n + 1, m)'
  BY <1>4, <1>6, <1>7, <1>9, <1>10 DEF Threads
<1>12. Waits(n + 1, m)'
  BY DEF Waits
<1> QED BY <1>10, <1>11, <1>12 DEF ThreadInv

LEMMA freeThreads ==
  ASSUME ThreadInv, Core, used = root, NEW p \in Pages, NEW linked \in BOOLEAN, free(p, linked)
  PROVE  ThreadInv'
<1>1. PICK n \in 0 .. MaxPage : \E l \in Lists(n) : Threads(n, l) /\ Waits(n, l)
  BY DEF ThreadInv
<1>2. PICK l \in Lists(n) : Threads(n, l) /\ Waits(n, l)
  BY <1>1
<1>3. PICK h, old : h = [header_bytes EXCEPT !.root = root', !.doomed = doomed'] /\ old = free_head
  OBVIOUS
<1>4. Wrote(p, link(old), "free")
  BY <1>3, write_pageDoes DEF free
<1>5. p \in root /\ root' = root \ {p} /\ p < page_count /\ page_count \in Nat
  BY <1>2, HeaderFields DEF free, Threads
<1>6. \A i \in 1 .. n : l[i] \in Pages \ {p}
  BY <1>2, <1>5 DEF Threads
<1>7. ASSUME /\ content(p)' = link(old) /\ \A q \in Pages \ {p} : content(q)' = content(q)
             /\ free_head' = p /\ page_count' = page_count /\ call' = Nil
      PROVE  ThreadInv'
  BY <1>2, <1>3, <1>5, <1>6, <1>7, PushThreads
<1>8. ASSUME /\ \A q \in Pages : content(q)' = content(q)
             /\ free_head' = free_head /\ page_count' = page_count
             /\ call' = [page |-> p, data |-> link(old), done |-> "free"]
      PROVE  ThreadInv'
  <2>2. Threads(n, l)'
    BY <1>2, <1>5, <1>8 DEF Threads
  <2>3. Waits(n, l)'
    BY <1>3, <1>5, <1>6, <1>8 DEF Waits
  <2> QED BY <2>2, <2>3 DEF ThreadInv
<1> QED BY <1>4, <1>7, <1>8 DEF Wrote

LEMMA unlinkThreads ==
  ASSUME ThreadInv, Core, NEW p \in Pages, unlink(p)
  PROVE  ThreadInv'
<1>1. PICK n \in 0 .. MaxPage : \E l \in Lists(n) : Threads(n, l) /\ Waits(n, l)
  BY DEF ThreadInv
<1>2. PICK l \in Lists(n) : Threads(n, l) /\ Waits(n, l)
  BY <1>1
<1>3. /\ UNCHANGED <<page_count, free_head, root, call>>
      /\ \A q \in Pages : content(q)' = content(q)
  BY DEF unlink, store, commit, content
<1>4. Threads(n, l)'
  BY <1>2, <1>3 DEF Threads
<1>5. Waits(n, l)'
  BY <1>2, <1>3 DEF Waits
<1> QED BY <1>4, <1>5 DEF ThreadInv

LEMMA alloc_freeThreads ==
  ASSUME ThreadInv, Core, alloc_free
  PROVE  ThreadInv'
<1>1. PICK n \in 0 .. MaxPage : \E l \in Lists(n) : Threads(n, l) /\ Waits(n, l)
  BY DEF ThreadInv
<1>2. PICK l \in Lists(n) : Threads(n, l) /\ Waits(n, l)
  BY <1>1
<1>3. n \in Nat /\ n # 0 /\ 1 \in 1 .. n
  BY <1>2, PagerAssumption DEF Threads, alloc_free
<1>4. PICK p : p = free_head
  OBVIOUS
<1>5. p = l[1] /\ p \in Pages /\ content(p) = link(l[2]) /\ p < page_count /\ l[2] \in 0 .. MaxPage
  BY <1>2, <1>3, <1>4 DEF Threads, Lists
<1>6. PICK e \in {cache} \cup evicted(cache) : cache' = put(e, p, Zero, TRUE)
  BY <1>4 DEF alloc_free
<1>7. \A q \in Pages \ {p} : content(q)' = content(q)
  BY <1>5, <1>6, PutKeepsOthers DEF Core, CacheInv, store, content, alloc_free
<1>8. free_head' = l[2]
  <2>1. next_free(link(l[2])) = {l[2]}
    BY <1>5 DEF next_free, link
  <2>2. free_head' \in next_free(content(p))
    BY <1>4 DEF alloc_free
  <2> QED BY <1>5, <2>1, <2>2
<1>9. root' = root \cup {p} /\ page_count' = page_count /\ call' = Nil
  BY <1>4 DEF alloc_free, commit, Core, FlushInv, idle
<1>10. PICK m : m = [i \in 1 .. n |-> l[i + 1]]
  OBVIOUS
<1>11. /\ n - 1 \in 0 .. MaxPage /\ n = (n - 1) + 1
  BY <1>3, PagerAssumption
<1>12. PICK k \in 0 .. MaxPage : n = k + 1
  BY <1>11
<1>13. /\ k \in Nat /\ m = [i \in 1 .. k + 1 |-> l[i + 1]]
       /\ \A i \in 1 .. k + 1 : i + 1 \in 1 .. n + 1
       /\ \A i \in 1 .. k : i + 1 \in 1 .. n /\ i \in 1 .. k + 1 /\ i + 1 # 1
  BY <1>3, <1>10, <1>12
<1>14. m \in Lists(k)
  BY <1>13 DEF Lists
<1>15. m[1] = l[2] /\ m[k + 1] = 0
  BY <1>2, <1>13, <1>12 DEF Threads
<1>16. ASSUME NEW i \in 1 .. k
       PROVE  /\ m[i] \in Pages /\ content(m[i])' = link(m[i + 1]) /\ m[i] < page_count' /\ m[i] \notin root'
  <2>1. m[i] = l[i + 1] /\ m[i + 1] = l[(i + 1) + 1]
    BY <1>13
  <2>2. /\ l[i + 1] \in Pages /\ content(l[i + 1]) = link(l[(i + 1) + 1])
        /\ l[i + 1] < page_count /\ l[i + 1] \notin root /\ l[i + 1] # p
    BY <1>2, <1>3, <1>5, <1>13 DEF Threads
  <2>3. content(l[i + 1])' = content(l[i + 1])
    BY <1>7, <2>2 DEF content
  <2>4. content(m[i])' = content(l[i + 1])'
    BY <2>1 DEF content
  <2> QED BY <1>9, <2>1, <2>2, <2>3, <2>4
<1>17. \A i, j \in 1 .. k : m[i] = m[j] => i = j
  <2> SUFFICES ASSUME NEW i \in 1 .. k, NEW j \in 1 .. k, m[i] = m[j] PROVE i = j
    OBVIOUS
  <2>1. l[i + 1] = l[j + 1]
    BY <1>13
  <2>2. i + 1 = j + 1
    BY <1>2, <1>13, <2>1 DEF Threads
  <2> QED BY <2>2
<1>18. \A q \in root' : q < page_count'
  BY <1>2, <1>5, <1>9 DEF Threads
<1>19. Threads(k, m)'
  BY <1>8, <1>15, <1>16, <1>17, <1>18 DEF Threads
<1>20. Waits(k, m)'
  BY <1>9 DEF Waits
<1> QED BY <1>14, <1>19, <1>20 DEF ThreadInv

\* With no free page the list is empty, and stays so.
LEMMA NoFreePage ==
  ASSUME NEW n \in 0 .. MaxPage, NEW l \in Lists(n), Threads(n, l), free_head = 0
  PROVE  n = 0
<1>1. 1 \in 1 .. n => l[1] \in Pages
  BY DEF Threads
<1>2. l[1] = 0 /\ 0 \notin Pages
  BY PagerAssumption DEF Threads, Pages
<1>3. 1 \notin 1 .. n
  BY <1>1, <1>2
<1> QED BY <1>3, PagerAssumption

LEMMA alloc_newThreads ==
  ASSUME ThreadInv, Core, alloc_new
  PROVE  ThreadInv'
<1>1. PICK n \in 0 .. MaxPage : \E l \in Lists(n) : Threads(n, l) /\ Waits(n, l)
  BY DEF ThreadInv
<1>2. PICK l \in Lists(n) : Threads(n, l) /\ Waits(n, l)
  BY <1>1
<1>3. n = 0
  BY <1>2, NoFreePage DEF alloc_new
<1>4. PICK p : p = page_count
  OBVIOUS
<1>5. /\ p \in Pages /\ p \in Nat /\ page_count' = p + 1 /\ free_head' = free_head /\ free_head = 0
      /\ root' \subseteq root \cup {p} /\ root \subseteq Pages
  <2>1. p \in Pages /\ page_count' = p + 1 /\ free_head' = free_head /\ free_head = 0 /\ root \subseteq Pages
    BY <1>4, HeaderFields DEF alloc_new
  <2>2. root' \in {root, root \cup {p}}
    BY <1>4 DEF alloc_new
  <2>3. p \in Nat
    BY <2>1, PagerAssumption DEF Pages
  <2> QED BY <2>1, <2>2, <2>3
<1>6. \A q \in root' : q < page_count'
  BY <1>2, <1>4, <1>5 DEF Threads, Pages
<1>7. Threads(n, l)'
  BY <1>2, <1>3, <1>5, <1>6 DEF Threads
<1>8. call' = Nil \/ call' = [page |-> p, data |-> Zero, done |-> "alloc"]
  BY <1>4 DEF alloc_new, commit, Core, FlushInv, idle
<1>9. Waits(n, l)'
  BY <1>5, <1>8 DEF Waits
<1> QED BY <1>7, <1>9 DEF ThreadInv

LEMMA dropThreads ==
  ASSUME ThreadInv, Core, DropDoes
  PROVE  ThreadInv'
<1>1. PICK n \in 0 .. MaxPage : \E l \in Lists(n) : Threads(n, l) /\ Waits(n, l)
  BY DEF ThreadInv
<1>2. PICK l \in Lists(n) : Threads(n, l) /\ Waits(n, l)
  BY <1>1
<1>3. Waits(n, l)' /\ page_count' = page_count /\ page_count \in Nat /\ call' = Nil
  BY HeaderFields DEF Waits, DropDoes
<1>4. CASE call = Nil
  BY <1>2, <1>3, <1>4 DEF DropDoes, Threads, ThreadInv
<1>5. CASE call # Nil
  <2>1. PICK p \in Pages : /\ p = call.page /\ content(p)' = call.data
                           /\ \A q \in Pages \ {p} : content(q)' = content(q)
    BY <1>5 DEF DropDoes
  <2>2. p < page_count /\ call.done \in {"write", "alloc", "free"}
    BY <1>2, <1>5, <2>1 DEF Waits
  <2>3. CASE call.done = "write"
    <3>1. p \in root /\ root' = root /\ free_head' = free_head
      BY <1>2, <1>5, <2>1, <2>3 DEF Waits, DropDoes
    <3>2. \A i \in 1 .. n : l[i] \in Pages \ {p}
      BY <1>2, <3>1 DEF Threads
    <3>3. \A i \in 1 .. n : content(l[i])' = content(l[i])
      BY <2>1, <3>2 DEF content
    <3>4. Threads(n, l)'
      BY <1>2, <1>3, <3>1, <3>3 DEF Threads
    <3> QED BY <1>3, <3>4 DEF ThreadInv
  <2>4. CASE call.done = "alloc"
    <3>1. free_head = 0 /\ root' = root \cup {p} /\ free_head' = free_head
      BY <1>2, <1>5, <2>1, <2>4 DEF Waits, DropDoes
    <3>2. n = 0
      BY <1>2, <3>1, NoFreePage
    <3>3. Threads(n, l)'
      BY <1>2, <1>3, <2>2, <3>1, <3>2 DEF Threads
    <3> QED BY <1>3, <3>3 DEF ThreadInv
  <2>5. CASE call.done = "free"
    <3>1. /\ p \notin root /\ root' = root /\ free_head' = p /\ content(p)' = link(free_head)
          /\ \A i \in 1 .. n : l[i] # p
      BY <1>2, <1>5, <2>1, <2>5 DEF Waits, DropDoes
    <3> QED BY <1>2, <1>3, <2>1, <2>2, <3>1, PushThreads
  <2> QED BY <2>2, <2>3, <2>4, <2>5
<1> QED BY <1>4, <1>5

ListsMatch == \A n \in 0 .. MaxPage : \A l \in Lists(n) : FreeList(Image, n, l) <=> Threads(n, l)
LEMMA ImagesMatch == Core /\ running => ListsMatch
BY ImageThreads DEF ListsMatch
LEMMA ListsMatchAfter == Core' /\ running' => ListsMatch'
BY ImagesMatch, PTL

\* Recovery reads the list of the recovered file.
LEMMA openThreads ==
  ASSUME HasFreeList(Recovered), Core, open, Core', Image' = Recovered
  PROVE  ThreadInv'
<1>1. PICK n \in 0 .. MaxPage : \E l \in Lists(n) : FreeList(Recovered, n, l)
  BY DEF HasFreeList
<1>2. PICK l \in Lists(n) : FreeList(Recovered, n, l)
  BY <1>1
<1>3. FreeList(Image, n, l)'
  BY <1>2 DEF FreeList
<1>4. running' /\ call' = Nil
  BY DEF open, commit, Core, SyncInv, FlushInv
<1>5. ListsMatch'
  BY <1>4, ListsMatchAfter
<1>6. Threads(n, l)'
  BY <1>3, <1>5 DEF ListsMatch
<1>7. Waits(n, l)'
  BY <1>4 DEF Waits
<1> QED BY <1>6, <1>7 DEF ThreadInv

\* The file a crash would leave has a free list, and so has what the pager
\* reads.
ListInv == errors = 0 /\ ~shared => HasFreeList(Recovered) /\ (running => ThreadInv)

LEMMA InitList == Init => ListInv
<1> SUFFICES ASSUME Init PROVE ListInv
  OBVIOUS
<1>1. PICK l : l = [i \in 1 .. 0 + 1 |-> 0]
  OBVIOUS
<1>2. 0 \in 0 .. MaxPage /\ l \in Lists(0) /\ l[1] = 0 /\ l[0 + 1] = 0
  BY <1>1, PagerAssumption DEF Lists
<1>3. Recovered = file /\ file[0] = Empty
  BY <1>2 DEF Init, Recovered, Absent
<1>4. FreeList(Recovered, 0, l)
  BY <1>2, <1>3 DEF FreeList, Empty
<1>5. Threads(0, l) /\ Waits(0, l)
  BY <1>2 DEF Init, Threads, Waits
<1> QED BY <1>2, <1>4, <1>5 DEF ListInv, HasFreeList, ThreadInv

\* While it runs, or recovers, what the pager reads has one.
LEMMA ImageList ==
  ASSUME Core, HasFreeList(Recovered), running => ThreadInv
  PROVE  HasFreeList(Image)
<1>1. CASE running
  BY <1>1, ImageThreads DEF ThreadInv, HasFreeList
<1>2. CASE ~running
  BY <1>2 DEF Image
<1> QED BY <1>1, <1>2

LEMMA StepThreads ==
  ASSUME Core, HasFreeList(Recovered), running => ThreadInv, used = root, Next, ~io_error, running'
  PROVE  ThreadInv'
<1>1. ASSUME NEW p \in Pages,
             unlink(p) \/ read_page(p) \/ (\E linked \in BOOLEAN : free(p, linked)) \/ \E d \in Data : write(p, d)
      PROVE  ThreadInv'
  <2>1. running
    BY <1>1 DEF free, unlink, read_page, write, idle
  <2> QED BY <1>1, <2>1, freeThreads, unlinkThreads, read_pageKeeps, SameThreads, writeThreads
<1>2. ASSUME NEW p \in 0 .. MaxPage, apply(p) \/ replay(p)
      PROVE  ThreadInv'
  <2>1. apply(p) /\ running
    BY <1>2 DEF apply, replay
  <2> QED BY <2>1, applyKeeps, SameThreads
<1>3. ASSUME NEW removed \in BOOLEAN, drop(removed)
      PROVE  ThreadInv'
  <2>1. running
    BY <1>3 DEF drop
  <2> QED BY <1>3, <2>1, dropKeeps, dropThreads
<1>4. ASSUME alloc_free \/ alloc_new
      PROVE  ThreadInv'
  <2>1. running
    BY <1>4 DEF alloc_free, alloc_new, idle
  <2> QED BY <1>4, <2>1, alloc_freeThreads, alloc_newThreads
<1>5. ASSUME flush \/ wal_open \/ wal_write \/ sync
      PROVE  ThreadInv'
  <2>1. running
    BY <1>5 DEF flush, wal_open, wal_write, sync, idle
  <2>2. SameImage
    BY <1>5, flushKeeps, wal_openKeeps, wal_writeKeeps, syncKeeps
  <2> QED BY <2>1, <2>2, SameThreads
<1>6. ASSUME open
      PROVE  ThreadInv'
  <2>1. Core' /\ Atomic!Next /\ ~running
    BY <1>6, openKeeps DEF open
  <2>2. Image' = Image
    BY <2>1 DEF Atomic!Next, Atomic!Commit, Atomic!Modify, Atomic!Crash, Atomic!Recover
  <2>3. Image = Recovered
    BY <2>1 DEF Image
  <2> QED BY <1>6, <2>1, <2>2, <2>3, openThreads
<1>7. ~crash
  BY DEF crash
<1> QED BY <1>1, <1>2, <1>3, <1>4, <1>5, <1>6, <1>7 DEF Next

LEMMA NextKeepsList ==
  ASSUME PagerInv, ListInv, [Next]_vars
  PROVE  ListInv'
<1> SUFFICES ASSUME errors' = 0, ~shared'
             PROVE  HasFreeList(Recovered') /\ (running' => ThreadInv')
  BY DEF ListInv, HasFreeList
<1>1. errors = 0 /\ (Next => ~io_error)
  BY ErrorsGrow DEF PagerInv
<1>0. ~shared
  BY DEF Next, flush, alloc_free, alloc_new, free, unlink, read_page, write, wal_open, wal_write, sync,
     io_error, crash, open, apply, replay, drop, vars
<1>2. Core /\ HasFreeList(Recovered) /\ (running => ThreadInv) /\ used = root
  BY <1>0, <1>1 DEF PagerInv, ListInv, used
<1>3. CASE Next
  <2>1. Atomic!Next \/ UNCHANGED <<Image, Recovered, running>>
    BY <1>1, <1>2, <1>3, StepKeeps
  <2>2. Recovered' \in {Recovered, Image}
    BY <2>1 DEF Atomic!Next, Atomic!Commit, Atomic!Modify, Atomic!Crash, Atomic!Recover
  <2>3. HasFreeList(Image)
    BY <1>2, ImageList
  <2>4. HasFreeList(Recovered')
    BY <1>2, <2>2, <2>3
  <2>5. running' => ThreadInv'
    BY <1>1, <1>2, <1>3, StepThreads
  <2> QED BY <2>4, <2>5
<1>4. CASE UNCHANGED vars
  <2>1. UNCHANGED <<Recovered, running>> /\ SameImage
    BY <1>4 DEF vars, store, header, commit, Recovered, header_bytes, content, SameImage
  <2> QED BY <1>2, <2>1, SameThreads
<1> QED BY <1>3, <1>4

-----------------------------------------------------------------------------
(* Types, after errors too.                                                *)

Contents == Data \cup {Zero, Nil} \cup {link(p) : p \in 0 .. MaxPage}
IsBatch(b) ==
  /\ DOMAIN b \subseteq 0 .. MaxPage /\ 0 \in DOMAIN b /\ b[0] \in Headers
  /\ \A p \in DOMAIN b : p # 0 => b[p] \in Contents
TypedCache(c) ==
  /\ DOMAIN c \subseteq Pages
  /\ \A p \in DOMAIN c : /\ c[p] = [data |-> c[p].data, dirty |-> c[p].dirty]
                         /\ c[p].data \in Contents
TypedFiles ==
  /\ IsBatch(file) /\ IsBatch(disk) /\ DOMAIN file = 0 .. MaxPage /\ DOMAIN disk = 0 .. MaxPage
  /\ wal = Absent \/ wal = Torn \/ (wal = Complete(wal.batch) /\ IsBatch(wal.batch))
TypedMemory ==
  /\ header_bytes \in Headers /\ TypedCache(cache)
  /\ call # Nil => call.page \in Pages /\ call.data \in Contents
TypedFlush ==
  /\ pc \in {"idle", "wal", "apply", "drop"} /\ (pc # "idle" => IsBatch(batch))
  /\ applied \subseteq DOMAIN batch
TypeInv ==
  /\ TypedFiles /\ TypedMemory /\ TypedFlush
  /\ running \in BOOLEAN /\ errors \in Nat /\ shared \in BOOLEAN

LEMMA TypesHold == TypeInv => TypeOK
<1> SUFFICES ASSUME TypeInv PROVE TypeOK
  OBVIOUS
<1>1. page_count \in 1 .. MaxPage + 1 /\ free_head \in 0 .. MaxPage /\ root \subseteq Pages /\ doomed \subseteq Pages
  BY DEF TypeInv, TypedMemory, Headers, header_bytes
<1>2. \A p \in Pages : p \in 0 .. MaxPage /\ p # 0
  BY PagerAssumption DEF Pages
<1>3. \A p \in Pages : file[p] \in Contents /\ disk[p] \in Contents
  BY <1>2 DEF TypeInv, TypedFiles, IsBatch
<1>4. DOMAIN cache \subseteq Pages /\ \A p \in DOMAIN cache : cache[p].data \in Contents
  BY DEF TypeInv, TypedMemory, TypedCache
<1> QED BY <1>1, <1>3, <1>4 DEF TypeOK, TypeInv, TypedFlush, Contents

LEMMA PutTyped ==
  ASSUME NEW c, TypedCache(c), NEW e \in {c} \cup evicted(c), NEW p \in Pages, NEW data \in Contents, NEW d
  PROVE  TypedCache(put(e, p, data, d))
<1>1. DOMAIN e \subseteq DOMAIN c /\ \A q \in DOMAIN e : e[q] = c[q]
  BY EvictedIsClean
<1> QED BY <1>1 DEF TypedCache, put

LEMMA FlushTyped ==
  ASSUME TypedMemory, NEW h \in Headers, begin_flush(h)
  PROVE  TypedFlush'
<1>1. DOMAIN batch' = dirty \cup {0} /\ batch'[0] = h /\ \A p \in DOMAIN batch' : p # 0 => batch'[p] = cache[p].data
  BY DEF begin_flush
<1>2. dirty \subseteq 0 .. MaxPage /\ 0 \in 0 .. MaxPage /\ \A p \in dirty : cache[p].data \in Contents
  BY PagerAssumption DEF TypedMemory, TypedCache, dirty, Pages
<1>3. IsBatch(batch')
  BY <1>1, <1>2 DEF IsBatch
<1> QED BY <1>3 DEF TypedFlush, begin_flush

LEMMA write_pageTyped ==
  ASSUME TypedMemory, TypedFlush, NEW p \in Pages, NEW data \in Contents, NEW done, NEW h \in Headers,
         root' \subseteq Pages, doomed' \subseteq Pages, write_page(p, data, done, h)
  PROVE  TypedMemory' /\ TypedFlush'
<1>1. page_count \in 1 .. MaxPage + 1 /\ free_head \in 0 .. MaxPage /\ p \in 0 .. MaxPage
  BY PagerAssumption DEF TypedMemory, Headers, header_bytes, Pages
<1>2. page_count' = page_count /\ free_head' \in {free_head, p}
  BY DEF write_page
<1>3. header_bytes' \in Headers
  BY <1>1, <1>2 DEF header_bytes, Headers
<1>4. CASE p \in DOMAIN cache \/ Cardinality(DOMAIN cache) < capacity \/ DOMAIN cache # dirty
  <2>1. PICK e \in {cache} \cup evicted(cache) : cache' = put(e, p, data, TRUE)
    BY <1>4 DEF write_page
  <2>2. TypedCache(cache')
    BY <2>1, PutTyped DEF TypedMemory
  <2>3. UNCHANGED commit
    BY <1>4 DEF write_page
  <2> QED BY <1>3, <2>2, <2>3 DEF TypedMemory, TypedFlush, commit
<1>5. CASE ~(p \in DOMAIN cache \/ Cardinality(DOMAIN cache) < capacity \/ DOMAIN cache # dirty)
  <2>1. /\ call' = [page |-> p, data |-> data, done |-> done] /\ begin_flush(h) /\ UNCHANGED cache
    BY <1>5 DEF write_page
  <2>2. TypedMemory'
    BY <1>3, <2>1 DEF TypedMemory, TypedCache
  <2> QED BY <2>1, <2>2, FlushTyped
<1> QED BY <1>4, <1>5

LEMMA ClientTyped ==
  ASSUME TypeInv, NEW p \in Pages, unlink(p) \/ (\E linked \in BOOLEAN : free(p, linked)) \/ read_page(p) \/ \E d \in Data : write(p, d)
  PROVE  TypeInv'
<1>1. UNCHANGED store /\ running' = running /\ errors' = errors /\ shared' = shared
  BY DEF unlink, free, read_page, write
<1>2. TypedFiles'
  BY <1>1 DEF store, TypeInv, TypedFiles
<1>3. page_count \in 1 .. MaxPage + 1 /\ free_head \in 0 .. MaxPage /\ root \subseteq Pages /\ doomed \subseteq Pages /\ p \in 0 .. MaxPage /\ p # 0
  BY PagerAssumption DEF TypeInv, TypedMemory, Headers, header_bytes, Pages
<1>4. CASE \E linked \in BOOLEAN : free(p, linked)
  <2>5. PICK linked \in BOOLEAN : free(p, linked)
    BY <1>4
  <2>6. root' = root \ {p} /\ doomed' \in {doomed \cup {p}, doomed \ {p}}
    BY <2>5 DEF free
  <2>7. root' \subseteq Pages /\ doomed' \subseteq Pages
    BY <1>3, <2>6
  <2>1. PICK h, l : h = [header_bytes EXCEPT !.root = root', !.doomed = doomed'] /\ l = link(free_head)
    OBVIOUS
  <2>2. h = [page_count |-> page_count, free_head |-> free_head, root |-> root', doomed |-> doomed']
    BY <2>1 DEF header_bytes
  <2>3. h \in Headers /\ l \in Contents
    <3>1. h \in Headers
      BY <1>3, <2>2, <2>7 DEF Headers
    <3>2. l \in {link(q) : q \in 0 .. MaxPage}
      BY <1>3, <2>1
    <3> QED BY <3>1, <3>2 DEF Contents
  <2>4. write_page(p, l, "free", h)
    BY <2>5, <2>1 DEF free
  <2> QED BY <1>1, <1>2, <2>3, <2>4, <2>7, write_pageTyped DEF TypeInv
<1>5. CASE read_page(p)
  <2>1. PICK data : data = file[p]
    OBVIOUS
  <2>2. data \in Contents
    BY <1>3, <2>1 DEF TypeInv, TypedFiles, IsBatch
  <2>3. PICK e \in {cache} \cup evicted(cache) : cache' = put(e, p, data, FALSE)
    BY <1>5, <2>1 DEF read_page
  <2>4. TypedCache(cache')
    BY <2>2, <2>3, PutTyped DEF TypeInv, TypedMemory
  <2>5. UNCHANGED <<header_bytes, commit>>
    BY <1>5 DEF read_page, header, header_bytes
  <2> QED BY <1>1, <1>2, <2>4, <2>5 DEF TypeInv, TypedMemory, TypedFlush, commit
<1>6. CASE \E d \in Data : write(p, d)
  <2>1. PICK d \in Data : write(p, d)
    BY <1>6
  <2>2. PICK h : h = header_bytes
    OBVIOUS
  <2>3. h \in Headers /\ d \in Contents /\ write_page(p, d, "write", h) /\ root' \subseteq Pages /\ doomed' \subseteq Pages
    BY <1>3, <2>1, <2>2 DEF write, TypeInv, TypedMemory, Contents
  <2> QED BY <1>1, <1>2, <2>3, write_pageTyped DEF TypeInv
<1>7. CASE unlink(p)
  <2>1. header_bytes' \in Headers
    BY <1>3, <1>7 DEF unlink, header_bytes, Headers
  <2> QED BY <1>1, <1>2, <1>7, <2>1 DEF unlink, TypeInv, TypedMemory, TypedFlush, TypedCache, commit
<1> QED BY <1>4, <1>5, <1>6, <1>7

LEMMA AllocTyped ==
  ASSUME TypeInv, alloc_free \/ alloc_new
  PROVE  TypeInv'
<1>1. UNCHANGED store /\ running' = running /\ errors' = errors /\ shared' = shared
  BY DEF alloc_free, alloc_new
<1>2. TypedFiles'
  BY <1>1 DEF store, TypeInv, TypedFiles
<1>3. /\ page_count \in 1 .. MaxPage + 1 /\ free_head \in 0 .. MaxPage /\ root \subseteq Pages
      /\ doomed \subseteq Pages /\ Zero \in Contents
  BY DEF TypeInv, TypedMemory, Headers, header_bytes, Contents
<1>4. CASE alloc_free
  <2>1. PICK p : p = free_head
    OBVIOUS
  <2>2. p \in Pages
    BY <1>3, <1>4, <2>1, PagerAssumption DEF alloc_free, Pages
  <2>3. PICK e \in {cache} \cup evicted(cache) : cache' = put(e, p, Zero, TRUE)
    BY <1>4, <2>1 DEF alloc_free
  <2>4. TypedCache(cache')
    BY <1>3, <2>2, <2>3, PutTyped DEF TypeInv, TypedMemory
  <2>5. \A data : next_free(data) \subseteq 0 .. MaxPage
    BY PagerAssumption DEF next_free, link, Pages
  <2>6. header_bytes' \in Headers
    BY <1>3, <1>4, <2>1, <2>2, <2>5 DEF alloc_free, header_bytes, Headers
  <2> QED BY <1>1, <1>2, <1>4, <2>4, <2>6 DEF TypeInv, TypedMemory, TypedFlush, commit, alloc_free
<1>5. CASE alloc_new
  <2>1. PICK p : p = page_count
    OBVIOUS
  <2>2. p \in Pages /\ p + 1 \in 1 .. MaxPage + 1
    BY <1>3, <1>5, <2>1, PagerAssumption DEF alloc_new, Pages
  <2>3. page_count' = p + 1 /\ free_head' = free_head /\ root' \subseteq Pages /\ doomed' = doomed
    BY <1>3, <1>5, <2>1, <2>2 DEF alloc_new
  <2>4. header_bytes' \in Headers
    BY <1>3, <2>2, <2>3 DEF header_bytes, Headers
  <2>5. CASE Cardinality(DOMAIN cache) < capacity \/ DOMAIN cache # dirty
    <3>1. PICK e \in {cache} \cup evicted(cache) : cache' = put(e, p, Zero, TRUE)
      BY <1>5, <2>1, <2>5 DEF alloc_new
    <3>2. TypedCache(cache')
      BY <1>3, <2>2, <3>1, PutTyped DEF TypeInv, TypedMemory
    <3> QED BY <1>1, <1>2, <1>5, <2>4, <2>5, <3>2 DEF TypeInv, TypedMemory, TypedFlush, commit, alloc_new
  <2>6. CASE ~(Cardinality(DOMAIN cache) < capacity \/ DOMAIN cache # dirty)
    <3>1. PICK h : h = [header_bytes EXCEPT !.page_count = page_count + 1]
      OBVIOUS
    <3>2. h = [page_count |-> p + 1, free_head |-> free_head, root |-> root, doomed |-> doomed]
      BY <2>1, <3>1 DEF header_bytes
    <3>3. h \in Headers
      BY <1>3, <2>2, <3>2 DEF Headers
    <3>4. call' = [page |-> p, data |-> Zero, done |-> "alloc"] /\ begin_flush(h) /\ UNCHANGED cache
      BY <1>5, <2>1, <2>6, <3>1 DEF alloc_new
    <3>5. TypedFlush'
      BY <3>3, <3>4, FlushTyped DEF TypeInv
    <3>6. TypedMemory'
      BY <1>3, <2>2, <2>4, <3>4 DEF TypeInv, TypedMemory, TypedCache
    <3> QED BY <1>1, <1>2, <3>5, <3>6 DEF TypeInv
  <2> QED BY <2>5, <2>6
<1> QED BY <1>4, <1>5

LEMMA WriteTyped ==
  ASSUME TypeInv, NEW p \in 0 .. MaxPage, NEW b, IsBatch(b), p \in DOMAIN b, file' = [file EXCEPT ![p] = b[p]],
         UNCHANGED <<disk, wal>>
  PROVE  TypedFiles'
<1>1. DOMAIN file' = 0 .. MaxPage /\ \A q \in 0 .. MaxPage : file'[q] = IF q = p THEN b[q] ELSE file[q]
  BY DEF TypeInv, TypedFiles
<1>2. IsBatch(file')
  BY <1>1, PagerAssumption DEF TypeInv, TypedFiles, IsBatch
<1> QED BY <1>1, <1>2 DEF TypeInv, TypedFiles

LEMMA dropTyped ==
  ASSUME TypeInv, NEW removed \in BOOLEAN, drop(removed)
  PROVE  TypeInv'
<1>1. PICK clean : clean = [p \in DOMAIN cache |-> [cache[p] EXCEPT !.dirty = FALSE]]
  OBVIOUS
<1>2. /\ pc' = "idle" /\ applied' = {} /\ call' = Nil /\ wal' = IF removed THEN Absent ELSE wal
      /\ UNCHANGED <<file, disk, running, page_count, doomed, errors, shared>>
  BY DEF drop
<1>3. TypedCache(clean)
  <2>1. DOMAIN clean = DOMAIN cache /\ DOMAIN cache \subseteq Pages
    BY <1>1 DEF TypeInv, TypedMemory, TypedCache
  <2>2. ASSUME NEW p \in DOMAIN clean
        PROVE  /\ clean[p] = [data |-> clean[p].data, dirty |-> clean[p].dirty]
               /\ clean[p].data \in Contents
    <3>1. PICK r, data, d, v : r = cache[p] /\ data = cache[p].data /\ d = cache[p].dirty /\ v = FALSE
      OBVIOUS
    <3>2. r = [data |-> data, dirty |-> d] /\ data \in Contents
      BY <2>1, <3>1 DEF TypeInv, TypedMemory, TypedCache
    <3>3. [r EXCEPT !.dirty = v] = [data |-> data, dirty |-> v]
      BY <3>2, CleanRecord
    <3>4. clean[p] = [data |-> data, dirty |-> v]
      BY <1>1, <2>1, <3>1, <3>3
    <3> QED BY <3>2, <3>4
  <2> QED BY <2>1, <2>2 DEF TypedCache
<1>4. page_count \in 1 .. MaxPage + 1 /\ free_head \in 0 .. MaxPage /\ root \subseteq Pages /\ doomed \subseteq Pages /\ Pages \subseteq 0 .. MaxPage
  BY PagerAssumption DEF TypeInv, TypedMemory, Headers, header_bytes, Pages
<1>5. TypedCache(cache') /\ free_head' \in 0 .. MaxPage /\ root' \subseteq Pages
  <2>1. CASE call = Nil
    BY <1>1, <1>3, <1>4, <2>1 DEF drop
  <2>2. CASE call # Nil
    <3>1. PICK p, data : p = call.page /\ data = call.data
      OBVIOUS
    <3>2. p \in Pages /\ data \in Contents
      BY <2>2, <3>1 DEF TypeInv, TypedMemory
    <3>3. PICK e \in {clean} \cup evicted(clean) : cache' = put(e, p, data, TRUE)
      BY <1>1, <2>2, <3>1 DEF drop
    <3>4. TypedCache(cache')
      BY <1>3, <3>2, <3>3, PutTyped
    <3>5. free_head' \in {free_head, p} /\ root' \in {root, root \cup {p}}
      BY <2>2, <3>1 DEF drop
    <3> QED BY <1>4, <3>2, <3>4, <3>5
  <2> QED BY <2>1, <2>2
<1>6. TypedMemory'
  BY <1>2, <1>4, <1>5 DEF TypedMemory, header_bytes, Headers
<1>7. TypedFiles' /\ TypedFlush'
  BY <1>2 DEF TypeInv, TypedFiles, TypedFlush
<1> QED BY <1>2, <1>6, <1>7 DEF TypeInv

LEMMA crashTyped ==
  ASSUME TypeInv, crash
  PROVE  TypeInv'
<1>1. PICK kept \in SUBSET {p \in DOMAIN file : file[p] # disk[p]} :
        disk' = [p \in DOMAIN disk |-> IF p \in kept THEN file[p] ELSE disk[p]]
  BY DEF crash
<1>2. /\ running' = FALSE /\ file' = disk' /\ cache' = << >> /\ pc' = "idle" /\ call' = Nil /\ applied' = {}
      /\ page_count' = 1 /\ free_head' = 0 /\ root' = {} /\ doomed' = {} /\ errors' = errors /\ shared' = shared
      /\ IF pc = "wal" /\ wal = Torn THEN wal' \in {Torn, Complete(batch)} ELSE wal' = wal
  BY DEF crash
<1>3. DOMAIN disk' = 0 .. MaxPage /\ IsBatch(disk')
  BY <1>1 DEF TypeInv, TypedFiles, IsBatch
<1>4. wal' = Absent \/ wal' = Torn \/ (wal' = Complete(wal'.batch) /\ IsBatch(wal'.batch))
  <2>1. CASE wal' = Complete(batch) /\ pc = "wal"
    <3>1. wal'.batch = batch /\ IsBatch(batch)
      BY <2>1 DEF TypeInv, TypedFlush, Complete
    <3> QED BY <2>1, <3>1
  <2>2. CASE wal' = wal
    BY <2>2 DEF TypeInv, TypedFiles
  <2> QED BY <1>2, <2>1, <2>2
<1>5. TypedFiles'
  BY <1>2, <1>3, <1>4 DEF TypedFiles
<1>6. TypedMemory' /\ TypedFlush'
  BY <1>2, PagerAssumption DEF TypedMemory, TypedCache, TypedFlush, header_bytes, Headers
<1> QED BY <1>2, <1>5, <1>6 DEF TypeInv

LEMMA NextKeepsTypes == TypeInv /\ [Next]_vars => TypeInv'
<1> SUFFICES ASSUME TypeInv, [Next]_vars PROVE TypeInv'
  OBVIOUS
<1>1. ASSUME flush PROVE TypeInv'
  <2>1. PICK h : h = header_bytes
    OBVIOUS
  <2>2. TypedFlush'
    BY <1>1, <2>1, FlushTyped DEF flush, TypeInv, TypedMemory
  <2> QED BY <1>1, <2>2 DEF flush, TypeInv, TypedFiles, TypedMemory, store, header, header_bytes
<1>2. ASSUME wal_open \/ wal_write PROVE TypeInv'
  <2>1. wal' = Torn \/ (wal' = Complete(wal'.batch) /\ IsBatch(wal'.batch))
    <3>1. CASE wal_write
      <4>1. wal' = Complete(batch) /\ IsBatch(batch)
        BY <3>1 DEF wal_write, TypeInv, TypedFlush
      <4>2. wal'.batch = batch
        BY <4>1 DEF Complete
      <4> QED BY <4>1, <4>2
    <3> QED BY <1>2, <3>1 DEF wal_open
  <2>2. /\ UNCHANGED <<file, disk, running, cache, batch, applied, call, errors, shared, header_bytes>>
        /\ pc' \in {pc, "apply"} /\ pc = "wal"
    BY <1>2 DEF wal_open, wal_write, commit, header, header_bytes
  <2> QED BY <2>1, <2>2 DEF TypeInv, TypedFiles, TypedMemory, TypedFlush
<1>3. ASSUME sync PROVE TypeInv'
  BY <1>3 DEF sync, TypeInv, TypedFiles, TypedMemory, TypedFlush, header, header_bytes
<1>4. ASSUME io_error PROVE TypeInv'
  BY <1>4 DEF io_error, TypeInv, TypedFiles, TypedMemory, TypedFlush, store, header, header_bytes
<1>5. ASSUME open PROVE TypeInv'
  <2>1. file[0] \in Headers /\ header_bytes' = file[0]
    BY <1>5 DEF open, TypeInv, TypedFiles, IsBatch, header_bytes, Headers
  <2> QED BY <1>5, <2>1 DEF open, TypeInv, TypedFiles, TypedMemory, TypedFlush, commit
<1>6. ASSUME NEW p \in 0 .. MaxPage, apply(p) PROVE TypeInv'
  <2>1. PICK b : b = batch
    OBVIOUS
  <2>2. TypedFiles'
    BY <1>6, <2>1, WriteTyped DEF apply, TypeInv, TypedFlush
  <2>3. TypedFlush' /\ TypedMemory'
    BY <1>6 DEF apply, TypeInv, TypedFlush, TypedMemory, header, header_bytes
  <2> QED BY <1>6, <2>2, <2>3 DEF apply, TypeInv
<1>7. ASSUME NEW p \in 0 .. MaxPage, replay(p) PROVE TypeInv'
  <2>1. PICK b : b = wal.batch
    OBVIOUS
  <2>2. IsBatch(b)
    BY <1>7, <2>1 DEF replay, TypeInv, TypedFiles, Absent, Torn
  <2>3. TypedFiles'
    BY <1>7, <2>1, <2>2, WriteTyped DEF replay
  <2>4. TypedFlush' /\ TypedMemory'
    BY <1>7 DEF replay, TypeInv, TypedFlush, TypedMemory, header, header_bytes, commit
  <2> QED BY <1>7, <2>3, <2>4 DEF replay, TypeInv
<1>8. ASSUME UNCHANGED vars PROVE TypeInv'
  BY <1>8 DEF vars, store, header, commit, TypeInv, TypedFiles, TypedMemory, TypedFlush, header_bytes
<1> QED BY <1>1, <1>2, <1>3, <1>4, <1>5, <1>6, <1>7, <1>8, ClientTyped, AllocTyped, dropTyped, crashTyped DEF Next

LEMMA InitTypes == Init => TypeInv
<1> SUFFICES ASSUME Init PROVE TypeInv
  OBVIOUS
<1>1. DOMAIN file = 0 .. MaxPage /\ file[0] = Empty /\ \A p \in 0 .. MaxPage : p # 0 => file[p] = Nil
  BY PagerAssumption DEF Init
<1>2. Empty \in Headers /\ header_bytes = Empty /\ 0 \in 0 .. MaxPage
  BY PagerAssumption DEF Init, Empty, Headers, header_bytes
<1>3. IsBatch(file)
  BY <1>1, <1>2 DEF IsBatch, Contents
<1>4. TypedFiles
  BY <1>1, <1>3 DEF Init, TypedFiles
<1>5. TypedMemory /\ TypedFlush
  BY <1>2 DEF Init, TypedMemory, TypedCache, TypedFlush
<1> QED BY <1>4, <1>5 DEF Init, TypeInv

\* In any file a crash can leave, the free list ends, holds distinct pages that
\* the file covers and none that the client uses, but for those that the cut
\* operation had freed and not yet unlinked, however alloc, free and the unlink
\* after it are cut by evictions and crashes.
THEOREM FreeListSafety == Spec => []FreeListIsSound
<1>1. Spec => []TypeInv
  BY InitTypes, NextKeepsTypes, PTL DEF Spec
<1>2. PagerInv /\ ListInv /\ [Next]_vars => ListInv'
  BY NextKeepsList
<1>3. Spec => []ListInv
  BY <1>2, InitList, LogInvariant, PTL DEF Spec
<1>4. TypeInv /\ ListInv => FreeListIsSound
  BY TypesHold DEF ListInv, FreeListIsSound, HasFreeList, Lists
<1> QED BY <1>1, <1>3, <1>4, PTL

=============================================================================
