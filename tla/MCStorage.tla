----------------------------- MODULE MCStorage -----------------------------
(***************************************************************************)
(* The page file and what is built of pages, each on an instance of its    *)
(* own: a behaviour is one of the pager, of a B+ tree, of the value files  *)
(* in one file, of the string index, of the disk store, or of saving a     *)
(* database. The tree has pages of the real size, 4096 bytes, and keys of  *)
(* 2000: a page holds two entries, so five keys make splits, borrows and   *)
(* merges at every level. Two entities, a predicate and a literal give the *)
(* disk store six triples: a subject or an object shared by several, the   *)
(* same number for a literal and an entity, and the first and last triple  *)
(* of a (sub, pred) group.                                                 *)
(***************************************************************************)
EXTENDS Pager, Sequences, TLC

CONSTANTS v1, None, q1, q2, q3, q0,
          Entities, PredTerms, Literals, LITERAL_FIRST_ID, MaxOps   \* DiskStore

VARIABLES part,                                    \* the part that runs
          pages, tree_root, contents, panicked,    \* BPlusTree
          values_file, record, ints, strs, list, changes,  \* ValueFiles
          by_id, trigrams, ordered,                \* ValueFiles, its string index
          dir, db, next, saves,                    \* SaveLoad
          mem, kv, disk_dict, todo, op, reply, ops, expected, kept, halfway, torn_file  \* DiskStore
treeVars == <<pages, tree_root, contents, panicked>>
valueVars == <<values_file, record, ints, strs, list, changes>>
indexVars == <<by_id, trigrams, ordered>>
saveVars == <<dir, db, next, saves>>
diskVars == <<mem, kv, disk_dict, todo, op, reply, ops, expected, kept, halfway, torn_file>>

TreeKeys == 1 .. 5
Tree == INSTANCE BPlusTree WITH
  Keys <- TreeKeys, Values <- {v1}, KeyLen <- [k \in TreeKeys |-> 2000], ValLen <- [v \in {v1} |-> 4],
  PAGE_SIZE <- 4096, MaxPages <- 12, root <- tree_root

\* Keys 6 and 8 lie in the last directory and beyond the tables; both strings
\* have one bucket; both values and lists are one of each kind of record.
Vals == INSTANCE ValueFiles WITH
  SLOTS_PER_DIR <- 2, PT_FANOUT <- 2, INLINE_CAP <- 2, MAX_INLINE_VLIST_BYTES <- 3, CHAIN_PAYLOAD <- 3,
  BITS <- 2, WIDTH <- 5, NUM_BUCKETS <- 2, FNV_BASIS <- 5, FNV_PRIME <- 3,
  IntKeys <- {0, 6, 8}, StrKeys <- {<<1>>, <<2, 1>>}, Values <- {<<1>>, <<5, 6, 7, 0>>},
  Lists <- {<<31>>, <<0, 3, 20, 31>>}, MaxChanges <- 5, file <- values_file,
  GRAM <- 2, StringIds <- 1..2, Strings <- {<< >>, <<1>>, <<1, 2>>, <<2, 1, 2>>, <<1, 2, 1, 1>>},
  Needles <- {<< >>, <<1>>, <<2>>, <<1, 2>>, <<2, 1>>, <<1, 2, 1>>}

\* Databases an update can lead from one to the other: a triple moved to a
\* named graph, replaced, added or removed, with what it interns.
Saved == {[dict |-> {q1, q2, q0}, store |-> {q1}, named |-> {}],
          [dict |-> {q1, q2, q0}, store |-> {q2}, named |-> {q1}],
          [dict |-> {q1}, store |-> {q1}, named |-> {}],
          [dict |-> {}, store |-> {}, named |-> {}],
          [dict |-> {q1, q2, q3, q0}, store |-> {q1, q2}, named |-> {q3}]}
Save == INSTANCE SaveLoad WITH Snapshots <- Saved, MaxSaves <- 2

Disk == INSTANCE DiskStore WITH disk <- kv, torn <- torn_file

\* The assumptions of the instances, for these constants.
ASSUME InstanceAssumptions == Tree!KeysAssumption /\ Tree!SizesAssumption /\ Save!SaveAssumption

Parts == {"pager", "tree", "values", "index", "save", "disk"}
allVars == <<part, vars, treeVars, valueVars, indexVars, saveVars, diskVars>>
StorageInit ==
  /\ part \in Parts
  /\ Init /\ Tree!Init /\ Vals!ValuesInit /\ Vals!IndexInit /\ Save!Init /\ Disk!Init
  /\ part # "disk" => kv = Disk!Fresh
StorageNext ==
  /\ UNCHANGED part
  /\ \/ part = "pager" /\ Next /\ UNCHANGED <<treeVars, valueVars, indexVars, saveVars, diskVars>>
     \/ part = "tree" /\ Tree!Next /\ UNCHANGED <<vars, valueVars, indexVars, saveVars, diskVars>>
     \/ part = "values" /\ Vals!ValuesNext /\ UNCHANGED <<vars, treeVars, indexVars, saveVars, diskVars>>
     \/ part = "index" /\ Vals!IndexNext /\ UNCHANGED <<vars, treeVars, valueVars, saveVars, diskVars>>
     \/ part = "save" /\ Save!Next /\ UNCHANGED <<vars, treeVars, valueVars, indexVars, diskVars>>
     \/ part = "disk" /\ Disk!Next /\ UNCHANGED <<vars, treeVars, valueVars, indexVars, saveVars>>
StorageSpec == StorageInit /\ [][StorageNext]_allVars

-----------------------------------------------------------------------------
\* The tree is a search tree whose pages are neither shared nor lost, and get
\* and the prefix reads see what was inserted and not deleted.
TreeAgrees == part = "tree" => Tree!WellFormed /\ Tree!NoPageLeaksOrIsShared /\ Tree!ReadsAgree

\* The arrays and value lists return what was put in them, and each page of
\* their file has one owner or is free.
ValueFilesAgree == part = "values" => Vals!ValuesAgree /\ Vals!ValuePagesAreOwned

\* Substring and prefix searches agree with a scan of the strings.
StringIndexAgrees == part = "index" => Vals!IndexAgrees

\* What the tree and the files beside it give back is what was put in them
\* (BPlusTree, IvArray, IsArray, the VList coding, StringIndex), and no page is
\* lost or shared.
IndexFilesAgree == TreeAgrees /\ ValueFilesAgree /\ StringIndexAgrees

\* A load after a save that returned gives the database saved; what a load
\* accepts after the first save, finished or not, is the database it saved.
LoadsAreSnapshots == [](part = "save" => Save!LoadIsASnapshot) /\ Save!SaveRoundTrips

\* The disk store's key orders, VList index, degrees and maintained statistics
\* agree with its triples, which are the ones inserted and not deleted, or those
\* of the last flush after a crash. Its dictionary, the strings that queries
\* kept, and the memory image that load_disk makes name the same terms, after
\* reclamation too.
DiskStoreAgrees ==
  part = "disk" => Disk!ReadsAgree /\ Disk!HoldsWhatWasWritten /\ Disk!DictionariesAgree

-----------------------------------------------------------------------------
\* No property says anything of what follows a crash in a half-done flush of the
\* disk store. Of what follows an error of the pager's, or the recovery of a file
\* that links a page being freed, they say types and atomic flushes only, which
\* PagerProofs proves.
Whole == ~torn_file /\ errors = 0 /\ ~shared
Sym == Permutations(Entities)
=============================================================================
