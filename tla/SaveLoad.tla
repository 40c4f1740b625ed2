------------------------------ MODULE SaveLoad ------------------------------
(***************************************************************************)
(* src/db/mod.rs: Database::save and Database::load of the in-memory       *)
(* backend. A save overwrites the files of the directory one after the     *)
(* other; a crash may stop it at any point, and a load may come at any     *)
(* point. A file is absent, torn (created and not yet written) or holds a  *)
(* value; bincode fails on an absent or torn one.                          *)
(***************************************************************************)
EXTENDS Naturals, Sequences, FiniteSets

CONSTANTS
  Snapshots,  \* databases that get saved: [dict, store, named], each a set
  Nil,
  MaxSaves    \* bound: saves into the directory

SaveAssumption == Nil \notin Snapshots /\ MaxSaves \in Nat

Absent == [file |-> "absent"]
Torn == [file |-> "torn"]
Written(v) == [file |-> "written", value |-> v]
Files == <<"dict", "store", "named", "meta", "vstree">>

VARIABLES
  dir,      \* file name -> file
  db,       \* the database being saved, or Nil
  next,     \* the file that save() writes next
  saves     \* saves started

vars == <<dir, db, next, saves>>

Init ==
  /\ dir = [f \in {Files[i] : i \in DOMAIN Files} |-> Absent]
  /\ db = Nil /\ next = 1 /\ saves = 0

meta_of(s) == [triple_num |-> Cardinality(s.store), entity_num |-> Cardinality(s.dict)]
\* The index is built from the store: its value stands for the signatures.
build_vstree(store) == store
\* What save() writes to a file.
value_of(s, f) ==
  CASE f = "meta" -> meta_of(s)
    [] f = "vstree" -> build_vstree(s.store)
    [] OTHER -> s[f]

save(s) ==
  /\ db = Nil /\ saves < MaxSaves
  /\ db' = s /\ next' = 1 /\ saves' = saves + 1
  /\ UNCHANGED dir
\* The files in the order they are written.
\* Faulty: the metadata is written before the other files.
write_order_meta == <<"meta", "dict", "store", "named", "vstree">>
write_order == Files
\* write_bincode(): create (which truncates), then write.
create_file ==
  /\ db # Nil /\ next \in DOMAIN Files /\ dir[write_order[next]] # Torn
  /\ dir' = [dir EXCEPT ![write_order[next]] = Torn]
  /\ UNCHANGED <<db, next, saves>>
write_file ==
  /\ db # Nil /\ next \in DOMAIN Files /\ dir[write_order[next]] = Torn
  /\ dir' = [dir EXCEPT ![write_order[next]] = Written(value_of(db, write_order[next]))]
  /\ next' = next + 1
  /\ UNCHANGED <<db, saves>>
save_returns ==
  /\ db # Nil /\ next \notin DOMAIN Files
  /\ db' = Nil
  /\ UNCHANGED <<dir, next, saves>>
crash ==
  /\ db # Nil
  /\ db' = Nil
  /\ UNCHANGED <<dir, next, saves>>

Next ==
  \/ \E s \in Snapshots : save(s)
  \/ create_file \/ write_file \/ save_returns \/ crash

Spec == Init /\ [][Next]_vars

-----------------------------------------------------------------------------
\* load(): what it returns now, Nil for an error. Absent or torn named graphs
\* are none; the counts in meta are compared with the files.
readable(f) == dir[f].file = "written"
loaded_index == IF readable("vstree") THEN dir["vstree"].value ELSE build_vstree(dir["store"].value)
load ==
  IF ~(readable("meta") /\ readable("dict") /\ readable("store")) THEN Nil
  ELSE LET s == [dict |-> dir["dict"].value, store |-> dir["store"].value,
                 named |-> IF readable("named") THEN dir["named"].value ELSE {}]
       IN  IF meta_of(s) # dir["meta"].value THEN Nil ELSE s

\* save's order and load's checks ("Sanity check that the snapshot is
\* internally consistent"): what load accepts after a save into an empty
\* directory, finished or not, is the database that was saved. A later save
\* overwrites the files in place, and load compares nothing but counts.
LoadIsASnapshot == load # Nil /\ saves <= 1 => load \in Snapshots

\* A save that returns can be loaded, whatever an interrupted save left in the
\* directory before it, and the index load marks valid is that of the store.
SaveRoundTrips ==
  [][save_returns => load' = db /\ loaded_index' = build_vstree(db.store)]_vars

=============================================================================
