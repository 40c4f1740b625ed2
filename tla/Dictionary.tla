----------------------------- MODULE Dictionary -----------------------------
(***************************************************************************)
(* src/dict/mod.rs: the Interner, which maps strings to dense ids and back *)
(* with a stack of freed ids that later strings reuse, and the Dictionary  *)
(* of three of them: entities, literals and predicates. A string is a      *)
(* model value. An interner's index is a position of backward, counted     *)
(* from 1. Public ids count from 0, and those of literals from             *)
(* LITERAL_FIRST_ID: an id alone says which of the two spaces it is of.    *)
(***************************************************************************)
EXTENDS Naturals, Sequences, FiniteSets, SequencesExt, Functions

CONSTANTS
  NoString,          \* a freed slot: an Option<String> that is None
  LITERAL_FIRST_ID   \* the first literal id

empty_dict == [forward |-> << >>, backward |-> << >>, free |-> << >>]

\* get() and resolve(): 0 and NoString are None.
get(d, s) == IF s \in DOMAIN d.forward THEN d.forward[s] ELSE 0
resolve(d, i) == IF i \in DOMAIN d.backward THEN d.backward[i] ELSE NoString

bind(f, s, i) == [t \in DOMAIN f \cup {s} |-> IF t = s THEN i ELSE f[t]]

\* A known string keeps its id; a new one takes the last id freed, else the next.
intern(d, s) ==
  IF get(d, s) # 0 THEN d
  ELSE IF d.free # << >>
  THEN LET i == Last(d.free)
       IN  [forward |-> bind(d.forward, s, i), backward |-> [d.backward EXCEPT ![i] = s],
            free |-> Front(d.free)]
  ELSE [d EXCEPT !.forward = bind(@, s, Len(d.backward) + 1), !.backward = Append(@, s)]

free(d, s) ==
  LET i == get(d, s)
  IN  IF i = 0 THEN d
      ELSE [forward |-> Restrict(d.forward, DOMAIN d.forward \ {s}),
            backward |-> [d.backward EXCEPT ![i] = NoString], free |-> Append(d.free, i)]

\* reclaim_unused(): free every string whose id is not referenced, by id.
reclaim_unused(d, referenced) ==
  LET dead == SelectSeq([i \in DOMAIN d.backward |-> i],
                        LAMBDA i : d.backward[i] # NoString /\ i \notin referenced)
  IN  FoldLeft(LAMBDA e, i : free(e, d.backward[i]), d, dead)

\* The two directions agree, and the free ids are exactly the empty slots.
Bijective(d) ==
  /\ \A s \in DOMAIN d.forward : resolve(d, d.forward[s]) = s
  /\ \A i \in DOMAIN d.backward : d.backward[i] # NoString => get(d, d.backward[i]) = i
  /\ {i \in DOMAIN d.backward : d.backward[i] = NoString} = Range(d.free)
  /\ IsInjective(d.free)

-----------------------------------------------------------------------------
(* struct Dictionary, in memory: D has three interners.                    *)

INVALID_ID == 2 * LITERAL_FIRST_ID
empty_dictionary == [entities |-> empty_dict, literals |-> empty_dict, predicates |-> empty_dict]

public(i, first) == IF i = 0 THEN INVALID_ID ELSE first + i - 1
entity_id(D, key) == public(get(D.entities, key), 0)
literal_id(D, key) == public(get(D.literals, key), LITERAL_FIRST_ID)
predicate_id(D, key) == public(get(D.predicates, key), 0)

intern_entity(D, key) == [D EXCEPT !.entities = intern(@, key)]
intern_literal(D, key) == [D EXCEPT !.literals = intern(@, key)]
intern_predicate(D, key) == [D EXCEPT !.predicates = intern(@, key)]

\* Routed by the range of the id.
id_to_string(D, id) ==
  IF id = INVALID_ID THEN NoString
  ELSE IF id >= LITERAL_FIRST_ID THEN resolve(D.literals, id - LITERAL_FIRST_ID + 1)
  ELSE resolve(D.entities, id + 1)
predicate_to_string(D, id) == IF id = INVALID_ID THEN NoString ELSE resolve(D.predicates, id + 1)

entries(d) == {<<i, d.backward[i]>> : i \in {j \in DOMAIN d.backward : d.backward[j] # NoString}}
entity_literal_entries(D) ==
  {<<public(e[1], 0), e[2]>> : e \in entries(D.entities)}
    \cup {<<public(e[1], LITERAL_FIRST_ID), e[2]>> : e \in entries(D.literals)}
all_strings_sorted(D) == UNION {DOMAIN D[k].forward : k \in DOMAIN D}

\* Dictionary::reclaim_unused(): each space against the ids that are its own.
reclaim_terms(D, ent_lit, preds) ==
  [entities |-> reclaim_unused(D.entities, {i + 1 : i \in ent_lit}),
   literals |-> reclaim_unused(D.literals, {i - LITERAL_FIRST_ID + 1 : i \in {j \in ent_lit : j >= LITERAL_FIRST_ID}}),
   predicates |-> reclaim_unused(D.predicates, {i + 1 : i \in preds})]
=============================================================================
