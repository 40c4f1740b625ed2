----------------------------- MODULE AtomicPages -----------------------------
(***************************************************************************)
(* What Pager::flush promises (src/kvstore/pager.rs): the file moves from  *)
(* one committed image to the next in a single step, and a crash at any    *)
(* point leaves the last committed image or the one being committed, never *)
(* a mix of the two. The cache is not seen: an operation changes the header *)
(* and at most one page, whatever it evicts.                               *)
(***************************************************************************)
CONSTANTS Header   \* the id of the header page
VARIABLES
  image,    \* what the running pager would read, header included
  durable,  \* what the file would hold after a crash and recovery
  up        \* FALSE from a crash until recovery is over

Commit == up /\ durable' = image /\ UNCHANGED <<image, up>>
Modify ==
  /\ up /\ UNCHANGED <<durable, up>> /\ DOMAIN image' = DOMAIN image
  /\ \E p \in DOMAIN image : \A q \in DOMAIN image \ {Header, p} : image'[q] = image[q]
Crash == durable' \in {durable, image} /\ image' = durable' /\ up' = FALSE
Recover == ~up /\ up' = TRUE /\ UNCHANGED <<image, durable>>

Init == image = durable /\ up = TRUE
Next == Commit \/ Modify \/ Crash \/ Recover
Spec == Init /\ [][Next]_<<image, durable, up>>
=============================================================================
