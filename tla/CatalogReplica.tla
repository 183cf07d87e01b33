---------------------------- MODULE CatalogReplica ----------------------------
(***************************************************************************)
(* What the fleet catalog promises. A machine publishes versions of its     *)
(* catalog, each newer than all before it; the hub's copy is one of these   *)
(* versions as it was published, never a mixture, and only moves forward.   *)
(***************************************************************************)
EXTENDS Integers

CONSTANTS
  Ids,        \* rows of the catalog
  Epochs,     \* processes of the machine, in order
  Revisions,  \* revisions within a process
  None

VARIABLES
  published,  \* every version the machine has published
  replica     \* the hub's copy, or None

Versions == [epoch : Epochs, revision : Revisions, rows : SUBSET Ids]

Newer(v, w) ==
  \/ v.epoch > w.epoch
  \/ v.epoch = w.epoch /\ v.revision > w.revision

Init == published = {} /\ replica = None

Publish(v) ==
  /\ \A w \in published : Newer(v, w)
  /\ published' = published \cup {v}
  /\ UNCHANGED replica

Adopt(v) ==
  /\ replica = None \/ Newer(v, replica)
  /\ replica' = v
  /\ UNCHANGED published

\* The hub keeps its copy in memory only.
Forget == replica' = None /\ UNCHANGED published

Next ==
  \/ \E v \in Versions : Publish(v)
  \/ \E v \in published : Adopt(v)
  \/ Forget

Spec == Init /\ [][Next]_<<published, replica>>
=============================================================================
