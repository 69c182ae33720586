--------------------------- MODULE SnapshotSemantics ---------------------------
(***************************************************************************)
(* What an environment promises once it is published, as the authoring     *)
(* documentation puts it: at every instant the newest snapshot whose date  *)
(* has come is in force, and before the first one the base is.  It is what *)
(* the lowering and a target compiler implement together, on the clock the *)
(* target reads: that clock may start anywhere and skip instants.          *)
(***************************************************************************)
EXTENDS Rollout

VARIABLES
  published,  \* the document, [base, snapshots], once there is one
  now,        \* the clock
  served      \* the evaluation in force, once there is a document

Current(documents, t) == {InForce(d.base, d.snapshots, t) : d \in documents}

Init == published = {} /\ now \in Nat /\ served = {}

Publish ==
  /\ published = {}
  /\ \E d \in published' : published' = {d}
  /\ served' = Current(published', now)
  /\ UNCHANGED now

Tick ==
  /\ published # {}
  /\ now' \in Nat /\ now' > now
  /\ served' = Current(published, now')
  /\ UNCHANGED published

Spec == Init /\ [][Publish \/ Tick]_<<published, now, served>>
=============================================================================
