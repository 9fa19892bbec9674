---------------------------- MODULE MCRunControl ----------------------------
(* Instances of RunControl for TLC. *)
EXTENDS RunControl, TLC

CONSTANTS steer1, pause1, pause2, resume1, resume2, cancel1

KindOf ==
  (steer1 :> "steer") @@ (pause1 :> "pause") @@ (pause2 :> "pause")
  @@ (resume1 :> "resume") @@ (resume2 :> "resume") @@ (cancel1 :> "cancel")
RequestKind == [q \in Request |-> KindOf[q]]

\* Bounds the mixture: two runs with every kind of control, or a chain of three
\* runs that are only steered and resumed.
Bounded ==
  \/ pc[3] = "unborn" /\ Unused(resume2)
  \/ Unused(pause1) /\ Unused(cancel1)
=============================================================================
