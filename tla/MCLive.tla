------------------------------- MODULE MCLive -------------------------------
(***************************************************************************)
(* What must go on by itself, for TLC: a run and its controls, or the      *)
(* leases of the workspaces.  They share no state here: alive says which   *)
(* of them moves.                                                          *)
(*                                                                         *)
(* Two accounts share one workspace, in which the first account has two    *)
(* runs and the second one has a run too.                                  *)
(***************************************************************************)
EXTENDS RunControl, WorkspaceLease, TLC

CONSTANTS steer1, pause1, resume1, cancel1, a1, a2, w1, r1, r2, r3

RequestKind == steer1 :> "steer" @@ pause1 :> "pause" @@ resume1 :> "resume" @@ cancel1 :> "cancel"

MCAccountOf == r1 :> a1 @@ r2 :> a1 @@ r3 :> a2
MCWorkspaceOf == r1 :> w1 @@ r2 :> w1 @@ r3 :> w1

VARIABLE alive

LiveInit == alive \in {"run", "lease"} /\ Init /\ LeaseInit

LiveNext ==
  /\ UNCHANGED alive
  /\ \/ alive = "run" /\ Next /\ UNCHANGED leaseVars
     \/ alive = "lease" /\ LeaseNext /\ UNCHANGED vars

LiveSpec ==
  /\ LiveInit /\ [][LiveNext]_<<alive, vars, leaseVars>>
  /\ alive = "run" => Fairness
=============================================================================
