-------------------------- MODULE MCWorkspaceLease --------------------------
(* Two accounts and one workspace, in which the first account has two runs and
   the second one has a run too. *)
EXTENDS WorkspaceLease, TLC
CONSTANTS a1, a2, w1, r1, r2, r3

MCAccountOf == r1 :> a1 @@ r2 :> a1 @@ r3 :> a2
MCWorkspaceOf == r1 :> w1 @@ r2 :> w1 @@ r3 :> w1

\* One account with two runs in one workspace.
OneAccountOf == r1 :> a1 @@ r2 :> a1
OneWorkspaceOf == r1 :> w1 @@ r2 :> w1
=============================================================================
