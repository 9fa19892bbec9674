---------------------------- MODULE WorkspaceUse ----------------------------
(***************************************************************************)
(* What the workspace leases promise, seen from the project directories:   *)
(* a workspace has one user at a time, and once somebody has left it with  *)
(* effects that nobody can vouch for it is closed to everyone.             *)
(***************************************************************************)
CONSTANTS
  Workspace,
  User,       \* runs, and executors that change a workspace for the user
  None

VARIABLES
  user,       \* who works in the workspace
  closed      \* it holds effects that are not verified

Init ==
  /\ user = [w \in Workspace |-> None]
  /\ closed = [w \in Workspace |-> FALSE]

Enter(w) == user[w] = None /\ ~closed[w] /\ user'[w] \in User
Leave(w) == user[w] # None /\ user'[w] = None
Stay(w) == user'[w] = user[w]

\* Only who works in a workspace can leave it in doubt, and it stays so.
Doubt(w) == closed'[w] # closed[w] => closed'[w] /\ user[w] # None

\* An executor that dies leaves several workspaces at once.
Next ==
  /\ user' \in [Workspace -> User \cup {None}] /\ closed' \in [Workspace -> BOOLEAN]
  /\ \A w \in Workspace : (Enter(w) \/ Leave(w) \/ Stay(w)) /\ Doubt(w)

Spec == Init /\ [][Next]_<<user, closed>>
=============================================================================
