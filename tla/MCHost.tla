------------------------------- MODULE MCHost -------------------------------
(***************************************************************************)
(* What leaves the service, for TLC: executions of two runs in one         *)
(* workspace, the stream of one command between its host and the client,   *)
(* the grants on the files a command may reach, or the calls to services   *)
(* outside.  ExecutionSession takes the stream as its events and the       *)
(* grants as done, and the four share no state here: side says which of    *)
(* them moves.                                                             *)
(***************************************************************************)
EXTENDS ExecutionSession, HostStream, Sandbox, ExternalTools, TLC

CONSTANTS e1, e2, e3, r1, r2, w1, h1, h2, x1, x2, l1, l2, a1

MCRunOf == e1 :> r1 @@ e2 :> r1 @@ e3 :> r2
\* One execution.
OneRunOf == e1 :> r1
MCWorkspaceOf == r1 :> w1 @@ r2 :> w1

VARIABLE side

\* What does not move begins in one state only.
HostInit ==
  /\ side \in {"sessions", "stream", "sandbox", "tools"} /\ Init /\ StreamInit /\ SandboxInit /\ ToolsInit
  /\ side # "sandbox" => own["top"] = {Entry("owner", "user")} /\ sealed = {}
  /\ side # "tools" => style = "page" /\ ~doing.full /\ ~doing.readonly

HostNext ==
  /\ UNCHANGED side
  /\ \/ side = "sessions" /\ Next /\ UNCHANGED <<streamVars, sandboxVars, toolVars>>
     \/ side = "stream" /\ StreamNext /\ UNCHANGED <<vars, sandboxVars, toolVars>>
     \/ side = "sandbox" /\ SandboxNext /\ UNCHANGED <<vars, streamVars, toolVars>>
     \/ side = "tools" /\ ToolsNext /\ UNCHANGED <<vars, streamVars, sandboxVars>>

\* The parts whose code promises that something ends.
FairInit == HostInit /\ side \in {"sessions", "stream"}

HostSpec == HostInit /\ [][HostNext]_<<side, vars, streamVars, sandboxVars, toolVars>>

HostFairSpec ==
  /\ FairInit /\ [][HostNext]_<<side, vars, streamVars, sandboxVars, toolVars>>
  /\ IF side = "sessions" THEN Fairness ELSE StreamFairness

OverlapSpec == HostSpec /\ side = "sandbox"
=============================================================================
