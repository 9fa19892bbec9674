------------------------------ MODULE MCAgent ------------------------------
(***************************************************************************)
(* One run of an agent for TLC: its loop, the stream of a model turn, the  *)
(* evidence it is finished on and what it learns from failures share no    *)
(* state here, and one run checks one after the other.  core says which of *)
(* the four moves.                                                         *)
(***************************************************************************)
EXTENDS AgentLoop, ModelStream, Evidence, Reflection

VARIABLE core

SecretWord == <<"s", "t", "t">>

\* A task without a demand, one with write_scopes whose caller asks for a test, and
\* one whose wording asks for a test and whose caller for a change, after failures
\* that call for a review.
Settings ==
  LET change == [kind |-> "file_changed", on |-> CHOOSE f \in File \ Allowed : TRUE] IN
  {[want |-> {}, firm |-> {}, scoped |-> FALSE, strict |-> FALSE],
   [want |-> {AnyTest}, firm |-> {AnyTest}, scoped |-> TRUE, strict |-> FALSE],
   [want |-> {AnyTest, change}, firm |-> {change}, scoped |-> FALSE, strict |-> TRUE]}

Init ==
  /\ core \in {"loop", "model", "check", "learn"}
  /\ LoopInit /\ ModelInit /\ EvidenceInit /\ ReflectionInit
  /\ core # "model" => protocol = "chat" /\ ~streams
  /\ core # "check" => task.asked = {}
  /\ bound = Check

Next ==
  /\ UNCHANGED core
  /\ \/ core = "loop" /\ LoopNext /\ UNCHANGED <<modelVars, evidenceVars, reflectionVars>>
     \/ core = "model" /\ ModelNext /\ UNCHANGED <<loopVars, evidenceVars, reflectionVars>>
     \/ core = "check" /\ EvidenceNext /\ UNCHANGED <<loopVars, modelVars, reflectionVars>>
     \/ core = "learn" /\ ReflectionNext /\ UNCHANGED <<loopVars, modelVars, evidenceVars>>

vars == <<core, loopVars, modelVars, evidenceVars, reflectionVars>>

Spec == Init /\ [][Next]_vars
=============================================================================
