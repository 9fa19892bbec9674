------------------------------- MODULE MCDesk -------------------------------
(***************************************************************************)
(* What happens around the runs of a session, for TLC: its turns, its      *)
(* history, its hand-over, the records of its account and the pipe between *)
(* the desktop and the service share no state, and one run checks one after*)
(* the other.  desk names the one that moves.                              *)
(* The records move in three ways: with runs at work, with the user's      *)
(* choice of a project, and with large contents; the user manages them or  *)
(* takes over a history at the same time.                                  *)
(***************************************************************************)
EXTENDS SessionTurns, Handover, Conversation, Records, ServicePipe

VARIABLE desk

Init ==
  /\ desk \in {"turns", "hand", "talk", "work", "choice", "content", "pipe"}
  /\ TurnsInit /\ HandInit /\ TalkInit /\ RecordsInit /\ PipeInit
  /\ desk # "hand" => \A d \in Dir, p \in Path : tree[d][p] = Base
  /\ desk \notin {"work", "choice", "content"} => rows.schema = "now"

Next ==
  /\ UNCHANGED desk
  /\ \/ desk = "turns" /\ TurnsNext /\ UNCHANGED <<handVars, talkVars, storeVars, pipeVars>>
     \/ desk = "hand" /\ HandNext /\ UNCHANGED <<turnVars, talkVars, storeVars, pipeVars>>
     \/ desk = "talk" /\ TalkNext /\ UNCHANGED <<turnVars, handVars, storeVars, pipeVars>>
     \/ /\ desk = "work" /\ (Works \/ Managed \/ LivesOn \/ TakesOver)
        /\ UNCHANGED <<turnVars, handVars, talkVars, pipeVars>>
     \/ /\ desk = "choice" /\ (Chosen \/ Granted \/ Managed \/ LivesOn \/ TakesOver)
        /\ UNCHANGED <<turnVars, handVars, talkVars, pipeVars>>
     \/ /\ desk = "content" /\ (Saves \/ Granted \/ LivesOn \/ TakesOver)
        /\ UNCHANGED <<turnVars, handVars, talkVars, pipeVars>>
     \/ desk = "pipe" /\ PipeNext /\ UNCHANGED <<turnVars, handVars, talkVars, storeVars>>

vars == <<desk, turnVars, handVars, talkVars, storeVars, pipeVars>>

\* The fairness of TurnsSpec.
Spec ==
  /\ Init /\ [][Next]_vars
  /\ WF_turnVars(desk = "turns" /\ Advance) /\ WF_turnVars(desk = "turns" /\ AskReturns)
=============================================================================
