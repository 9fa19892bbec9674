----------------------------- MODULE OutputPipe -----------------------------
(***************************************************************************)
(* What the execution host and its client promise together: each stream of *)
(* a command is a pipe of characters that arrive in order, none of them    *)
(* twice or changed, and an end that is only reported once all of them have*)
(* arrived.                                                                *)
(***************************************************************************)
EXTENDS Naturals, Sequences

CONSTANTS PipeNames, Letters

VARIABLES sent, received, closed

PipeInit ==
  /\ sent = [s \in PipeNames |-> <<>>] /\ received = sent /\ closed = FALSE

Send(s) == \E c \in Letters :
  sent' = [sent EXCEPT ![s] = Append(@, c)] /\ UNCHANGED <<received, closed>>

\* Any number of characters that are on their way arrives.
Receive(s) ==
  /\ ~closed /\ \E n \in (Len(received[s]) + 1)..Len(sent[s]) :
       received' = [received EXCEPT ![s] = SubSeq(sent[s], 1, n)]
  /\ UNCHANGED <<sent, closed>>

\* The reader learns the end when nothing is on its way.
End == ~closed /\ received = sent /\ closed' = TRUE /\ UNCHANGED <<sent, received>>

PipeNext == End \/ \E s \in PipeNames : Send(s) \/ Receive(s)
PipeSpec == PipeInit /\ [][PipeNext]_<<sent, received, closed>>
=============================================================================
