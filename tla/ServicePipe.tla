---------------------------- MODULE ServicePipe ----------------------------
(***************************************************************************)
(* The desktop and its local service (ipc.py, entry.py; local_executor.rs  *)
(* of the shell): the shell starts the service, sends it requests and      *)
(* cancels over one pipe, hears the answers over another and stops it; the *)
(* service opens the data with the first request, ends every request it    *)
(* still has before it closes them, and ends when the shell is gone.       *)
(*                                                                         *)
(* A frame is written by a thread of its own, so that frames may overtake  *)
(* one another before they are in the pipe.  An answer stands for all the  *)
(* frames of a response; it may take as long as the run it reports on.     *)
(***************************************************************************)
EXTENDS Naturals, Sequences, FiniteSets

CONSTANTS
  Ask,        \* requests, each with an identity of its own
  MaxService, \* bound of the services ever started
  MaxPending  \* requests under way on either side (64)

ASSUME PipeShape == MaxService \in Nat /\ MaxPending \in Nat \ {0}

Service == 1..MaxService
NoService == 0

VARIABLES
  shell,   \* whether the desktop is there
  current, \* the service it talks to
  ending,  \* the services it waits for to stop
  deaf,    \* the services whose output has ended
  to,      \* the service of each request
  coming,  \* the requests that have found the service and are not entered yet
  waiting, \* the requests whose page waits for an answer (pending)
  hands,   \* frames not written yet
  pipe,    \* frames written and not read
  life,    \* of each service: "none", "up", "closing", "dead"
  stopped, \* the services that are to stop
  work,    \* of each request: "none", "runs", "uses" (the data), "unwinds", "over"
  open     \* the services that hold the lock of the data

pipeVars == <<shell, current, ending, deaf, to, coming, waiting, hands, pipe, life, stopped, work, open>>

PipeInit ==
  /\ shell = TRUE /\ current = NoService /\ ending = {} /\ deaf = {}
  /\ to = [r \in Ask |-> NoService] /\ coming = {} /\ waiting = {}
  /\ hands = {} /\ pipe = [s \in Service |-> <<>>]
  /\ life = [s \in Service |-> "none"] /\ stopped = {}
  /\ work = [r \in Ask |-> "none"] /\ open = {}

AskedOf(s) == {r \in Ask : to[r] = s}
Working(s) == {r \in AskedOf(s) : work[r] \in {"runs", "uses", "unwinds"}}

ShellSide == <<shell, current, ending, deaf, to, coming, waiting, hands>>
ServiceSide == <<pipe, life, stopped, work, open>>

\* The pages of these requests hear the end of an answer or that it failed.
Tell(R) == waiting' = waiting \ R

Frame(s, what, r) == [to |-> s, what |-> what, ask |-> r]

-----------------------------------------------------------------------------
(* The shell. *)

StartService(s) ==
  /\ shell /\ (current # NoService => life[current] = "dead")
  /\ life[s] = "none" /\ \A t \in Service : t < s => life[t] # "none"
  /\ life' = [life EXCEPT ![s] = "up"] /\ current' = s
  /\ UNCHANGED <<shell, ending, deaf, to, coming, waiting, hands, pipe, stopped, work, open>>

\* The service is looked up, then the request is entered: the service may have
\* ended in between.
Admit(r) ==
  /\ shell /\ current \notin {NoService} \cup deaf /\ to[r] = NoService
  /\ to' = [to EXCEPT ![r] = current] /\ coming' = coming \cup {r}
  /\ UNCHANGED <<shell, current, ending, deaf, waiting, hands, ServiceSide>>

Enter(r) ==
  /\ r \in coming /\ coming' = coming \ {r}
  /\ IF Cardinality(waiting \cap AskedOf(to[r])) < MaxPending
       THEN waiting' = waiting \cup {r} /\ hands' = hands \cup {Frame(to[r], "request", r)}
       ELSE UNCHANGED <<waiting, hands>>
  /\ UNCHANGED <<shell, current, ending, deaf, to, ServiceSide>>

\* The page stops waiting at once, whatever becomes of the frame.
CancelRequest(r) ==
  /\ shell /\ current # NoService /\ r \in waiting /\ to[r] = current
  /\ Tell({r})
  /\ hands' = hands \cup {Frame(current, "cancel", r)}
  /\ UNCHANGED <<shell, current, ending, deaf, to, coming, ServiceSide>>

Write(f) ==
  /\ f \in hands /\ hands' = hands \ {f}
  /\ IF life[f.to] = "dead"
       THEN pipe' = pipe /\ IF f.what = "request" THEN Tell({f.ask}) ELSE UNCHANGED waiting
       ELSE pipe' = [pipe EXCEPT ![f.to] = Append(@, f)] /\ UNCHANGED waiting
  /\ UNCHANGED <<shell, current, ending, deaf, to, coming, life, stopped, work, open>>

\* The reader of a service's output: what nobody will answer has failed.
HearsFaulty(s) == UNCHANGED waiting
Hears(s) == Tell(AskedOf(s))

OutputEnds(s) ==
  /\ shell /\ life[s] = "dead" /\ s \notin deaf
  /\ deaf' = deaf \cup {s} /\ Hears(s)
  /\ UNCHANGED <<shell, current, ending, to, coming, hands, ServiceSide>>

\* stop gives the service five seconds and then takes it down with its children.
StopService ==
  /\ shell /\ current # NoService
  /\ current' = NoService /\ ending' = ending \cup {current}
  /\ UNCHANGED <<shell, deaf, to, coming, waiting, hands, ServiceSide>>

\* A service that dies leaves the lock to the system.
Dead(s) ==
  /\ life' = [life EXCEPT ![s] = "dead"] /\ open' = open \ {s}
  /\ pipe' = [pipe EXCEPT ![s] = <<>>] /\ stopped' = stopped \ {s}
  /\ work' = [r \in Ask |-> IF r \in Working(s) THEN "over" ELSE work[r]]

KillLate(s) ==
  /\ shell /\ s \in ending /\ life[s] # "dead" /\ Dead(s)
  /\ UNCHANGED ShellSide

StopReturns(s) ==
  /\ shell /\ s \in ending /\ life[s] = "dead"
  /\ ending' = ending \ {s} /\ Tell(AskedOf(s))
  /\ UNCHANGED <<shell, current, deaf, to, coming, hands, ServiceSide>>

ShellDies ==
  /\ shell /\ shell' = FALSE /\ current' = NoService /\ ending' = {}
  /\ coming' = {} /\ hands' = {}
  /\ Tell(Ask)
  /\ UNCHANGED <<deaf, to, ServiceSide>>

-----------------------------------------------------------------------------
(* The service. *)

\* serve: more requests than there is room for end the service.
Takes(s, f) ==
  \/ /\ f.what = "cancel"
     /\ work' = [work EXCEPT ![f.ask] =
          IF @ = "uses" THEN "unwinds" ELSE IF @ = "runs" THEN "over" ELSE @]
     /\ UNCHANGED stopped
  \/ /\ f.what = "request" /\ Cardinality(Working(s)) < MaxPending
     /\ work' = [work EXCEPT ![f.ask] = "runs"] /\ UNCHANGED stopped
  \/ /\ f.what = "request" /\ Cardinality(Working(s)) >= MaxPending
     /\ stopped' = stopped \cup {s} /\ UNCHANGED work

Read(s) ==
  /\ life[s] = "up" /\ s \notin stopped /\ pipe[s] # <<>>
  /\ pipe' = [pipe EXCEPT ![s] = Tail(@)]
  /\ Takes(s, Head(pipe[s]))
  /\ UNCHANGED <<ShellSide, life, open>>

\* The data are open to one service at a time (Store, recovery_lock).
Uses(r) ==
  /\ work[r] = "runs" /\ open \subseteq {to[r]}
  /\ work' = [work EXCEPT ![r] = "uses"] /\ open' = {to[r]}
  /\ UNCHANGED <<ShellSide, pipe, life, stopped>>

\* What is left of a request whose page has gone is not heard.
Replies(r) ==
  /\ work[r] = "uses" \/ (work[r] = "runs" /\ ~open \subseteq {to[r]})
  /\ work' = [work EXCEPT ![r] = "over"]
  /\ Tell({r})
  /\ UNCHANGED <<shell, current, ending, deaf, to, coming, hands, pipe, life, stopped, open>>

Unwound(r) ==
  /\ work[r] = "unwinds" /\ work' = [work EXCEPT ![r] = "over"]
  /\ UNCHANGED <<ShellSide, pipe, life, stopped, open>>

\* The shell tells it to, or nobody reads its output for ten seconds.
IsToStop(s) ==
  /\ shell /\ life[s] = "up" /\ s \notin stopped
  /\ stopped' = stopped \cup {s}
  /\ UNCHANGED <<ShellSide, pipe, life, work, open>>

\* read_pipe meets the end of its input, watch_parent misses the shell.
InputEnds(s) ==
  /\ ~shell /\ life[s] = "up" /\ s \notin stopped
  /\ stopped' = stopped \cup {s}
  /\ UNCHANGED <<ShellSide, pipe, life, work, open>>

ShutsDown(s) ==
  /\ life[s] = "up" /\ s \in stopped
  /\ life' = [life EXCEPT ![s] = "closing"]
  /\ work' = [r \in Ask |-> IF r \notin Working(s) THEN work[r]
                            ELSE IF work[r] = "runs" THEN "over" ELSE "unwinds"]
  /\ UNCHANGED <<ShellSide, pipe, stopped, open>>

\* The data are closed when every request has unwound.
AllUnwoundFaulty(s) == TRUE
AllUnwound(s) == Working(s) = {}

Leaves(s) ==
  /\ life[s] = "closing" /\ s \in open /\ AllUnwound(s)
  /\ open' = open \ {s}
  /\ UNCHANGED <<ShellSide, pipe, life, stopped, work>>

Exits(s) ==
  /\ life[s] = "closing" /\ s \notin open /\ Working(s) = {}
  /\ Dead(s)
  /\ UNCHANGED ShellSide

Crashes(s) ==
  /\ life[s] \in {"up", "closing"} /\ Dead(s)
  /\ UNCHANGED ShellSide

-----------------------------------------------------------------------------
ForShell == StopService \/ ShellDies
ForService(s) ==
  \/ StartService(s) \/ OutputEnds(s) \/ KillLate(s) \/ StopReturns(s)
  \/ Read(s) \/ IsToStop(s) \/ InputEnds(s) \/ ShutsDown(s) \/ Leaves(s) \/ Exits(s) \/ Crashes(s)
ForAsk(r) == Admit(r) \/ Enter(r) \/ CancelRequest(r) \/ Uses(r) \/ Replies(r) \/ Unwound(r)

PipeNext ==
  \/ ForShell \/ \E s \in Service : ForService(s) \/ \E r \in Ask : ForAsk(r)
  \/ \E f \in hands : Write(f)

PipeSpec == PipeInit /\ [][PipeNext]_pipeVars

-----------------------------------------------------------------------------
(* Properties. *)

\* Two services never work on the same data, however the shell stops the one
\* and starts the other: the lock goes when the last request has unwound.
DataHasOneService ==
  \A q, r \in Ask : {work[q], work[r]} \subseteq {"uses", "unwinds"} => to[q] = to[r]

\* No page waits for an answer that nobody will give: when the output of its
\* service has ended, the request of a page that still waits is not written yet,
\* and its writing fails.  This is so however the end of the service falls between
\* the lookup, the entry and the writing of the request.
DeadAreMissed ==
  \A r \in waiting : to[r] \in deaf => Frame(to[r], "request", r) \in hands
=============================================================================
