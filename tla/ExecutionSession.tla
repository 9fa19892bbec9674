-------------------------- MODULE ExecutionSession --------------------------
(***************************************************************************)
(* Managed executions (ExecutionSessions): commands that run in a host     *)
(* process of their own and may outlive the tool call that started them.   *)
(*                                                                         *)
(* Four kinds of coroutine share the slots: the tool call that starts an   *)
(* execution, the monitor that follows it, the handlers that stop some of  *)
(* them, and the writers to a command's input.  They run on one event loop,*)
(* so an action is the code between two awaits.  A cancel of a coroutine   *)
(* is delivered when it next wakes up: until then it is only sent.         *)
(*                                                                         *)
(* The hosts are external: what they do on their own is HostTakesCommand,  *)
(* CommandEnds, HostCrashes and HostLeaves.                                *)
(***************************************************************************)
EXTENDS Naturals, FiniteSets

CONSTANTS
  Execution, Run, Handler, Writer,
  RunOf,         \* of every execution
  Lasting,       \* executions kept after their run: retention "session"
  WorkspaceOf,   \* of every run
  Slots,         \* executions of the account at a time (4)
  PerWorkspace,  \* executions in a workspace at a time (2)
  MaxFault,      \* failures of hosts, channels and store, deaths of the service
  None

ASSUME RunAssumption == RunOf \in [Execution -> Run]
ASSUME LastingAssumption == Lasting \subseteq Execution
ASSUME NoneAssumption == None \notin Execution
ASSUME BoundAssumption == Slots \in Nat /\ PerWorkspace \in Nat /\ MaxFault \in Nat

VARIABLES
  closed,    \* ExecutionSessions.closed
  lost,      \* runs that _check refuses: grant revoked, project left
  stale,     \* executions whose start has an old generation of its run
  revoked,   \* executions that a control of their run puts an end to
  slots,     \* executions that have a slot
  starter,   \* where the tool call that starts the execution is
  cut,       \* cancel of that tool call: none, sent, or taken
  asked,     \* slot["cancel_requested"]
  monitor,   \* where _monitor of the execution is
  record,    \* slot["record"]
  stored,    \* its row in managed_executions
  host,      \* the host process of the execution
  handler,   \* handlers that stop executions
  writer,    \* writers to the input of commands
  faults     \* failures so far

authVars == <<closed, lost, stale, revoked>>
execVars == <<starter, cut, asked, monitor>>
dataVars == <<record, stored, host>>
vars == <<authVars, slots, execVars, dataVars, handler, writer, faults>>

\* The kinds of final status are told apart as far as the code does later.
Active == {"starting", "running"}
Final  == {"exited", "cancelled", "failed", "unknown"}

NoRecord == [status |-> "none", stopped |-> FALSE, over |-> FALSE, stdin |-> FALSE, ver |-> 0]

NewRecord == [status |-> "starting", stopped |-> FALSE, over |-> FALSE, stdin |-> TRUE, ver |-> 1]

Alive == {"up", "busy", "ended", "leaving", "stuck"}
\* The tool call holds the lock of the slots.
InStart == {"handshake", "request", "cleanup"}

Idle == [pc |-> "idle", kind |-> "none", runs |-> {}, left |-> {}, rest |-> {}, at |-> None, on |-> "none"]
NoWrite == [pc |-> "idle", at |-> None, ver |-> 0]
Failed == [NoWrite EXCEPT !.pc = "failed"]

Init ==
  /\ closed = FALSE /\ lost = {} /\ stale = {} /\ revoked = {}
  /\ slots = {}
  /\ starter = [e \in Execution |-> "idle"] /\ cut = [e \in Execution |-> "none"]
  /\ asked = {}
  /\ monitor = [e \in Execution |-> "none"]
  /\ record = [e \in Execution |-> NoRecord] /\ stored = record
  /\ host = [e \in Execution |-> "none"]
  /\ handler = [h \in Handler |-> Idle]
  /\ writer = [w \in Writer |-> NoWrite]
  /\ faults = 0

-----------------------------------------------------------------------------
(* What the coroutines ask of the shared state.                            *)

\* _check, as far as it changes: the service, the project and the grant.
Allowed(e) == ~closed /\ RunOf[e] \notin lost

InWorkspaceOf(e) == {s \in slots : WorkspaceOf[RunOf[s]] = WorkspaceOf[RunOf[e]]}
HasRoom(e) == Cardinality(slots) < Slots /\ Cardinality(InWorkspaceOf(e)) < PerWorkspace

LockFree == \A e \in Execution : starter[e] \notin InStart

LosesSlot(e) == slots' = slots \ {e} /\ asked' = asked \ {e}

\* Something fails that need not.
Fault == faults < MaxFault /\ faults' = faults + 1

\* client.close asks the host to shut down before it kills it.
Leaving(e) == IF host[e] \in {"up", "busy", "ended"}
              THEN [host EXCEPT ![e] = "leaving"] ELSE host

(***************************************************************************)
(* The tool call.                                                          *)
(***************************************************************************)

\* start, up to its first await.
Start(e) ==
  /\ starter[e] = "idle" /\ ~closed /\ RunOf[e] \notin lost
  /\ starter' = [starter EXCEPT ![e] = "prepare"]
  /\ UNCHANGED <<authVars, slots, cut, asked, monitor, dataVars, handler, writer, faults>>

\* The checks under the lock, and the slot.
TakeSlot(e) ==
  IF HasRoom(e)
  THEN /\ slots' = slots \cup {e}
       /\ record' = [record EXCEPT ![e] = NewRecord]
       /\ stored' = [stored EXCEPT ![e] = NewRecord]
       /\ host' = [host EXCEPT ![e] = "up"]
       /\ starter' = [starter EXCEPT ![e] = "handshake"]
  ELSE /\ starter' = [starter EXCEPT ![e] = "done"]
       /\ UNCHANGED <<slots, dataVars>>

\* The state of the workspace is known; _check, and async with self.lock.
Arrive(e) ==
  /\ starter[e] = "prepare" /\ cut[e] # "sent"
  /\ \/ ~Allowed(e) /\ starter' = [starter EXCEPT ![e] = "done"] /\ UNCHANGED <<slots, dataVars>>
     \/ Allowed(e) /\ ~LockFree
          /\ starter' = [starter EXCEPT ![e] = "queued"] /\ UNCHANGED <<slots, dataVars>>
     \/ Allowed(e) /\ LockFree /\ TakeSlot(e)
  /\ UNCHANGED <<authVars, cut, asked, monitor, handler, writer, faults>>

\* The lock is free; any order of those that wait for it.
Admit(e) ==
  /\ starter[e] = "queued" /\ cut[e] # "sent" /\ LockFree
  /\ TakeSlot(e)
  /\ UNCHANGED <<authVars, cut, asked, monitor, handler, writer, faults>>

\* Without the generation.
RefusedFaulty(e) == ~Allowed(e)

\* What start and controls.guard check again once the host is up.
Refused(e) == ~Allowed(e) \/ e \in stale

\* The host answered initialize; execution/start is sent unless refused.
Handshake(e) ==
  /\ starter[e] = "handshake" /\ cut[e] # "sent" /\ host[e] = "up"
  /\ IF Refused(e)
     THEN starter' = [starter EXCEPT ![e] = "cleanup"] /\ host' = Leaving(e)
     ELSE starter' = [starter EXCEPT ![e] = "request"] /\ UNCHANGED host
  /\ UNCHANGED <<authVars, slots, cut, asked, monitor, record, stored, handler, writer, faults>>

\* The host answered execution/start; the monitor is created, the lock released.
\* What start reads after that changes nothing.
Started(e) ==
  /\ starter[e] = "request" /\ cut[e] # "sent" /\ host[e] \in {"busy", "ended"}
  /\ record' = [record EXCEPT ![e].status = "running", ![e].ver = 2]
  /\ stored' = [stored EXCEPT ![e] = record'[e]]
  /\ monitor' = [monitor EXCEPT ![e] = "new"]
  /\ starter' = [starter EXCEPT ![e] = "done"]
  /\ UNCHANGED <<authVars, slots, cut, asked, host, handler, writer, faults>>

\* No answer, a host that is too old, an error; the clean-up begins.
StartFails(e) ==
  /\ starter[e] \in {"handshake", "request"} /\ cut[e] # "sent"
  /\ IF host[e] = "gone" THEN UNCHANGED faults ELSE Fault
  /\ starter' = [starter EXCEPT ![e] = "cleanup"]
  /\ host' = Leaving(e)
  /\ UNCHANGED <<authVars, slots, cut, asked, monitor, record, stored, handler, writer>>

\* The handler of BaseException has closed the host.
CleanedUp(e) ==
  /\ starter[e] = "cleanup" /\ cut[e] # "sent"
  /\ host' = [host EXCEPT ![e] = "gone"]
  /\ record' = [record EXCEPT ![e].status = "failed", ![e].stopped = TRUE, ![e].over = TRUE, ![e].ver = 2]
  /\ stored' = [stored EXCEPT ![e] = record'[e]]
  /\ LosesSlot(e)
  /\ starter' = [starter EXCEPT ![e] = "done"] /\ cut' = [cut EXCEPT ![e] = "none"]
  /\ UNCHANGED <<authVars, monitor, handler, writer, faults>>

\* The host survives the kill, and the wait for it ends in TimeoutError.
CleanUpFails(e) ==
  /\ starter[e] = "cleanup" /\ cut[e] # "sent" /\ host[e] = "leaving" /\ Fault
  /\ host' = [host EXCEPT ![e] = "stuck"]
  /\ LosesSlot(e)
  /\ starter' = [starter EXCEPT ![e] = "done"] /\ cut' = [cut EXCEPT ![e] = "none"]
  /\ UNCHANGED <<authVars, monitor, record, stored, handler, writer>>

\* The tool call wakes up cancelled; in the clean-up, it leaves it at that.
TakeCut(e) ==
  /\ cut[e] = "sent"
  /\ IF starter[e] \in {"handshake", "request"}
     THEN /\ starter' = [starter EXCEPT ![e] = "cleanup"] /\ cut' = [cut EXCEPT ![e] = "taken"]
          /\ host' = Leaving(e) /\ UNCHANGED <<slots, asked>>
     ELSE /\ starter' = [starter EXCEPT ![e] = "done"] /\ cut' = [cut EXCEPT ![e] = "none"]
          /\ LosesSlot(e) /\ UNCHANGED host
  /\ UNCHANGED <<authVars, monitor, record, stored, handler, writer, faults>>

(***************************************************************************)
(* The monitor.                                                            *)
(***************************************************************************)

\* The first step of the task; a task that is cancelled before never runs.
MonitorBegins(e) ==
  /\ monitor[e] = "new"
  /\ monitor' = [monitor EXCEPT ![e] = IF e \in asked THEN "dead" ELSE "loop"]
  /\ UNCHANGED <<authVars, slots, starter, cut, asked, dataVars, handler, writer, faults>>

\* The loop ends with a status, and client.close begins.
Leave(e, status) ==
  /\ monitor[e] = "loop"
  /\ record' = [record EXCEPT ![e].status = status]
  /\ monitor' = [monitor EXCEPT ![e] = "closing"]
  /\ host' = Leaving(e)
  /\ UNCHANGED <<authVars, slots, starter, cut, asked, stored, handler, writer>>

SeesStop(e) == e \in asked /\ Leave(e, "cancelled") /\ UNCHANGED faults

\* _check fails; or the channel, the output, the store or the identity of the
\* user, for reasons that are not modelled.
SeesFailure(e) == /\ e \notin asked
                  /\ Leave(e, "unknown")
                  /\ IF host[e] = "gone" \/ ~Allowed(e) THEN UNCHANGED faults ELSE Fault

SeesEnd(e) == /\ e \notin asked /\ Allowed(e) /\ host[e] = "ended"
              /\ Leave(e, "exited") /\ UNCHANGED faults

\* _close_slot returned or failed; the record is final, and not yet saved.
MonitorCloses(e) ==
  /\ monitor[e] = "closing"
  /\ \/ /\ host' = [host EXCEPT ![e] = "gone"]
        /\ record' = [record EXCEPT ![e].stopped = TRUE, ![e].over = TRUE, ![e].stdin = FALSE, ![e].ver = @ + 1]
        /\ UNCHANGED faults
     \/ /\ host[e] = "leaving" /\ Fault /\ host' = [host EXCEPT ![e] = "stuck"]
        /\ record' = [record EXCEPT ![e].status = "unknown", ![e].over = TRUE, ![e].stdin = FALSE, ![e].ver = @ + 1]
  /\ monitor' = [monitor EXCEPT ![e] = "evidence"]
  /\ UNCHANGED <<authVars, slots, starter, cut, asked, stored, handler, writer>>

\* The state of the workspace is known: result and record are saved, or the
\* record alone as unknown, or nothing, which closes the service.
MonitorSaves(e) ==
  /\ monitor[e] = "evidence"
  /\ \/ stored' = [stored EXCEPT ![e] = record[e]] /\ UNCHANGED <<record, closed, faults>>
     \/ /\ Fault /\ record' = [record EXCEPT ![e].status = "unknown"]
        /\ \/ stored' = [stored EXCEPT ![e] = record'[e]] /\ UNCHANGED closed
           \/ closed' = TRUE /\ UNCHANGED stored
  /\ LosesSlot(e)
  /\ monitor' = [monitor EXCEPT ![e] = "over"]
  /\ UNCHANGED <<lost, stale, revoked, starter, cut, host, handler, writer>>

(***************************************************************************)
(* Handlers that stop executions.                                          *)
(***************************************************************************)

\* A cancel is sent to the tool calls of S: at most one waits for delivery.
Cut(S) == [e \in Execution |-> IF e \in S THEN "sent" ELSE cut[e]]

Starting(S) == {e \in S : monitor[e] = "none"}

\* What stop_matching publishes for all it has selected, before it waits.
Published(S) == Cut({e \in Starting(S) : cut[e] = "none"})

\* cancel(e), up to its wait, by a handler that goes on with rest.
WaitFor(hd, e, rest) ==
  [hd EXCEPT !.pc = "waits", !.at = e, !.rest = rest,
             !.on = IF monitor[e] = "none" THEN "starter" ELSE "monitor"]

\* One execution: cancel.
CancelOne(h, e) ==
  /\ handler[h].pc = "idle" /\ e \in slots
  /\ handler' = [handler EXCEPT ![h] = WaitFor([Idle EXCEPT !.kind = "one"], e, {})]
  /\ asked' = asked \cup {e}
  /\ cut' = Cut(Starting({e}))
  /\ UNCHANGED <<authVars, slots, starter, monitor, dataVars, writer, faults>>

\* _cancel goes on to the task of the run, and with it to its tool calls.
CutTools(hd) ==
  IF hd.kind \in {"cancel", "leave"}
  THEN Cut({e \in Execution : RunOf[e] \in hd.runs /\ starter[e] \notin {"idle", "done"}})
  ELSE cut

\* The handler has stopped the executions of these runs.
GroupEnds(h, hd) ==
  /\ cut' = CutTools(hd)
  /\ handler' = [handler EXCEPT ![h] =
       [Idle EXCEPT !.pc = IF hd.left = {} THEN "done" ELSE "between", !.left = hd.left,
                    !.kind = IF hd.kind \in {"leave", "close"} THEN hd.kind ELSE "none"]]

\* What the predicate of a handler selects: a pause leaves the retained alone.
Selected(hd) == {e \in slots : RunOf[e] \in hd.runs /\ (hd.kind = "pause" => e \notin Lasting)}

\* stop_matching for the runs of a group, up to its first wait.
StopGroup(h, hd) ==
  LET S == Selected(hd)
  IN  IF S = {} THEN GroupEnds(h, hd) /\ UNCHANGED asked
      ELSE \E e \in S : /\ asked' = asked \cup S
                        /\ cut' = [Published(S) EXCEPT ![e] = IF monitor[e] = "none" THEN "sent" ELSE @]
                        /\ handler' = [handler EXCEPT ![h] = WaitFor(hd, e, S \ {e})]

StartedIn(r) == {e \in Execution : RunOf[e] = r /\ starter[e] # "idle"}

\* A retained execution that its host has been asked for outlives a pause.
Outlives(e, kind) == kind = "pause" /\ e \in Lasting /\ starter[e] \in {"request", "done"}

\* A control of a run: its starts become stale, the retained ones too.
StopRun(h, r, kind) ==
  /\ handler[h].pc = "idle" /\ kind \in {"pause", "cancel"}
  /\ stale' = stale \cup StartedIn(r)
  /\ revoked' = revoked \cup {e \in StartedIn(r) : ~Outlives(e, kind)}
  /\ StopGroup(h, [Idle EXCEPT !.kind = kind, !.runs = {r}])
  /\ UNCHANGED <<closed, lost, slots, starter, monitor, dataVars, writer, faults>>

\* activate_project: the project of all runs is left, and the grants are
\* revoked one after the other, each with the executions of its run.
LeaveProject(h, r) ==
  /\ handler[h].pc = "idle" /\ lost # Run
  /\ lost' = Run
  /\ StopGroup(h, [Idle EXCEPT !.kind = "leave", !.runs = {r}, !.left = Run \ {r}])
  /\ UNCHANGED <<closed, stale, revoked, slots, starter, monitor, dataVars, writer, faults>>

NextGrant(h, r) ==
  /\ handler[h].pc = "between" /\ r \in handler[h].left
  /\ StopGroup(h, [handler[h] EXCEPT !.runs = {r}, !.left = @ \ {r}])
  /\ UNCHANGED <<authVars, slots, starter, monitor, dataVars, writer, faults>>

\* close
CloseAll(h) ==
  /\ handler[h].pc = "idle" /\ ~closed
  /\ closed' = TRUE
  /\ StopGroup(h, [Idle EXCEPT !.kind = "close", !.runs = Run])
  /\ UNCHANGED <<lost, stale, revoked, slots, starter, monitor, dataVars, writer, faults>>

\* The next cancel of stop_matching; what has no slot any more needs none.
NextOf(h, live) ==
  LET hd == handler[h]
      S  == hd.rest \cap live
  IN  IF S = {} THEN GroupEnds(h, hd) /\ asked' = asked \cap live
      ELSE \E e \in S : /\ asked' = (asked \cap live) \cup {e}
                        /\ cut' = Cut(Starting({e}))
                        /\ handler' = [handler EXCEPT ![h] = WaitFor(hd, e, S \ {e})]

AwaitedFaulty(h) == handler[h].pc = "waits" /\
  LET e == handler[h].at
  IN  IF handler[h].on = "starter" THEN starter[e] = "done" ELSE monitor[e] = "over"

Awaited(h) == handler[h].pc = "waits" /\
  LET e == handler[h].at
  IN  IF handler[h].on = "starter" THEN starter[e] = "done" ELSE monitor[e] \in {"over", "dead"}

\* cancel forgets the monitor that never ran, or does not look at the slot.
OrphanedAlwaysFaulty(h) == handler[h].on = "monitor"

\* The slot of a monitor that never ran is still there.
Orphaned(h) == handler[h].on = "monitor" /\ handler[h].at \in slots

GoesOn(h) ==
  /\ Awaited(h) /\ ~Orphaned(h)
  /\ NextOf(h, slots)
  /\ UNCHANGED <<authVars, slots, starter, monitor, dataVars, writer, faults>>

HandlerCloses(h) ==
  /\ Awaited(h) /\ Orphaned(h)
  /\ handler' = [handler EXCEPT ![h].pc = "closes"]
  /\ host' = Leaving(handler[h].at)
  /\ UNCHANGED <<authVars, slots, execVars, record, stored, writer, faults>>

HandlerClosed(h) ==
  /\ handler[h].pc = "closes"
  /\ LET e == handler[h].at
     IN  /\ host' = [host EXCEPT ![e] = "gone"]
         /\ record' = [record EXCEPT ![e].status = "cancelled", ![e].stopped = TRUE, ![e].over = TRUE,
                                     ![e].stdin = FALSE, ![e].ver = @ + 1]
         /\ stored' = [stored EXCEPT ![e] = record'[e]]
         /\ slots' = slots \ {e}
         /\ monitor' = [monitor EXCEPT ![e] = "over"]
         /\ NextOf(h, slots')
  /\ UNCHANGED <<authVars, starter, writer, faults>>

\* TimeoutError leaves cancel and stop_matching; the slot stays.
HandlerFails(h) ==
  /\ handler[h].pc = "closes" /\ host[handler[h].at] = "leaving" /\ Fault
  /\ host' = [host EXCEPT ![handler[h].at] = "stuck"]
  /\ handler' = [handler EXCEPT ![h] = [Idle EXCEPT !.pc = "failed", !.kind = handler[h].kind, !.left = handler[h].left]]
  /\ UNCHANGED <<authVars, slots, execVars, record, stored, writer>>

(***************************************************************************)
(* Writers.  One of them at a time holds the lock of the slot.             *)
(***************************************************************************)

InFlight == {"sent", "taken"}
WriteLocked(e) == \E w \in Writer : writer[w].at = e /\ writer[w].pc \in InFlight

\* write, up to the lock of the slot, with the version the user has read.
AskWrite(w, e) ==
  /\ writer[w].pc = "idle" /\ e \in slots
  /\ writer' = [writer EXCEPT ![w] = [pc |-> "waits", at |-> e, ver |-> stored[e].ver]]
  /\ UNCHANGED <<authVars, slots, execVars, dataVars, handler, faults>>

Writable(w, e) == Allowed(e) /\ record[e].ver = writer[w].ver /\ record[e].stdin

\* With the lock: the checks, and the request. The controls of the run, which
\* may refuse it too, are not modelled here.
SendWrite(w) ==
  /\ writer[w].pc = "waits"
  /\ LET e == writer[w].at
     IN  /\ ~WriteLocked(e)
         /\ \/ writer' = [writer EXCEPT ![w] = Failed]
            \/ Writable(w, e) /\ host[e] \in Alive /\ writer' = [writer EXCEPT ![w].pc = "sent"]
  /\ UNCHANGED <<authVars, slots, execVars, dataVars, handler, faults>>

\* The client had the answer of the host; it reads none after a kill.
WriteAnswered(w) ==
  /\ writer[w].pc = "taken"
  /\ LET e == writer[w].at
     IN  /\ host[e] \in {"busy", "ended", "leaving"}
         /\ \E eof \in BOOLEAN :
              record' = [record EXCEPT ![e].ver = @ + 1, ![e].stdin = ~eof]
         /\ stored' = [stored EXCEPT ![e] = record'[e]]
  /\ writer' = [writer EXCEPT ![w].pc = "answered"]
  /\ UNCHANGED <<authVars, slots, execVars, host, handler, faults>>

\* An error of the host, its end, or no answer in time.
WriteFails(w) ==
  /\ writer[w].pc \in InFlight
  /\ writer' = [writer EXCEPT ![w] = Failed]
  /\ UNCHANGED <<authVars, slots, execVars, dataVars, handler, faults>>

(***************************************************************************)
(* The hosts, and the death of the service.                                *)
(***************************************************************************)

HostMoves(e, from, to) ==
  /\ host[e] \in from
  /\ host' = [host EXCEPT ![e] = to]
  /\ UNCHANGED <<authVars, slots, execVars, record, stored, handler, writer>>

HostTakesCommand(e) == starter[e] = "request" /\ HostMoves(e, {"up"}, "busy") /\ UNCHANGED faults
\* By itself, or at its timeout.
CommandEnds(e) == HostMoves(e, {"busy"}, "ended") /\ UNCHANGED faults
HostCrashes(e) == HostMoves(e, {"up", "busy", "ended"}, "gone") /\ Fault
\* After a shutdown that nobody waits for any more, or late after a kill.
HostLeaves(e)  == e \notin slots /\ HostMoves(e, {"leaving", "stuck"}, "gone") /\ UNCHANGED faults

HostTakesWrite(w) ==
  /\ writer[w].pc = "sent" /\ host[writer[w].at] = "busy"
  /\ writer' = [writer EXCEPT ![w].pc = "taken"]
  /\ UNCHANGED <<authVars, slots, execVars, dataVars, handler, faults>>

\* The service dies and is started again: recover. A host leaves when the
\* pipe to it is closed.
Restart ==
  /\ Fault
  /\ closed' = FALSE /\ slots' = {} /\ asked' = {}
  /\ stored' = [e \in Execution |->
       IF stored[e].status \in Active
       THEN [stored[e] EXCEPT !.status = "unknown", !.stopped = FALSE, !.over = TRUE, !.ver = @ + 1] ELSE stored[e]]
  /\ record' = stored'
  /\ starter' = [e \in Execution |-> IF starter[e] = "idle" THEN "idle" ELSE "done"]
  /\ cut' = [e \in Execution |-> "none"]
  /\ monitor' = [e \in Execution |-> IF monitor[e] = "none" THEN "none" ELSE "over"]
  /\ host' = [e \in Execution |-> IF host[e] \in {"up", "busy", "ended"} THEN "leaving" ELSE host[e]]
  /\ handler' = [h \in Handler |-> IF handler[h].pc = "idle" THEN Idle ELSE [Idle EXCEPT !.pc = "dropped"]]
  /\ writer' = [w \in Writer |-> IF writer[w].pc \in {"waits"} \cup InFlight
                                THEN Failed ELSE writer[w]]
  /\ UNCHANGED <<lost, stale, revoked>>

-----------------------------------------------------------------------------
CallStep(e) == \/ Arrive(e) \/ Admit(e) \/ Handshake(e) \/ Started(e) \/ StartFails(e)
               \/ CleanedUp(e) \/ CleanUpFails(e) \/ TakeCut(e)
MonitorStep(e) == \/ MonitorBegins(e) \/ SeesStop(e) \/ SeesEnd(e) \/ SeesFailure(e)
                  \/ MonitorCloses(e) \/ MonitorSaves(e)
HandlerStep(h) == \/ \E r \in Run : NextGrant(h, r)
                  \/ GoesOn(h) \/ HandlerCloses(h) \/ HandlerClosed(h) \/ HandlerFails(h)
Ask(h) == \/ \E e \in Execution : CancelOne(h, e)
          \/ \E r \in Run : LeaveProject(h, r) \/ \E kind \in {"pause", "cancel"} : StopRun(h, r, kind)
          \/ CloseAll(h)
WriteStep(w) == SendWrite(w) \/ WriteAnswered(w) \/ WriteFails(w)
HostStep(e) == HostTakesCommand(e) \/ CommandEnds(e) \/ HostCrashes(e) \/ HostLeaves(e)

Next ==
  \/ \E e \in Execution : Start(e) \/ CallStep(e) \/ MonitorStep(e) \/ HostStep(e)
  \/ \E h \in Handler : Ask(h) \/ HandlerStep(h)
  \/ \E w \in Writer : WriteStep(w) \/ HostTakesWrite(w) \/ \E e \in Execution : AskWrite(w, e)
  \/ Restart

Spec == Init /\ [][Next]_vars

\* The event loop runs what is ready; commands have a timeout, and requests
\* too: a host that does not answer in time is one of the faults.
Fairness ==
  /\ \A e \in Execution : WF_vars(CallStep(e)) /\ WF_vars(MonitorStep(e)) 
                             /\ WF_vars(HostTakesCommand(e)) /\ WF_vars(CommandEnds(e))
  /\ \A h \in Handler : WF_vars(HandlerStep(h))
  /\ \A w \in Writer : WF_vars(WriteStep(w))

-----------------------------------------------------------------------------
(* Properties.                                                             *)

CallPlaces == {"idle", "prepare", "queued", "done"} \cup InStart
MonitorPlaces == {"none", "new", "loop", "closing", "evidence", "over", "dead"}
HandlerPlaces == {"idle", "waits", "closes", "between", "done", "failed", "dropped"}
Records == [status : {"none"} \cup Active \cup Final, stopped : BOOLEAN, over : BOOLEAN, stdin : BOOLEAN, ver : Nat]

Handles == [pc : HandlerPlaces, kind : {"none", "one", "pause", "cancel", "leave", "close"},
            runs : SUBSET Run, left : SUBSET Run, rest : SUBSET Execution,
            at : Execution \cup {None}, on : {"none", "starter", "monitor"}]
Writes == [pc : {"idle", "waits", "answered", "failed"} \cup InFlight, at : Execution \cup {None}, ver : Nat]

\* The type invariant of the state of ExecutionSessions.
TypeOK ==
  /\ closed \in BOOLEAN /\ lost \subseteq Run /\ stale \subseteq Execution /\ revoked \subseteq Execution
  /\ slots \subseteq Execution /\ asked \subseteq Execution
  /\ starter \in [Execution -> CallPlaces]
  /\ cut \in [Execution -> {"none", "sent", "taken"}]
  /\ monitor \in [Execution -> MonitorPlaces]
  /\ record \in [Execution -> Records] /\ stored \in [Execution -> Records]
  /\ host \in [Execution -> {"none", "gone"} \cup Alive]
  /\ handler \in [Handler -> Handles]
  /\ writer \in [Writer -> Writes]
  /\ faults \in 0..MaxFault

\* Who has a slot is being started or has a monitor (start, _monitor, cancel),
\* and there are never more than the limits of start allow, whatever ends,
\* fails or is cut while others wait for the lock.
SlotLimit ==
  /\ \A e \in slots : starter[e] \in InStart \/ monitor[e] \notin {"none", "over"}
  /\ Cardinality(slots) <= Slots
  /\ \A e \in slots : Cardinality(InWorkspaceOf(e)) <= PerWorkspace

\* stopped confirms that the process is gone, in memory and in the store, and
\* an execution that is over without it is unknown (_monitor, start, cancel,
\* recover): the lease of the workspace is given back on the strength of it.
ConfirmedIsDead == \A e \in Execution : \A rec \in {record[e], stored[e]} :
  /\ rec.stopped => host[e] = "gone"
  /\ rec.over /\ ~rec.stopped => rec.status = "unknown"

InProgress(h) == handler[h].pc \in {"waits", "closes", "between"}

\* When the handlers that take away the right to run have returned
\* (RunControls.request, activate_project, close), no command goes on that was
\* started before, not even one whose start waited for the lock or for its
\* host meanwhile; what could not be stopped has no slot and is not confirmed.
\* Only a retained one that its host had been asked for outlives a pause, and
\* it ends with the next cancel, change of project or close like the others.
RevokedIsStopped ==
  (\A h \in Handler : ~InProgress(h) /\ handler[h].pc # "failed")
    => \A e \in Execution :
         (e \in revoked \/ \E h \in Handler : handler[h].pc = "done" /\ handler[h].kind \in {"leave", "close"})
         /\ host[e] = "busy" => e \notin slots /\ ~stored[e].stopped

\* The stored result of an execution that is over never changes, whichever
\* of its monitor, its start, the handlers and the restart ended it.
FinalOnce == [][\A e \in Execution : stored[e].over =>
  /\ stored'[e].over
  /\ stored'[e].status = stored[e].status
  /\ stored'[e].stopped = stored[e].stopped]_vars

\* A handler that stops executions returns (cancel, stop_matching).
StopsReturn == \A h \in Handler : InProgress(h) ~> ~InProgress(h)

=============================================================================
