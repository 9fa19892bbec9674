----------------------------- MODULE RunControl -----------------------------
(***************************************************************************)
(* The runs of one session and the controls the user sends them.           *)
(*                                                                         *)
(* A run is a coroutine (runtime.execute, core_adapter, runtime.tool) that *)
(* shares one event loop with the HTTP handlers (run_controls.request).    *)
(* Every step below is the code between two awaits, so the interleavings   *)
(* are those the event loop allows.  A control that is received bumps the  *)
(* run's generation; the coroutine compares generations before it acts and *)
(* applies what it received when it passes a boundary.                     *)
(*                                                                         *)
(* A restart of the service interrupts every active run; a run that is     *)
(* resumed in place keeps its number, one resumed after it ended is forked *)
(* into a child that inherits generation, denials and unapplied steers.    *)
(***************************************************************************)
EXTENDS Naturals, FiniteSets

CONSTANTS
  Request,   \* identifiers of the control requests the clients send
  Kind,      \* the kind of each request
  MaxRun     \* bound on the runs of the session

ASSUME KindAssumption == Kind \in [Request -> {"steer", "pause", "resume", "cancel"}]
ASSUME MaxRunAssumption == MaxRun \in Nat \ {0}

Runs == 1 .. MaxRun

VARIABLES
  status,      \* what the run record says
  gen,         \* the run's generation
  ver,         \* state_version, of which only received controls are counted
  pausing,     \* pause_requested
  cancelling,  \* cancel_requested_at is set
  anc,         \* ancestor_run_ids
  ctl,         \* state of each control record of each run
  ctx,         \* steers whose message is in the session's history
  pending,     \* the run's latest approval record is pending
  denied,      \* denied_operations covers the operation
  refused,     \* history: the user refused the operation in this very run
  pc,          \* where the run's coroutine is suspended
  ret,         \* what follows the boundary the coroutine is at
  outcome,     \* status the coroutine will finish the run with
  plan,        \* generation of the model attempt, then of its response
  tool,        \* the locals of the tool under way
  managed,     \* the run may have a managed process that a pause stops
  asks,        \* validated resume requests not known to be answered
  scans,       \* pause handlers that wait for processes to stop
  cancels      \* cancel handlers that wait for the run to end

runVars     == <<status, gen, ver, pausing, cancelling, anc>>
ctlVars     == <<ctl, ctx>>
denyVars    == <<denied, refused>>
recordVars  == <<runVars, ctlVars, pending, denyVars>>
coVars      == <<pc, ret, outcome, plan, tool, managed>>
handlerVars == <<asks, scans, cancels>>
vars == <<recordVars, coVars, handlerVars>>

ActiveStatus == {"created", "queued", "running", "waiting_approval", "paused"}
FinalStatus  == {"completed", "failed", "cancelled", "interrupted"}

\* What a steer cuts, what nothing cuts but a cancel, what a pause cuts, and the
\* start of a managed process, which a pause stops but does not cut.
ToolKind == {"read", "write", "command", "process"}

\* A tool call: its kind, the generation it captured, the one its approval
\* captured, how the approval's future was resolved, and, as history, whether
\* a control was received since.
Tools == [kind : ToolKind, gen : Nat, asked : Nat,
          verdict : {"none", "accepted", "rejected", "timeout", "invalid"},
          overtaken : BOOLEAN]

NewTool(k) == [kind |-> k, gen |-> 0, asked |-> 0, verdict |-> "none", overtaken |-> FALSE]
NoTool == NewTool("read")

\* From the moment the tool has captured its generation until it ends.
Acting == {"auth", "ask", "decided", "auth2", "effect"}
\* While the tool's task is registered, so that a control can cancel it.
Slotted == Acting \cup {"calling", "command"}
Places == Slotted \cup {"unborn", "start", "queue", "prep", "boundary", "park",
                        "model", "model_cut", "model_done", "tool_cut",
                        "verify", "closing", "unwind", "over"}
Returns == {"queue", "model", "call", "result", "verify"}

Active(r) == status[r] \in ActiveStatus
Born == {r \in Runs : pc[r] # "unborn"}

SessionIdle == \A r \in Runs : ~Active(r)
Unborn(n) == n \in Runs /\ pc[n] = "unborn" /\ \A r \in Runs : r < n => r \in Born
LastRun(r) == r \in Born /\ \A s \in Born : s <= r
Steers == {q \in Request : Kind[q] = "steer"}
Unused(q) == \A r \in Runs : ctl[r][q] = "none"

Init ==
  /\ status = [r \in Runs |-> "none"]
  /\ gen = [r \in Runs |-> 0] /\ ver = [r \in Runs |-> 0]
  /\ pausing = [r \in Runs |-> FALSE] /\ cancelling = [r \in Runs |-> FALSE]
  /\ anc = [r \in Runs |-> {}]
  /\ ctl = [r \in Runs |-> [q \in Request |-> "none"]]
  /\ ctx = {}
  /\ pending = [r \in Runs |-> FALSE]
  /\ denied = [r \in Runs |-> FALSE] /\ refused = [r \in Runs |-> FALSE]
  /\ pc = [r \in Runs |-> "unborn"]
  /\ ret = [r \in Runs |-> "queue"]
  /\ outcome = [r \in Runs |-> "failed"]
  /\ plan = [r \in Runs |-> 0]
  /\ tool = [r \in Runs |-> NoTool]
  /\ managed = [r \in Runs |-> FALSE]
  /\ asks = {} /\ scans = {} /\ cancels = {}

-----------------------------------------------------------------------------
(* The coroutine: where it is suspended next. *)

At(r, p) == pc' = [pc EXCEPT ![r] = p]
Goto(r, p) == At(r, p) /\ UNCHANGED <<ret, outcome, managed>>
Toward(r, k) == At(r, "boundary") /\ ret' = [ret EXCEPT ![r] = k] /\ UNCHANGED <<outcome, managed>>
Ending(r, s) == At(r, "closing") /\ outcome' = [outcome EXCEPT ![r] = s] /\ UNCHANGED <<ret, managed>>

\* The tool's task ends: its locals are gone, its caller is at a boundary.
ToolOver(r) == Toward(r, "result") /\ tool' = [tool EXCEPT ![r] = NoTool]

\* CancelledError leaves every call of the run.
Unwind(r) ==
  /\ Goto(r, "unwind")
  /\ tool' = [tool EXCEPT ![r] = NoTool]
  /\ UNCHANGED <<recordVars, plan, handlerVars>>

\* Faulty variant: the generations are not compared.
GuardFaulty(r, g) == ~cancelling[r] /\ ~pausing[r]

\* RunControls.guard with the generation g, for a run without a parent run.
Guard(r, g) == ~cancelling[r] /\ ~pausing[r] /\ gen[r] = g

SetStatus(r, s) ==
  /\ status' = [status EXCEPT ![r] = s]
  /\ UNCHANGED <<gen, ver, pausing, cancelling, anc>>

(* A new turn of the user: create and launch. *)
Submit(n) ==
  /\ Unborn(n)
  /\ SessionIdle
  /\ SetStatus(n, "created")
  /\ Goto(n, "start")
  /\ UNCHANGED <<ctlVars, pending, denyVars, plan, tool, handlerVars>>

(* RunControls.boundary: refuse a cancelled run, apply the steers, park a
   run that is to pause, and go on with what follows.  A reply or a cut of an
   outdated model attempt is at the boundary of the next attempt at once, and
   so is a tool call that a steer or a pause has cut. *)
Woken(r) == pc[r] = "park" /\ (cancelling[r] \/ ~pausing[r])
Outdated(r) == pc[r] \in {"model_done", "model_cut"} /\ plan[r] # gen[r]
CutAnswered(r) == pc[r] = "tool_cut" /\ ~cancelling[r] /\ (pausing[r] \/ plan[r] # gen[r])
AtBoundary(r) == pc[r] = "boundary" \/ Woken(r) \/ Outdated(r) \/ CutAnswered(r)

Applied(r, S) ==
  ctl' = [ctl EXCEPT ![r] = [q \in Request |->
            IF ctl[r][q] = "received" /\ Kind[q] \in S THEN "applied" ELSE ctl[r][q]]]

\* Faulty variant: the record of the pause is not marked.
ParkFaulty(r) ==
  /\ ~cancelling[r] /\ pausing[r]
  /\ Applied(r, {"steer"})
  /\ SetStatus(r, "paused")
  /\ At(r, "park")
  /\ UNCHANGED <<ctx, pending, denyVars, outcome, plan, tool, managed, handlerVars>>

Park(r) ==
  /\ ~cancelling[r] /\ pausing[r]
  /\ Applied(r, {"steer", "pause"})
  /\ SetStatus(r, "paused")
  /\ At(r, "park")
  /\ UNCHANGED <<ctx, pending, denyVars, outcome, plan, tool, managed, handlerVars>>

BoundaryPause(r) == AtBoundary(r) /\ Park(r) /\ UNCHANGED ret
BoundaryCancelled(r) == AtBoundary(r) /\ cancelling[r] /\ Unwind(r)

Pass(r, k) ==
  /\ AtBoundary(r)
  /\ ~cancelling[r] /\ ~pausing[r]
  /\ ret[r] = k
  /\ Applied(r, {"steer"})
  /\ UNCHANGED <<runVars, pending, denyVars, handlerVars>>

(* One turn of the loop of Workspaces.acquire; whoever holds the workspace is
   left open.  The boundary behind it is passed in the same step. *)
Queueing(r) == pc[r] \in {"start", "queue"} \/ (Woken(r) /\ ret[r] = "queue")

AcquireCancelled(r) == pc[r] \in {"start", "queue"} /\ cancelling[r] /\ Unwind(r)

AcquirePaused(r) ==
  /\ pc[r] \in {"start", "queue"}
  /\ Park(r)
  /\ ret' = [ret EXCEPT ![r] = "queue"]

\* The status is set when the reason or the position has changed.
AcquireWait(r) ==
  /\ Queueing(r)
  /\ ~cancelling[r] /\ ~pausing[r]
  /\ IF pc[r] = "park" THEN Applied(r, {"steer"}) ELSE UNCHANGED ctl
  /\ \/ SetStatus(r, "queued")
     \/ pc[r] # "start" /\ UNCHANGED runVars
  /\ Goto(r, "queue")
  /\ UNCHANGED <<ctx, pending, denyVars, plan, tool, handlerVars>>

AcquireTake(r) ==
  /\ Queueing(r)
  /\ ~cancelling[r] /\ ~pausing[r]
  /\ Applied(r, {"steer"})
  /\ Goto(r, "prep")
  /\ UNCHANGED <<runVars, ctx, pending, denyVars, plan, tool, handlerVars>>

(* runtime.finish: what was received but not applied is marked interrupted,
   every steer is put in the history, a pending approval is cancelled.  The
   coroutine is over and its locals are gone. *)
Settled(r) == [q \in Request |-> IF ctl[r][q] = "received" THEN "interrupted" ELSE ctl[r][q]]
\* Faulty variant: only what was not applied is put in the history.
ToldFaulty(r) == {q \in Steers : ctl[r][q] = "received"}

Told(r) == {q \in Steers : ctl[r][q] # "none"}

Finish(r, s) ==
  /\ SetStatus(r, s)
  /\ ctl' = [ctl EXCEPT ![r] = Settled(r)]
  /\ ctx' = ctx \cup Told(r)
  /\ pending' = [pending EXCEPT ![r] = FALSE]
  /\ At(r, "over")
  /\ ret' = [ret EXCEPT ![r] = "queue"]
  /\ outcome' = [outcome EXCEPT ![r] = "failed"]
  /\ plan' = [plan EXCEPT ![r] = 0]
  /\ managed' = [managed EXCEPT ![r] = FALSE]
  /\ UNCHANGED <<denyVars, tool, handlerVars>>

FinishClosing(r) == pc[r] = "closing" /\ Finish(r, outcome[r])
FinishUnwound(r) == pc[r] = "unwind" /\ Finish(r, "cancelled")

(* _execute up to the first model request; reading the workspace may fail. *)
Prepare(r) ==
  /\ pc[r] = "prep"
  /\ SetStatus(r, "running")
  /\ Toward(r, "model")
  /\ UNCHANGED <<ctlVars, pending, denyVars, plan, tool, handlerVars>>

PrepareFails(r) == pc[r] = "prep" /\ Finish(r, "failed")

(* Model requests.  Before one, the steers are also put in the history; the
   attempt runs in a task of its own, which a control cancels. *)
ModelStart(r) ==
  /\ Pass(r, "model")
  /\ ctx' = ctx \cup Told(r)
  /\ plan' = [plan EXCEPT ![r] = gen[r]]
  /\ tool' = [tool EXCEPT ![r] = NoTool]
  /\ Goto(r, "model")

ModelReplies(r) ==
  /\ pc[r] = "model"
  /\ Goto(r, "model_done")
  /\ UNCHANGED <<recordVars, plan, tool, handlerVars>>

ModelFails(r) ==
  /\ pc[r] = "model"
  /\ Ending(r, "failed")
  /\ UNCHANGED <<recordVars, plan, tool, handlerVars>>

\* The response is a tool call, a final answer, or a commentary.
ModelConfirm(r) ==
  /\ pc[r] = "model_done"
  /\ plan[r] = gen[r]
  /\ \E k \in {"call", "verify", "model"} : Toward(r, k)
  /\ UNCHANGED <<recordVars, plan, tool, handlerVars>>

ModelCut(r) ==
  /\ pc[r] = "model_cut"
  /\ cancelling[r] \/ plan[r] = gen[r]
  /\ Unwind(r)

(* LocalRunAdapter._execute up to the creation of the tool's task. *)
\* A call of a response older than the run's generation is superseded.
CallStale(r) ==
  /\ Pass(r, "call")
  /\ plan[r] # gen[r]
  /\ Toward(r, "result")
  /\ UNCHANGED <<ctx, plan, tool>>

CallTool(r) ==
  /\ Pass(r, "call")
  /\ plan[r] = gen[r]
  /\ \E k \in ToolKind : tool' = [tool EXCEPT ![r] = NewTool(k)]
  /\ Goto(r, "calling")
  /\ UNCHANGED <<ctx, plan>>

\* After a result: the next call of the same response, or the next request.
PassResult(r) ==
  /\ Pass(r, "result")
  /\ \E k \in {"call", "model"} : Toward(r, k)
  /\ tool' = [tool EXCEPT ![r] = NoTool]
  /\ UNCHANGED <<ctx, plan>>

(* LocalCompletionVerifier.verify, then the end of _execute. *)
PassVerify(r) ==
  /\ Pass(r, "verify")
  /\ Goto(r, "verify")
  /\ UNCHANGED <<ctx, plan, tool>>

\* Only an answer of the current generation may be accepted.
VerifyAccepts(r) ==
  /\ pc[r] = "verify"
  /\ plan[r] = gen[r]
  /\ Ending(r, "completed")
  /\ UNCHANGED <<recordVars, plan, tool, handlerVars>>

VerifyRetries(r) ==
  /\ pc[r] = "verify"
  /\ Toward(r, "model")
  /\ UNCHANGED <<recordVars, plan, tool, handlerVars>>

\* The retries are used up.
VerifyFails(r) ==
  /\ pc[r] = "verify"
  /\ Ending(r, "failed")
  /\ UNCHANGED <<recordVars, plan, tool, handlerVars>>

(* runtime.tool.  It captures the generation before anything else; a pause
   found here fails the call without a record. *)
ToolRefused(r) ==
  /\ pc[r] = "calling"
  /\ ~cancelling[r] /\ pausing[r]
  /\ ToolOver(r)
  /\ UNCHANGED <<recordVars, plan, handlerVars>>

\* An operation the user has refused is not tried again.
ToolBegins(r) ==
  /\ pc[r] = "calling"
  /\ ~cancelling[r] /\ ~pausing[r]
  /\ IF tool[r].kind # "read" /\ denied[r]
       THEN ToolOver(r)
       ELSE /\ tool' = [tool EXCEPT ![r].gen = gen[r], ![r].overtaken = FALSE]
            /\ Goto(r, "auth")
  /\ UNCHANGED <<recordVars, plan, handlerVars>>

\* The guard raises CancelledError; so does the cut of a call that the run's
\* state gives no reason to cut.
ToolUnwinds(r) ==
  /\ \/ pc[r] \in {"calling", "auth", "auth2", "effect"} /\ cancelling[r]
     \/ pc[r] = "tool_cut" /\ ~CutAnswered(r)
  /\ Unwind(r)

\* Identity, grant, arguments, budget or guard fail, or the work itself does.
ToolFails(r) ==
  /\ pc[r] \in {"auth", "auth2", "effect", "command"}
  /\ ToolOver(r)
  /\ UNCHANGED <<recordVars, plan, handlerVars>>

\* approve up to its await; it captures the generation of this moment.
AskApproval(r) ==
  /\ pc[r] = "auth" /\ tool[r].kind # "read"
  /\ ~cancelling[r] /\ ~pausing[r]
  /\ tool' = [tool EXCEPT ![r].asked = gen[r]]
  /\ pending' = [pending EXCEPT ![r] = TRUE]
  /\ SetStatus(r, "waiting_approval")
  /\ Goto(r, "ask")
  /\ UNCHANGED <<ctlVars, denyVars, plan, handlerVars>>

\* 600 seconds; it beats an answer whose wake-up is still to come.
AskTimeout(r) ==
  /\ pc[r] = "ask" \/ (pc[r] = "decided" /\ tool[r].verdict # "invalid")
  /\ tool' = [tool EXCEPT ![r].verdict = "timeout"]
  /\ Goto(r, "decided")
  /\ UNCHANGED <<recordVars, plan, handlerVars>>

\* The approval record is no longer pending, the run is running again.
Resolve(r, v) ==
  /\ pc[r] = "decided"
  /\ tool[r].verdict \in v
  /\ SetStatus(r, "running")
  /\ pending' = [pending EXCEPT ![r] = FALSE]
  /\ UNCHANGED <<ctlVars, plan, handlerVars>>

ResolveInvalid(r) ==
  /\ Resolve(r, {"invalid"})
  /\ ToolOver(r)
  /\ UNCHANGED denyVars

ResolveRefused(r) ==
  /\ Resolve(r, {"rejected", "timeout"})
  /\ denied' = [denied EXCEPT ![r] = TRUE]
  /\ refused' = [refused EXCEPT ![r] = TRUE]
  /\ ToolOver(r)

ResolveAccepted(r) ==
  /\ Resolve(r, {"accepted"})
  /\ \/ cancelling[r] /\ Goto(r, "unwind") /\ tool' = [tool EXCEPT ![r] = NoTool]
     \/ Guard(r, tool[r].asked) /\ Goto(r, "auth2") /\ UNCHANGED tool
     \/ ~cancelling[r] /\ ~Guard(r, tool[r].asked) /\ ToolOver(r)
  /\ UNCHANGED denyVars

\* The policy of the permission mode does without an approval.
AutoApprove(r) ==
  /\ pc[r] = "auth" /\ tool[r].kind # "read"
  /\ Goto(r, "auth2")
  /\ UNCHANGED <<recordVars, plan, tool, handlerVars>>

\* The identity is confirmed, for the second time when the tool may write.
Authorize(r) ==
  /\ pc[r] = (IF tool[r].kind = "read" THEN "auth" ELSE "auth2")
  /\ Guard(r, tool[r].gen)
  /\ Goto(r, "effect")
  /\ UNCHANGED <<recordVars, plan, tool, handlerVars>>

ReadEnds(r) ==
  /\ pc[r] = "effect" /\ tool[r].kind = "read"
  /\ ToolOver(r)
  /\ UNCHANGED <<recordVars, plan, handlerVars>>

ProcessStarts(r) ==
  /\ At(r, "boundary")
  /\ ret' = [ret EXCEPT ![r] = "result"]
  /\ tool' = [tool EXCEPT ![r] = NoTool]
  /\ managed' = [managed EXCEPT ![r] = TRUE]
  /\ UNCHANGED outcome

\* The effect on the project: the start of a command, one change of a patch
\* that may have others, or the start of a managed process.
Act(r) ==
  /\ pc[r] = "effect" /\ tool[r].kind # "read"
  /\ Guard(r, tool[r].gen)
  /\ \/ tool[r].kind = "command" /\ Goto(r, "command") /\ UNCHANGED tool
     \/ tool[r].kind = "write" /\ Goto(r, "effect") /\ UNCHANGED tool
     \/ tool[r].kind = "write" /\ ToolOver(r)
     \/ tool[r].kind = "process" /\ ProcessStarts(r)
  /\ UNCHANGED <<recordVars, plan, handlerVars>>

CommandEnds(r) ==
  /\ pc[r] = "command"
  /\ ToolOver(r)
  /\ UNCHANGED <<recordVars, plan, handlerVars>>

-----------------------------------------------------------------------------
(* The handlers. *)

\* Faulty variant: a steer leaves the generation alone.
OverruleFaulty(r, q, state) ==
  /\ Active(r)
  /\ Unused(q)
  /\ gen' = [gen EXCEPT ![r] = IF Kind[q] = "steer" THEN @ ELSE @ + 1]
  /\ ver' = [ver EXCEPT ![r] = @ + 1]
  /\ ctl' = [ctl EXCEPT ![r][q] = state]
  /\ UNCHANGED <<status, anc, ctx, pending, denyVars, outcome, plan, managed, asks>>

\* RunControls.receive, for the kinds that overrule what the run is doing.
Overrule(r, q, state) ==
  /\ Active(r)
  /\ Unused(q)
  /\ gen' = [gen EXCEPT ![r] = @ + 1]
  /\ ver' = [ver EXCEPT ![r] = @ + 1]
  /\ ctl' = [ctl EXCEPT ![r][q] = state]
  /\ UNCHANGED <<status, anc, ctx, pending, denyVars, outcome, plan, managed, asks>>

\* The tool goes on until its next guard; the approval it waits for is refused.
Struck(t, p) == [t EXCEPT !.overtaken = TRUE, !.verdict = IF p = "ask" THEN "invalid" ELSE @]

\* The rest of request up to its first real await: the approval is refused,
\* the model attempt is cancelled, and so is the tool when it is to be cut.
\* A tool that is cut while it waits does not get to see its refused approval.
Strike(r, cut) ==
  LET hit == cut /\ pc[r] \in Slotted IN
  /\ At(r, IF hit THEN "tool_cut"
           ELSE IF pc[r] = "ask" THEN "decided"
           ELSE IF pc[r] = "model" THEN "model_cut" ELSE pc[r])
  /\ ret' = [ret EXCEPT ![r] = IF hit THEN "result" ELSE @]
  /\ tool' = [tool EXCEPT ![r] = IF hit \/ pc[r] \notin Slotted THEN NoTool ELSE Struck(@, pc[r])]

Steer(r, q) ==
  /\ Kind[q] = "steer"
  /\ Overrule(r, q, "received")
  /\ Strike(r, tool[r].kind = "read")
  /\ UNCHANGED <<pausing, cancelling, scans, cancels>>

\* The handler waits if the run has managed processes to stop, and looks for
\* tools to cut only when they have stopped.
Pause(r, q) ==
  /\ Kind[q] = "pause"
  /\ Overrule(r, q, IF status[r] = "paused" THEN "applied" ELSE "received")
  /\ pausing' = [pausing EXCEPT ![r] = TRUE]
  /\ \/ Strike(r, tool[r].kind \in {"read", "command"}) /\ UNCHANGED scans
     \/ managed[r] /\ Strike(r, FALSE) /\ scans' = scans \cup {<<r, q>>}
  /\ UNCHANGED <<cancelling, cancels>>

PauseScans(r, q) ==
  /\ <<r, q>> \in scans
  /\ scans' = scans \ {<<r, q>>}
  /\ IF pc[r] \in Slotted /\ tool[r].kind \in {"read", "command"}
       THEN /\ At(r, "tool_cut")
            /\ ret' = [ret EXCEPT ![r] = "result"]
            /\ tool' = [tool EXCEPT ![r] = NoTool]
       ELSE UNCHANGED <<pc, ret, tool>>
  /\ UNCHANGED <<recordVars, outcome, plan, managed, asks, cancels>>

Cancel(r, q) ==
  /\ Kind[q] = "cancel"
  /\ Overrule(r, q, "received")
  /\ cancelling' = [cancelling EXCEPT ![r] = TRUE]
  /\ Strike(r, FALSE)
  /\ cancels' = cancels \cup {<<r, q>>}
  /\ UNCHANGED <<pausing, scans>>

\* _cancel: task.cancel() throws CancelledError wherever the run waits; a tool
\* under way is cancelled with it.
Abort(r) ==
  /\ \E q \in Request : <<r, q>> \in cancels
  /\ pc[r] \notin {"unwind", "over"}
  /\ Unwind(r)

\* Faulty variant: a run that ended by itself is waited for.
CancelAnswersFaulty(r, q) ==
  /\ <<r, q>> \in cancels
  /\ status[r] = "cancelled"
  /\ cancels' = cancels \ {<<r, q>>}
  /\ ctl' = [ctl EXCEPT ![r][q] = "applied"]
  /\ UNCHANGED <<runVars, ctx, pending, denyVars, coVars, asks, scans>>

CancelAnswers(r, q) ==
  /\ <<r, q>> \in cancels
  /\ pc[r] = "over"
  /\ cancels' = cancels \ {<<r, q>>}
  /\ ctl' = [ctl EXCEPT ![r][q] = "applied"]
  /\ UNCHANGED <<runVars, ctx, pending, denyVars, coVars, asks, scans>>

Decide(r, v) ==
  /\ status[r] = "waiting_approval"
  /\ ~cancelling[r] /\ ~pausing[r]
  /\ pending[r] /\ pc[r] = "ask"
  /\ tool' = [tool EXCEPT ![r].verdict = v]
  /\ Goto(r, "decided")
  /\ UNCHANGED <<recordVars, plan, handlerVars>>

(* A resume is validated against the account and the model service, which
   takes a while, and is then checked again and carried out. *)
Resumable(r) == status[r] \in {"paused", "interrupted", "cancelled"} /\ LastRun(r)

AskResume(r, q) ==
  /\ Kind[q] = "resume"
  /\ Unused(q)
  /\ \A a \in asks : a.req # q
  /\ Resumable(r)
  /\ asks' = asks \cup {[run |-> r, req |-> q, ver |-> ver[r]]}
  /\ UNCHANGED <<recordVars, coVars, scans, cancels>>

\* Neither answered already nor overtaken by another control.  The request
\* stays in asks: a client that saw no answer sends it again.
Current(a) == ctl[a.run][a.req] = "none" /\ ver[a.run] = a.ver

ResumeInPlace(a) ==
  /\ a \in asks
  /\ Current(a)
  /\ status[a.run] = "paused"
  /\ ctl' = [ctl EXCEPT ![a.run][a.req] = "applied"]
  /\ ver' = [ver EXCEPT ![a.run] = @ + 1]
  /\ pausing' = [pausing EXCEPT ![a.run] = FALSE]
  /\ status' = [status EXCEPT ![a.run] = "running"]
  /\ UNCHANGED <<gen, cancelling, anc, ctx, pending, denyVars, coVars, handlerVars>>

\* What the child takes over from its parent: the steers it has still to apply
\* and the refusals.
Carried(r) ==
  [q \in Request |-> IF q \in Steers /\ ctl[r][q] = "interrupted" THEN "received" ELSE "none"]

\* Faulty variant: the child starts without denials.
DenialsFaulty(r) == FALSE

Denials(r) == denied[r]

\* The child is created and launched; unapplied steers are carried over.
ResumeFork(a, n) ==
  /\ a \in asks
  /\ Current(a)
  /\ status[a.run] # "paused" /\ Resumable(a.run)
  /\ SessionIdle
  /\ Unborn(n)
  /\ status' = [status EXCEPT ![n] = "created"]
  /\ gen' = [gen EXCEPT ![n] = gen[a.run]]
  /\ denied' = [denied EXCEPT ![n] = Denials(a.run)]
  /\ anc' = [anc EXCEPT ![n] = anc[a.run] \cup {a.run}]
  /\ ctl' = [ctl EXCEPT ![a.run][a.req] = "applied",
                        ![n] = Carried(a.run)]
  /\ Goto(n, "start")
  /\ UNCHANGED <<ver, pausing, cancelling, ctx, pending, refused, plan, tool, handlerVars>>

Recovered(r) == IF Active(r) THEN "interrupted" ELSE status[r]

(* The service dies and Store._recover puts the database in order. *)
Restart ==
  /\ ~SessionIdle \/ asks # {} \/ scans # {} \/ cancels # {}
  /\ status' = [r \in Runs |-> Recovered(r)]
  /\ ctl' = [r \in Runs |-> IF Active(r) THEN Settled(r) ELSE ctl[r]]
  /\ ctx' = ctx \cup UNION {Told(r) : r \in {s \in Runs : Active(s)}}
  /\ pending' = [r \in Runs |-> FALSE]
  /\ pc' = [r \in Runs |-> IF r \in Born THEN "over" ELSE "unborn"]
  /\ ret' = [r \in Runs |-> "queue"]
  /\ outcome' = [r \in Runs |-> "failed"]
  /\ plan' = [r \in Runs |-> 0]
  /\ tool' = [r \in Runs |-> NoTool]
  /\ managed' = [r \in Runs |-> FALSE]
  /\ asks' = {} /\ scans' = {} /\ cancels' = {}
  /\ UNCHANGED <<gen, ver, pausing, cancelling, anc, denyVars>>

-----------------------------------------------------------------------------
QueueStep(r) == AcquireCancelled(r) \/ AcquirePaused(r) \/ AcquireWait(r) \/ AcquireTake(r)

BoundaryStep(r) ==
  \/ BoundaryPause(r) \/ BoundaryCancelled(r)
  \/ Prepare(r) \/ PrepareFails(r) \/ FinishClosing(r) \/ FinishUnwound(r)

ModelStep(r) ==
  \/ ModelStart(r) \/ ModelReplies(r) \/ ModelFails(r) \/ ModelConfirm(r) \/ ModelCut(r)
  \/ PassVerify(r) \/ VerifyAccepts(r) \/ VerifyRetries(r) \/ VerifyFails(r)

CallStep(r) ==
  \/ CallStale(r) \/ CallTool(r) \/ PassResult(r)
  \/ ToolRefused(r) \/ ToolBegins(r) \/ ToolUnwinds(r) \/ ToolFails(r)

ApprovalStep(r) ==
  \/ AskApproval(r) \/ AskTimeout(r)
  \/ ResolveInvalid(r) \/ ResolveRefused(r) \/ ResolveAccepted(r) \/ AutoApprove(r)

EffectStep(r) == Authorize(r) \/ ReadEnds(r) \/ Act(r) \/ CommandEnds(r)

Step(r) ==
  QueueStep(r) \/ BoundaryStep(r) \/ ModelStep(r) \/ CallStep(r) \/ ApprovalStep(r) \/ EffectStep(r)

Handle(r, q) ==
  \/ Steer(r, q) \/ Pause(r, q) \/ Cancel(r, q) \/ AskResume(r, q)
  \/ PauseScans(r, q) \/ CancelAnswers(r, q)

Next ==
  \/ \E r \in Runs : Submit(r) \/ Step(r) \/ Abort(r)
  \/ \E r \in Runs, v \in {"accepted", "rejected"} : Decide(r, v)
  \/ \E r \in Runs, q \in Request : Handle(r, q)
  \/ \E a \in asks : ResumeInPlace(a)
  \/ \E a \in asks, n \in Runs : ResumeFork(a, n)
  \/ Restart

Spec == Init /\ [][Next]_vars

\* The event loop runs every callback that is ready, every await of the
\* coroutine is bounded by a timeout, and the processes of a run do stop.
Fairness ==
  /\ \A r \in Runs : WF_vars(Step(r)) /\ WF_vars(Abort(r))
  /\ \A r \in Runs, q \in Request : WF_vars(PauseScans(r, q)) /\ WF_vars(CancelAnswers(r, q))

-----------------------------------------------------------------------------
(* The state is of its type: one invariant for the whole record. *)
TypeOK ==
  /\ status \in [Runs -> ActiveStatus \cup FinalStatus \cup {"none"}]
  /\ gen \in [Runs -> Nat] /\ ver \in [Runs -> Nat]
  /\ pausing \in [Runs -> BOOLEAN] /\ cancelling \in [Runs -> BOOLEAN]
  /\ anc \in [Runs -> SUBSET Runs]
  /\ ctl \in [Runs -> [Request -> {"none", "received", "applied", "interrupted"}]]
  /\ ctx \subseteq Request
  /\ pc \in [Runs -> Places] /\ ret \in [Runs -> Returns]
  /\ outcome \in [Runs -> FinalStatus]
  /\ plan \in [Runs -> Nat]
  /\ tool \in [Runs -> Tools]
  /\ managed \in [Runs -> BOOLEAN]
  /\ pending \in [Runs -> BOOLEAN]
  /\ denied \in [Runs -> BOOLEAN] /\ refused \in [Runs -> BOOLEAN]
  /\ asks \subseteq [run : Runs, req : Request, ver : Nat]
  /\ scans \subseteq Runs \X Request
  /\ cancels \subseteq Runs \X Request

(* A tool that a steer, a pause or a cancel has overtaken changes nothing any
   more, even when the pause has been lifted again before the tool, its
   approval or its identity check comes back (guard in runtime.tool and in the
   patch loop). *)
NoLateEffect == [][\A r \in Runs : Act(r) => ~tool[r].overtaken]_vars

(* A session never has two active runs, whatever is submitted, resumed twice,
   cancelled or interrupted (create and the re-inspection in request). *)
OneActiveRun == \A r, s \in Runs : Active(r) /\ Active(s) => r = s

(* The final status of a run is final: neither a late handler nor a restart
   nor the resumption of its task rewrites it. *)
FinalIsFinal ==
  [][\A r \in Runs : status[r] \in FinalStatus => status'[r] = status[r]]_vars

(* A steer that was accepted is not lost: a run that has ended has its message
   in the history and its record settled. *)
NoSteerLost ==
  \A r \in Runs, q \in Steers :
    ctl[r][q] # "none" /\ ~Active(r) => q \in ctx /\ ctl[r][q] # "received"

(* Tools run on a response of the current generation only when the model had
   every steer of the run before it: applied, and in the history. *)
ResponseSawSteers ==
  \A r \in Runs, q \in Steers :
    pc[r] \in Slotted /\ plan[r] = gen[r] /\ ctl[r][q] # "none"
      => ctl[r][q] = "applied" /\ q \in ctx

(* An operation the user has refused, or let expire, is not carried out later
   in the run nor in a run resumed from it (denied_operations is inherited). *)
RefusalHolds ==
  [][\A r \in Runs : Act(r) => \A s \in anc[r] \cup {r} : ~refused[s]]_vars

(* While the record says paused nothing of the run moves: no tool, no model
   request, no queueing; it is parked at a boundary or being cancelled. *)
PausedIsParked == \A r \in Runs : status[r] = "paused" => pc[r] \in {"park", "unwind"} /\ pausing[r]

(* A run that was asked to cancel ends, and the request is answered. *)
CancelEnds ==
  \A r \in Runs, q \in Request :
    (<<r, q>> \in cancels) ~> (~Active(r) /\ <<r, q>> \notin cancels)

(* A steer or a pause is settled or the run is parked: no approval, model
   attempt, patch or cut tool keeps the run from its next boundary. *)
ControlSettles ==
  \A r \in Runs, q \in Request :
    (ctl[r][q] = "received" /\ Kind[q] # "cancel")
      ~> (ctl[r][q] # "received" \/ pc[r] = "park")

-----------------------------------------------------------------------------
(* What the documents say of the controls and the code does not do. *)

(* s5-recovery-steering-and-review.md:108 and :172: the tools of a response
   that a control has made outdated are not carried out.  The adapter compares
   generations before it creates the tool's task; the task captures the
   generation only when it first runs. *)
StaleResponseNeverActs == [][\A r \in Runs : Act(r) => plan[r] = gen[r]]_vars
=============================================================================
