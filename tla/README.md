# Verification of the local agent service

PrivateAgent is a coding agent that runs on the user's machine: a desktop
interface, a local service in Python (`src/src/private_agent_local`) with the
agent loop (`src/src/private_agent_core`), a host for processes in Rust
(`src/apps/exec-host`), and the user's project directories, which all of them
and the user's own programs change. This directory holds TLA+ models of the
parts of the service in which order, failure and shared state decide whether it
is right, the TLC configurations that check them, and proofs.

Paths below are relative to `src/src/private_agent_local` unless they say
otherwise.

| Module | What it is |
|---|---|
| `RunControl` | the runs of a session and the controls sent to them |
| `WorkspaceLease`, `WorkspaceUse` | the leases of workspaces among the executors of several accounts, and what they promise, as an abstract specification |
| `PatchSet` | patches and rollbacks between the journal and the disk |
| `Memories` | what a worker draws from finished sessions and the user forgets |
| `ExecutionSession` | commands in processes of their own, and who starts, follows, stops and writes to them |
| `HostStream`, `OutputPipe` | one command's output from the program to who reads it, and the pipe it implements |
| `Sandbox` | the journalled grants on the files a command may reach |
| `ExternalTools` | integrations, documentation services and pages: choice, approval, call |
| `SessionTurns` | the queued turn, plan mode and its questions |
| `Handover` | a worktree's changes on their way into the project |
| `Conversation` | a session's history and its compaction |
| `Records` | the account's database as a whole: deletion, moves, import and rollback |
| `ServicePipe` | the desktop, one service after another, and the pipes between them |
| `AgentLoop` | model turns, batches of calls, approvals and the verdict |
| `ModelStream` | the stream of one model turn in four protocols, with retries |
| `Evidence` | what a task may be called finished on |
| `Reflection` | how failures are counted and reviewed before delivery |
| `MCRunControl`, `MCWorkspaceLease`, `MCLive`, `MCPatchSet`, `MCHost`, `MCDesk`, `MCAgent` with their `.cfg` | instances for TLC |
| `RunControlProofs`, `WorkspaceLeaseProofs`, `PatchSetProofs`, `MemoryProofs`, `ExecutionSessionProofs`, `HostProofs`, `DeskProofs`, `AgentProofs` | the theorems |

A definition whose name ends in `Faulty` stands before the definition that it
is a variant of, and shows what a plausible slip in that code would be; no
specification uses one.

## 1. Inventory

### Parts and how they meet

- **Run service** (`runtime.py`, `run_controls.py`, `core_adapter.py`,
  `completion.py`, `recovery.py`, and `private_agent_core/runtime.py`). One
  coroutine per run: queue, model attempts, tool calls, approvals,
  verification, end. HTTP handlers on the same event loop receive *controls*
  (steer, pause, resume, cancel) with a request id and an expected version.
  State: the run record (status, generation, version, pause and cancel flags,
  ancestors), the control records, the approvals, the history, and where the
  coroutine is. Hard: a handler runs between any two awaits of the coroutine,
  and its effect is seen when the coroutine wakes up, later than the record.
- **Agent loop** (`private_agent_core/runtime.py`), **model gateways**
  (`private_agent_core/llm`), **evidence** (`completion.py`) and **reflection**
  (`reflection.py`, `observer.py`) are what the coroutine does between two
  controls. Hard: several tools of one answer return in any order, a stream
  breaks off after part of it was shown, the disk moves on between a result and
  the verdict on it, and one result is read by several runs.
- **Workspace leases** (`workspaces.py`, the ends of `runtime.py`,
  `execution_sessions.py`). Per executor a waiting list, a limit on workspaces,
  and a database row; between executors a lock file per workspace, whose lock
  dies with the process and whose content does not. Hard: three records of one
  fact written at different moments, processes that outlive the run or the
  executor, user changes that take the same lock.
- **Patches** (`patchsets.py`, `files.py`, `recovery.py`). A proposal, its
  preflight, a journalled application of one change after the other, a
  rollback that is previewed and applied. Hard: everything may fail or die
  between intent, write and confirmation, while the user edits the same files.
- **Memories** (`memories.py`, `memory_store.py`). A worker that awaits a model
  while the user switches it off, edits, forgets and deletes.
- **Managed executions** (`execution_sessions.py`, `execution_store.py`,
  `execution_tools.py`), the **host client**
  (`private_agent_core/execution/exec_host_client.py`), the **host**
  (`apps/exec-host/src/main.rs`) and the **sandbox** (`windows_sandbox.py`).
  Slots taken around an await; a monitor, a cancel and a close that race to end
  an execution; output through reader threads, lines, a pump and a bounded
  queue; access lists changed one by one under a journal.
- **External tools** (`integration_mcp.py`, `documentation_mcp.py`,
  `browser_tools.py`). A call is approved and sent several awaits later, in
  which the service's settings, the run and the grant may change.
- **Turn queue and plan mode** (`turn_queue.py`, `planning_interaction.py`),
  **context** (`context_history.py`, `context_manager.py`) and **worktree
  hand-over** (`worktree_handoff.py`) surround the runs of a session.
- **Records** (`store.py`, `app.py`, `migration.py`): SQLite transactions, and
  the operations that change the account as a whole while sessions are at work.
- **Private IPC** (`ipc.py`, `entry.py`, and `local_executor.rs` of the shell):
  framed requests over the pipes of the service, and services that follow each
  other on the same data.
- **Around these**: policy (decisions on strings), skills, the interface.

Interactions: the handlers and the coroutines share records through the store
and wake each other by futures; a run takes a lease before it works and patches
only while it has it; the monitor of an execution gives back a lease that its
run could not; recovery reads the journal of the patches to decide whether a
run may be resumed; an execution is prepared by the sandbox and heard through
the host's stream; deleting and moving asks the store for work that all of them
have recorded.

### What makes each part right

| Part | Properties checked |
|---|---|
| Runs and controls | `NoLateEffect`, `RefusalHolds`, `NoSteerLost`, `ResponseSawSteers`, `CancelEnds`, `ControlSettles` |
| Leases | `NoTwoWriters`, `PromiseKept` (refinement) |
| Patches | `JournalIsTrue`, `RollbackRestores`, `NothingUnconfirmed`, `NoEditLost` |
| Memories | `OnlyWithConsent`, `ForgottenStays` |
| Executions | `RevokedIsStopped`, `FinalOnce`, `StopsReturn` |
| Host stream | `HostIsPipe` (refinement), `EndIsReported`, `NobodyIsLeft` |
| Sandbox | `SecretStaysShut`, `ListsComeBack` |
| External tools | `ChoiceStands`, `SentAsAgreed` |
| Turns and plan mode | `TurnStartsOnce`, `QueuedTurnSettles` |
| Hand-over | `SessionMovesWithFiles`, `OnlyWhatWasShown` |
| Context | `WordsSurvive` |
| Records | `RecordsOutlastUse`, `GrantsStayPut`, `RollbackLosesNothing` |
| Service pipe | `DataHasOneService`, `DeadAreMissed` |
| Agent loop, stream, evidence, reflection | `AskedOnRecord`; `AnswerIsWhole`; `VerifiedRests`, `EffectsAreSettled`; `FailureCountsOnce`, `ReviewBeforeDelivery` |

`PROJECT.json` lists the hazards behind them with the line at which each bites.

## 2. Plan

Every part named above has its module, its runs and its mutants. What is left,
in order:

1. The composition of `Sandbox` with `ExecutionSession`, whose host it takes
   for granted, and of the monitor's end with `WorkspaceLease`'s `ProcessEnds`.

Modules that are proved about hold no recursive operators; parameters are
constants with named assumptions.

An `MC` module that extends several components lets one of them move, chosen at
the start by a variable (`alive`, `kept`, `side`, `desk`, `core`): the
components share no state, so a run checks them one after the other and not
their product. The properties of each are therefore checked on the states of
each, and nothing is claimed of an interplay that no module models.

## 3. Runs and controls: `RunControl`

**State and code.** `status`, `gen`, `ver`, `pausing`, `cancelling`, `anc` are
fields of the run record; `ctl` the control records; `ctx` the steers whose
message is in the history; `pending`, `denied` the approvals and the refused
operations. `pc` is the await at which the run's coroutine is suspended, with
the locals that matter: `ret` (what follows a boundary), `outcome`, `plan` (the
generation of the model attempt), `tool` (the call under way with the
generations it captured). `asks`, `scans` and `cancels` are handlers suspended
in their own awaits. An action is the code between two awaits.

| Actions | Code |
|---|---|
| `Submit`, `QueueStep` | `runtime.create`, `Workspaces.acquire` |
| `BoundaryStep` | `RunControls.boundary`, `CodingAgent.finish` |
| `ModelStep` | `core_adapter` model attempts, verification |
| `CallStep`, `ApprovalStep`, `EffectStep` | `core_adapter` dispatch, `runtime.tool`, `runtime.approve` |
| `Steer`, `Pause`, `Cancel`, `AskResume`, `ResumeInPlace`, `ResumeFork`, `PauseScans`, `CancelAnswers` | `RunControls.request` and its await points |
| `Decide` | the handler that answers an approval |
| `Restart` | `Store._recover` |

**Abstractions.** One operation stands for all: `denied` says that the denied
operations cover it. Tools are of four kinds, by what cuts them. Messages are
their request ids. Left out: plan mode (`waiting_input`), external tools,
batches of parallel reads, the protocol without controls, the limits on
ancestors (32), controls (256) and active runs (16), and a history that cannot
be read.

**Runs.** `control`: three runs with one steer, one pause, two resumes and one
cancel; the constraint `Bounded` keeps either two runs with every kind of
control, or a chain of three that are only steered and resumed: each pair and
triple of controls meets every await, the second run is both the fork of the
first and a new one, and a chain of two forks is the shortest in which a steer
could be carried twice or a refusal be forgotten at a grandchild. `live`: one
run under fairness.

**Fairness.** `WF` on the steps of a coroutine and on handlers that wait: the
event loop runs ready callbacks, model attempts, approvals and tools have
timeouts, and processes are killed when they do not stop. None is assumed of
users (`Submit`, `Decide`, the controls) or of `Restart`.

**Proved** (`RunControlProofs`): `TypeOK`, `NoLateEffect`, `RefusalHolds`,
`PausedIsParked`, `OneActiveRun`, `FinalIsFinal`, `NoSteerLost` and
`ResponseSawSteers`, for any requests and any number of runs. The inductive
invariant `IInv` adds to the types, for each run: it is active exactly while it
has a coroutine (`LiveAt`); a tool that a control has overtaken has captured an
older generation (`FreshAt`); a run whose record says paused is parked and its
flag is set (`ParkedAt`); refusals are on record, in the run and in those
resumed from it, and a tool that is under way was not refused (`RefusedAt`).
Handlers that wait refer to runs that exist (`HandlersSound`). `NoLateEffect`
needs `FreshAt`, because the guard before an effect compares generations and
nothing else. `NoSteerLost` is inductive once `IInv` holds. `ResponseSawSteers`
speaks of the moment at which a response is used, several awaits after the
request that saw the steers; `SeenAt` says of all the places in between
(`InUse`) that, while the generation is that of the request, every steer
received is applied and in the history, because each receipt raises the
generation. **Only model-checked**: the liveness properties.

## 4. Workspace leases: `WorkspaceLease`, `WorkspaceUse`

**State and code.** `held`, `ahead`, `at` are the waiting list and the held
entries of `Workspaces`; `lock` and `note` the lock on the workspace's file and
the run named in it; `row`, `unsure`, `broken` the database of the account;
`proc` the managed processes of a run, one for all; `busy` marks a synchronous
section between its two writes, so that a death or a failure can fall between
them. `Acquire` is `Workspaces.acquire` and `_take`, `Work` the run, its
retained processes and the ends of `runtime.py`, `ChangeBegins`/`ChangeEnds`
are `exclusive`, `RollbackBegins` a rollback under it, `Dies` and `Starts` an
executor with `_recover`.

**Abstractions.** Creation and removal of worktrees are seen as exclusive
changes. Effects that are unsure or broken stay so. They are verified by the
account that left them only. The order of the waiting list and the limit are
modelled, without a property of their own.

**The promise.** `WorkspaceUse` has one user per workspace and a flag that
never goes away once set, and lets someone enter an open, empty workspace only.
The refinement maps the user to who works in it, `UserOf`, and the flag to
`Closed`; an executor that dies leaves several workspaces in a step.

**Run.** `live`: two accounts, one workspace, three runs of which two are of
the same account, limit 1: that is two competitors inside an executor and two
across, which every rule of the code speaks of; a second workspace adds only
interleavings, because a lock file, a row and a name belong to one workspace.

**Fairness** (of the run `lease_leak`). A synchronous section ends unless its
executor dies; a managed process has a timeout; who waits for one goes on.
`Dies` and `Starts` are free.

**Proved** (`WorkspaceLeaseProofs`): `LeaseTypeOK`, `LeaseAgrees`,
`NoTwoWriters`, `NoUnverifiedHandover` and the refinement `PromiseKept`. The
invariant says that who works holds the lease (`TouchingHolds`), that what
outlives its executor is known to be unverified and named in the lock file
(`Marked`), that a section belongs to its account (`Sectioned`) and that a run
that never had the workspace left nothing there (`Unstarted`).

## 5. Patches and memories

### `PatchSet`

**State and code.** `patches` are the patch sets with what each change expects
and leaves, `journal` the last entry of every change, `job` the locals of
`apply` between its awaits and writes, `disk` what is at every path, with the
identity (device and inode) that `state` reads. `Propose` is `propose` with
`preflight`; `Begin`, `Intend`, `Check`, `Write`, `Unlink`, `Confirm`,
`Complete` and `Fails` are the steps of `apply` and `replace_one` in order;
`RollbackPreview` is `rollback_preview`; `Restart` is `_recover`. A move is two
operations, the arrival before the departure, as the code orders them. A new
file is linked to its name and the temporary name removed afterwards: in
between (`linked`) no tool reads it. `Blocks` is what `Recovery.inspect` makes
of the journal. The history variables `made` and `wrote` say what really
happened on the disk.

The user's programs are external (`UserEdits`): they edit in place, replace,
create and remove at any time. An edit between the last check and the write
cannot be seen by any program (`job.slipped`); `NoEditLost` excepts exactly
that one.

**Abstractions.** Identities are not used twice; an operating system may give
the number of a removed file to a new one, and with the same text in it such a
file is taken for the old one. Directories are at most one level deep. The
binding of an approval to a preview, modes and line ends, and limits on sizes
are left out. The read-back inside `replace_one` and the one after it are one
step.

**Run.** `patches`: a directory with a file below it and a file beside it, two
patches or a patch and its rollback, three changes, one edit. With two patches
either both are proposed and the second one finds what the first one left, or
one is rolled back while it and the rollback may fail at every step. The same
properties were also checked with two edits (1.5 million states) and with three
patches, a rollback past another patch, and no edit (611 thousand); they found
nothing more and take too long to be kept.

**Proved** (`PatchSetProofs`): `TypeOK`, `JournalIsTrue`, `MadeOnce`,
`NoEditLost`, `RollbackTakesItsOwn`, `RollbackRestores`, `MovesArePaired` and
`NothingUnconfirmed`, for any paths, texts, proposals and bounds. The
invariant: the journal of a patch is written in the order of its changes and
agrees with its status (`Known`); what is confirmed is what was to be left
(`Confirmed`); what a change wrote last is as it was confirmed (`Written`); the
step of `apply` knows where it is (`JobSound`); a proposal orders its moves
(`Proposed`); and a rollback speaks of confirmed changes of a patch that will
not change again (`RollbackSound`). The last one is what makes a statement
about the preview one about the write that follows much later.

`NothingUnconfirmed` (a run that `Recovery.inspect` lets go has no write whose
outcome nobody knows) turns on the identities of files over time, because
`inspect` looks at the disk only where the latest entry speaks of it. `Aged`
adds that identities are given in the order of the changes (`IdsGiven`); that
what an earlier patch expects and is still there, every later patch of the path
expects too (`Held`); that what a change replaced is gone for good
(`Replaced`); and that a later create found the place empty or the earlier
write still there (`Present`).

### `Memories`

**State and code.** `policy` is the row of the settings, `chat` the sessions
with their messages, `rows` the memories by scope and stable key, `worker` the
background task of `memories.py` between its awaits (scan, profile, model,
save), `leaving` a cancelled task that has not unwound, `request` a
`save_settings` that awaits it. `Look`, `NoCall`, `Call`, `Save`, `Fail` and
`Unwind` are the worker's steps, the others the routes of `memory_routes.py`
and `Reopen` a restart. `withheld` and `forgotten` record what the user did not
consent to and what he forgot.

**Abstractions.** Which due session is looked at next (order, offset, idle
time, age, `retry_after`) is a choice, `due`. A creation time is the number of
a message. At least `MinUser` messages of the user make a session eligible (2
in the code, 1 in the instance); batches are `MaxBatch`. One save of the
settings waits at a time. A request with a stale version is refused after the
revision was raised, as in the code. Texts and similarity are left out.

**Run.** `patches` as well: two sessions, three messages, two calls, two facts,
two acts of the user. Two sessions are what it takes for a fact forgotten in
one to be drawn from the other.

**Proved** (`MemoryProofs`): `MemoriesTypeOK`, `OnlyWithConsent` and
`ForgottenStays`, for any sessions, memories, contents and bounds; assumed is
that `NoRow`, which stands for a row that is not there, is none. The invariant:
a message is said once, in one session, at a time that has come (`SaidOnce`);
of every message there is, one that the worker may read was never withheld
(`ConsentIsKnown`), because switching generation on again moves the time from
which messages count; a batch that is under way is free of withheld messages,
unless something has happened that makes the worker drop it (`BatchIsFree`:
`fresh` stands for the revision, which every request raises); a save of the
settings that comes late, and finds a worker again, finds generation on
(`SaveFits`); and what was forgotten has left a tombstone with its words, which
neither an edit nor the deletion of its session takes away (`Buried`). The
steps that matter are those between the reading of a session, the call and the
saving: `OnlyWithConsent` speaks of the last two, `ConsentIsKnown` of the
first.

## 6. Managed executions: `ExecutionSession`

**State and code.** `slots`, `asked`, `record` and `monitor` are the entries of
`ExecutionSessions.slots` with their `cancel_requested`, record and task;
`stored` is the row in `managed_executions`. `starter` is the await at which the
tool call in `start` is suspended and `cut` a cancel of its task: sent, until
the task wakes up, then taken. `closed` is the service, `lost` what `_check`
refuses (grant, project), `stale` the starts whose run has a newer generation,
`revoked` those that a control of their run puts an end to, a history for the
property. `handler` is where a handler is that stops executions: which runs are
left to it (`left`), which executions of this `stop_matching` (`rest`), which
one its `cancel` waits for and on what (`at`, `on`). `host` is the process,
`writer` a caller of `write`. `Lasting` are the executions that are kept for the
session (`retention` "session", `execution_tools.py:40`): a pause makes their
starts stale like the others, but does not select them (`Selected`,
`run_controls.py:121`), so that they go on once their host has been asked to
start them, as
`src/docs/analysis/coding-agent-upgrade-20260908/s5-validation-report.md:25`
wants it; a cancel, a change of project and the close of the service stop them
too. Of a record the model keeps the kind of status, `stopped`
(`process_stopped`), whether it is over, whether its input is open, and the
version.

| Actions | Code (`execution_sessions.py` unless named) |
|---|---|
| `Start`, `Arrive`, `Admit`, `Handshake`, `Started` | `start`: up to its first await, the lock, the slot, the host's `initialize`, `controls.guard`, `execution/start` |
| `StartFails`, `CleanedUp`, `CleanUpFails`, `TakeCut` | its handler of `BaseException`, and a cancel wherever it is delivered |
| `MonitorBegins`, `SeesStop`, `SeesFailure`, `SeesEnd`, `MonitorCloses`, `MonitorSaves` | `_monitor`: the loop, `_close_slot`, the evidence, the save, the `finally` |
| `CancelOne`, `GoesOn`, `HandlerCloses`, `HandlerClosed`, `HandlerFails` | `cancel` and the rest of `stop_matching` |
| `StopRun`, `LeaveProject`, `NextGrant`, `CloseAll` | `run_controls.request`, `runtime.activate_project` with `revoke_grant`, `close` |
| `AskWrite`, `SendWrite`, `WriteAnswered`, `WriteFails` | `write` and its handler in `app.py` |
| `Restart` | the death of the service and `ExecutionStore.recover` |
| `HostTakesCommand`, `CommandEnds`, `HostCrashes`, `HostLeaves`, `HostTakesWrite` | `apps/exec-host/src/main.rs` |

**Abstractions.** Those that wait for the lock of the slots get it in any order,
which includes the order of `asyncio.Lock`. Output, its chunks and cursors are
left out, and with them the failures of reading it, which `SeesFailure` stands
for. The sandbox, whose close may fail too, and the controls that may refuse a
write are left out. The end of a run stops the executions that are not kept, and
all of them unless it is completed (`runtime.py:370`, `:431`, `:464`); it has no
action of its own, because it does to the slots what a pause or a cancel does,
without making a start stale. The two saves at the end of the monitor, with the
state of the workspace between them, are one step: a death of the service
between them is not modelled, and neither is a monitor that is cancelled from
outside while it runs, which no code does.

**Runs.** `executions`: three executions of two runs in one workspace with two
slots, one handler, one failure. Three is the smallest number in which one
start waits for the lock while another one holds it and a third has its
monitor; two runs are what it takes for a handler to go from one group to the
next; a `stop_matching` and the `cancel` it goes on to are enough to cut one
start twice. An instance with two handlers and one failure found nothing more
and is not kept. `executions_end`: one execution, one handler, two writers and
two failures, under fairness. Two failures are what it takes for a host to
survive a kill after another one. One of the three executions is kept for its
session (`Lasting`), next to one of the same run that is not;
the one of `executions_end` is kept, too, which a cancel ends.

**Fairness.** `WF` on the steps of each tool call, monitor, handler and writer:
the event loop runs what is ready and every request to a host has a timeout;
and on the host taking a command and on its end, because a command has a
timeout. None is assumed of what users ask (`Start`, `AskWrite`, `Ask`), of a
crash or of `Restart`.

**Proved** (`ExecutionSessionProofs`): `TypeOK`, `SlotLimit`, `ConfirmedIsDead`,
`FinalOnce` and `RevokedIsStopped`, for any executions, runs, handlers, writers
and bounds. The inductive invariant says what the records may say where the
coroutines are (`RecordSound`): a start that is not over has no monitor and no
result (`NotYet`); the monitor decides once, and while it looks for evidence
the host is gone or stuck and nothing is stored (`Following`); a stored result
is the one in memory (`Same`), which is why a write that is answered late
cannot bring an old one back. `HandlerSound` is what `FinalOnce` turns on: a
handler that ends what a monitor never began finds no result there, or the same
one, put there by another handler. `RevokedIsStopped` needs to know whose stop
is on its way: `Stopping` ties every execution that runs although a control has
revoked it, its grant is lost or the service is closed to a handler that still has it on
its list, or to a cancel that has been asked for (`RevokedFits`, `Attends`), and
says what the lists of the handlers hold between their awaits (`HandlersFit`).
**Only model-checked**: `StopsReturn`, which is liveness.

## 7. One command's stream: `HostStream`, `OutputPipe`

**State and code.** `app` and `kin` are the program and a descendant that keeps
its pipes; `reader`, `waiter` and `main` the threads of the host (`spawn_reader`,
`spawn_waiter`, the loop over requests in `main.rs`), `carry` the bytes of a
character that is not complete yet, `number` the sequence of notifications,
`table` the host's table; `inbox` and `wire` the lines between host and client;
`queue` and `broken` the client's bounded queue and its `_failure`
(`exec_host_client.py`); `user`, `waitsFor`, `expected`, `heard` and `result`
the coroutine that consumes the events. `Faults` are a crash, a blocked write,
a timeout and a failing read.

**The promise.** `OutputPipe` is a pipe per stream: characters arrive in order,
none twice or changed, and the end is reported after the last one. `HostIsPipe`
maps what the program wrote to `sent` and what the consumer has put together to
`received`; the pipe is closed when the consumer is told that the command has
exited or timed out. A failure of the channel is no end of the pipe.

**Abstractions.** A character is one or two bytes (narrow and wide); lines are
not cut, frames not malformed. The kill of a tree is one step. A second command
over the same host is left out, because an execution has a host of its own. A
request has a timeout for its answer, but the write of its line has none
(`_send_line`, `exec_host_client.py:245-248`); a line is taken by the host's pipe at
once here, so that a client that waits for room in it is not modelled.

**Runs and fairness.** `executions`: two streams, two characters, a queue of
two; `executions_end`: one stream under the fairness of every thread and
coroutine, none of the program, the user or the faults. A queue of two overflows
with the third event, which is the first that the end of the process can be.

**Proved** (`HostProofs`): `StreamTypeOK`, `NothingLost` and `HostIsPipe`, the
refinement, for any streams, any length of the output and any size of the queue.
The invariant (`NothingLost`) says where the characters of each stream are, with
a function `before`: so many of them are carried by the events numbered below
`n`. What has been heard is what the events below `expected` carry; an event on
its way carries those between its number and the next (`Carries`), and the one
that reports the end has all of them before it; and the bytes in a reader and in
its pipe are those of the characters that are not sent (`ReaderFits`). It speaks
of the events that can still be heard (`Fresh`), which are those not behind the
first event that ends the execution, because the host counts from zero again
after it; and only as long as the consumer takes events, because a broken channel
may lose anything. Under it lie two lemmas about the bytes: if they are those of
a text, a reader that cuts them anywhere sends the characters that are complete
and keeps the first byte of one that is not (`ReadsWhole`), and `from_utf8_lossy`
of what it sends is that text (`DecodesBack`). Neither is an induction over data
of the library's kind; both come from the numbers at which the characters end,
and the least number at which something goes wrong. TLC has checked the invariant
with `before` as a history variable, on three characters and a queue of two.

## 8. The sandbox: `Sandbox`

**State and code.** Three objects stand for the tree: a directory above the
project, its root and a credential in it. `own` are the entries of their access
lists, `sealed` the lists cut off from what they inherit
(`WindowsSecurity._handle_acl`), `journal` the records of `SandboxLease` on
disk, `work` what a lease (or a service that starts and recovers) is doing,
`mutex` the system-wide mutex of `acl_writer`, `hosted` and `program` the
executor and its command. `Save`, `Enter`, `Grant`, `Narrow`, `Bind` are the
steps of the preparation; `Clean`, `Revoke`, `Restore`, `Unlink` those of
`_cleanup`; `Begin`, `Take`, `Recovered`, `Refuse` those of `recover`; `Crash`
ends a service at any of them, and `UserEdit` changes a list. `plain` is what
the lists would be if only users changed them.

**Abstractions.** The directories of the tools are left out. Reading and
writing one list is a step, since the mutex is held. Users do not change lists
between the reading of the states and the end of the narrowing (`Arming`): the
code cannot tell such a change from its own. An entry that a user adds and that
equals a copy made by cutting the list off, put where the copy was taken away,
is the copy as far as anyone can see; it goes with the copies
(`windows_sandbox.py:276-281`). A protected object that is replaced makes every
later clean-up fail; that is a liveness matter and not stated.

**Runs.** `executions`: two leases of one account, one crash, one edit, and no
failure of a first grant or of a clean-up half-way (`Flaky` is `FALSE`).
`overlap`: with these failures, see section 14.

**Proved** (`HostProofs`): `SandboxTypeOK`, `SecretStaysShut` and
`ListsComeBack`, for any leases, users, edits and crashes, under `Single`: one
account and no such failure. The hypothesis is that of the passing run, and it
is needed: the violation `overlap` breaks the first property without its second
half, and with the service of a second account a crash in the middle of a
clean-up opens the same window, because nobody of the other account sees the
record. The invariant: at most one lease has got past the reading of the states
(`OnlyOne`), because the grant of one that has shows in the root's list until
its own clean-up takes it away under the mutex (`GrantShows`), where the next
one finds it (`protection_state`) and is refused; while the service is up, a
record belongs to a lease that is at work, and none is left of before
(`RecordFits`); a program runs only under a complete grant, which no clean-up
has begun to take away (`ProgramFits`, `CleanFits`); the states read are those
of the disk until the lists are narrowed (`ArmingFits`); so that the lists are
the users' but for one lease's entry, seals and copies (`ListsFit`), and only a
list that was read and not sealed before has copies (`CopiesFit`).

## 9. External tools: `ExternalTools`

**State and code.** `source` is the configuration of one service, an integration
(`integration_mcp.py`), a documentation service (`documentation_mcp.py`) or, by
`style`, a page of the web (`browser_tools.py`), with `versions` counting its
saves; `hunts` the connections under way to learn its tools, `task`, `leaving`
and `flow` what `connect`, `remove` and the callback keep of them; `call` the
call under way, between its question, the answer, the identity, the connection
and the sending; `approved` the agreements for a session; `doing` the run with
its generation, refusals and grant. `agreed` and `wish` record what the user
agreed to and chose.

**Abstractions.** One service, one call at a time. Refused requests change
nothing and are left out. A service may say of its tools what it likes at every
connection (`Catalog`). The preview of a page, a second removal while one waits,
the limits (32 tools, 8 connections) and a change of root under a run are left
out. An external write that is cut is recorded as a failure that may be retried.

**Run.** `executions`: one tool, two sessions, four versions, two connections,
two calls, one control. Two connections are what it takes for one to end after a
choice made between them.

**Proved** (`HostProofs`): `ToolsTypeOK`, `ChoiceStands` and `SentAsAgreed`, for
any tools, sessions, catalogues and bounds. For the choice: a connection under
way began with a version there was and, once the user has chosen, with none
that is there now (`HuntsFit`). For the call: it carries what was true when it
began (`CallIsRecent`, `OffersMatch`), whatever disturbs it before it goes out
leaves a trace that the last guards look at (`TracesRemain`), and it gets past
its question only with an agreement that is on record (`AgreedFirst`,
`ApprovedFirst`). `TracesRemain` is the heart of it: the guards before the
sending compare the generation, the version, the catalogue and the grant and
never the events themselves.

## 10. Around the runs: `SessionTurns`, `Handover`, `Conversation`

### `SessionTurns`

**State and code.** `st`, `by`, `mode` are the runs of a session, what started
each and its collaboration mode; `last`, `gen`, `halt` the last run's id,
generation and cancel flag; `item` and `sent` the queued turn and its requests;
`soon` the `advance` callbacks of the event loop; `question`, `future`, `heard`
the pending input and the future that `PlanningInteraction.ask` awaits;
`receipt` and `check` the orders to carry out a plan. `EnqueueTurn`, `Withdraw`,
`Advance`, `CloseTurns` are `turn_queue.py`, `AskUser`, `Answer`, `Interrupt`,
`ImplementBegins` and `ImplementEnds` are `planning_interaction.py`,
`RestartTurns` is `Store._recover`.

**Fairness.** `WF` on `Advance` and on the return of an answered question: the
event loop serves its callbacks. A run, a client or a user need do nothing.

**Proved** (`DeskProofs`): `TurnsTypeOK` and `TurnStartsOnce`. The invariant:
runs are numbered as they start and only the last is in progress
(`RunsInOrder`); a callback is scheduled for a run that is over and no other run
ends before it (`CallbackIsDue`); a turn that waits, waits for the last run or
has been called for (`ItemIsNext`), so that no run comes in between without a
callback that finds it. **Only model-checked**: `QueuedTurnSettles` (liveness).

### `Handover`

**State and code.** `tree` are the contents of the paths in the project's
directory and in each worktree, `hand` the hand-over a client asks for, with
where it is, what it has read and what it lists; `records` and `home` the
project's list and the workspace of the session; `wrote` what was really
written. `Look`, `ReadPath`, `Shown`, `Confirm`, `Commit`, `WriteNext`, `Land`,
`Applied`, `BreaksOff` are the steps of `WorktreeHandoff` between awaits;
`BeginWorktree`, `EndWorktree`, `RemoveWorktree`, `UseDir` are `workspaces.py`;
`Edit` is the user, `Die` the end of the service.

**Abstractions.** Git is a comparison of contents with the commit the worktree
started from. `Overlap` says whether two hand-overs may be confirmed at the same
time; the interface of the product asks for one at a time, the service does not
refuse a second one.

**Proved** (`DeskProofs`): `HandTypeOK`; `OnlyWhatWasShown` without any
hypothesis; `SessionMovesWithFiles` under `~Overlap`, as in the run. The
invariant: one hand-over is at work (`OneAtWork`), the list it will write back
is still the project's (`ListIsFresh`), and it is the last entry
(`LastIsCurrent`). With two at work the second writes an older list back; that
is the disagreement noted in section 14.

### `Conversation`

**State and code.** `log` is the append-only history, `point` the last completed
checkpoint, `order` and `draft` the one under way with the candidate computed
and not saved, `phase` where the run is, `outdated` whether its generation has
changed since the boundary, `steers` what waits to be written. `Compacts`,
`Summarized` and `ToModel` are `LocalContext.prepare`, `AskCompaction` is
`compact_context`, `Settle`, `FinishTalk` and `Revive` are `Runtime.finish` and
`Store._recover`, which close unanswered calls.

**Abstractions.** Whether the history is too long is a choice; texts, token
counts and the summary itself are left out.

**Proved** (`DeskProofs`): `TalkTypeOK` and `WordsSurvive`, for any bounds. The
invariant (`TalkInv`) says of every checkpoint, saved or only drafted, that it
fits the history (`Fits`): it reaches no further than the history, keeps items in
their order, and keeps every word up to where it reaches; as the history only
grows (`Grows`), one that fits goes on fitting. That `Candidate` fits needs what
`Retained` selects, by least counterexample over the parts it is put together
from (`PartByPart`, `RetainedKeeps`).

**Run** of the three: `desk`. Three runs, two requests and one client: enough
for a queued turn, a second one that replaces it and a run in between. One
worktree with two paths and two edits: one file is written when the other one is
edited. Eight items, two calls in a response, three messages: two groups that
are kept and two that go into the summary.

## 11. The account's records: `Records`

**State and code.** `rows` is the database: sessions with their projects,
projects with their directories, active runs, processes, grants, leases, and
whether there is a large content, which is a file of its own (`content`,
`saving`). `service` is the start of the service, with the backup before an
upgrade; `tasks` and `slots` are what is at work in memory; `chosen` and
`leaving` the choice of a project and the grants it still has to take back;
`import` a history taken over, the backup made before it and the fingerprint
after it. The disjuncts are groups of handlers: `Works` (runs and processes come
and go), `Managed` (delete and move, `app.py` and `store.py`), `Chosen` and
`Granted` (`runtime.activate_project`, `grant`), `Saves`, `LivesOn` (crash,
start, upgrade, recovery), `TakesOver` (`migration.py`).

**Abstractions.** One import with one session; the families of the legacy child
agents, the lock files and queued runs (in `WorkspaceLease`) and the digest that
binds an import's preview to it are left out. The fingerprint of the code does
not read the tables of leases, of managed executions and of the context
(`migration.py:132`); that somebody worked shows in the rows and events of his
run. The model's leaves out the leases and the loss of an execution. The two
recoveries of start-up are one step.

**Run.** `desk`: two directories, two session numbers, two runs, two grants. The
rows move in three ways, with runs at work, with choices of a project, with
large contents; their product is too large.

**Proved** (`DeskProofs`): `RecordsTypeOK`, `RecordsOutlastUse`,
`GrantsStayPut`, `RollbackLosesNothing`. The invariant: what is at work has its
session, project and directory (`WorkFits`); a grant is for the directory its
project has (`GrantsFit`); what a choice of a project has to take back is on its
list or will be (`ChoiceHolds`); and the backup of an import differs from what
the import left in the imported project and its session only, for which nobody
works unless a run was started since (`BackupFits`): that is why a rollback of a
whole database takes nothing away from those at work, because the fingerprint
refuses it after a run was started.

## 12. The pipe to the service: `ServicePipe`

**State and code.** The shell (`local_executor.rs`): `current`, `ending`, `to`,
`coming`, `waiting`, `hands`; the service (`ipc.py`, `entry.py`): `life`,
`stopped`, `work`, `open`; between them `pipe` and `deaf`. Looking up the
service, entering a request and writing its frame are separate steps of a
thread each, so that a cancel may overtake its request; the reader drains what
waits when the output ends. A service opens the data with its first request and
closes it when the last one has unwound.

**Abstractions.** An answer stands for all the frames of a response and need
never come. Invalid and oversized frames are left out; the shutdown frame and
its five seconds, and the ten seconds of a full queue, are `IsToStop` and
`KillLate`. The kill of a process tree is one step.

**Run.** `desk`: two requests, two services, one place.

**Proved** (`DeskProofs`): `DataHasOneService`, `DeadAreMissed`, for any
requests, services and places. The invariant: frames go to the service of their
request (`Addressed`), an output ends when its service is dead (`DeafAreDead`),
and while a request works on the data its service alone holds them
(`HeldByUser`).

## 13. The agent: `AgentLoop`, `ModelStream`, `Evidence`, `Reflection`

All four are in the run `agent` (and `Evidence` in `erased`).

- **`AgentLoop`** is `AgentRuntime` of the core with the local adapter: `spot`
  is the await, `thread` the messages of the loop and `filed` those of the
  context sink, `calls`, `at`, `got` the answer under way and its batch. A batch
  is at most two neighbouring reads, whose tools return in any order; an
  approval ends the loop with a checkpoint and another loop goes on. The local
  application always has a verifier. *Bounds*: three calls in an answer are the
  smallest number with a batch of two and a call behind it.
- **`ModelStream`** is one model turn: the adapters' state machines for four
  protocols, the gateway's retries, the filter that masks a secret in a stream,
  and the attempt that publishes deltas and checks the answer at the end. The
  filter (`Fed`, `Closing`) is that of one known value: it keeps back the longest
  end that may become the secret (`Begun`, `_pending`), moves the cut before the
  last secret it would fall into (`Cutoff`), replaces from the left without
  overlaps (`Replaced`) and at the end masks a beginning of the secret that is not
  short (`MinPrefix`, four in the code, two here). The patterns for keys, tokens
  and addresses are left out. Texts are sequences of two letters with the secret
  `stt`: enough for a secret cut by a delta, by the end, and begun once more before
  it is complete. Locally there is one attempt
  (`max_attempts` 1); the gateway is modelled with two. The turn begins with one
  generation and a control may bring another (`OvertakeAttempt`, `MaxTurn` 2), at
  every step of an attempt; the outdated attempt is cut or its answer is discarded
  (`CutAttempt`, `Discards`), and the next one begins with nothing of it
  (`BeginAttempt`).
- **`Evidence`** is the verifier of a local task: results with the version of
  the disk they were made on, steers that forbid something or allow it again,
  background commands, the scan, the review and the verdict, restart, rollback and resume.
  A file is read in one step; an edit that restores what was there is not seen,
  as in the code. *Bounds*: two files and three pieces of work, the shortest
  history in which a command, a write and another command settle differently;
  steers count among the work, and a ban with its release leaves room for one
  command.

  Of what a task asks for, some comes from the caller's contract (`firm`, the
  code's `explicit_requirements`), the rest is read from the user's words. A ban
  adds to the policy (`Banned`, `merge_policy`) and drops the requirements it
  blocks, a file with a note that it stays unchecked (`Sifted`); a release takes
  its ban away and brings back what the caller has asked for, and only that
  (`Released`, `task_intent.py:595-605`). After "do not run the tests" and "you may
  run the tests now" a test that was read from the words is therefore gone, and
  the work is verified without it; `VerifiedRests` asks for a test where the caller
  wants one, or the user does and has not forbidden tests or commands in between
  (`TestOwed`). *Left out*: steers that state a new requirement, tasks of the old
  schema, in which a release is recorded as a conflict instead, conflicts between
  the caller's contract and the bans of the first message, and the restrictions
  to a preview or to paths that may be read. A result is never `unknown` for want
  of requirements (the last branch of `evaluate_requirements`), because the
  verifier calls the work answered where nothing has to be settled.
- **`Reflection`** counts the failures of a goal, asks for a review before
  delivery, ends a run whose target fails again and again and binds the project's
  checks to the task. *Bounds*: `StopAt` 2 and `MaxEntry` 1 stand for 4 and 16.
  A crash while a request is out leaves the usage known, as the code does.

**Proved** (`AgentProofs`): `LoopTypeOK`, which includes the limits on steps and
calls, and `AskedOnRecord`, for any limits and any width of an answer. The
invariant: while calls run or wait, the last answer with calls is the only one
in the conversation that is open, and the results it lacks are those of the
calls that are still ahead, in their order (`LastIsOpen`), also over the
checkpoint of an approval, which keeps the rest of the calls only; a batch never
reaches beyond its calls (`BatchFits`); the record and the conversation part
only over an answer that is being checked (`OneRecord`). The number of attempts
of each call (`tries`) is not in the type invariant.

`EvidenceTypeOK`, `VerifiedRests` and `EffectsAreSettled`, for any files,
commands, contents, settings and bounds, from `EvidenceShape`: files, commands
and the word `command` are told apart, and the digest of a scan that met a link
or a file it could not read equals no disk. The invariant, along the way from a
tool call to the verdict: since a command began, every write of the task's own
tools has raised the version at least once (`StampsFit`), so that a command
whose version is current has seen the last write; a command that changed nothing
has ended on the disk it began on (`RowFits`); what the verifier holds is what
is on record, but for commands that have ended since (`LookFits`), so that what
it found to have passed has passed; an issue comes from a command whose changes
are known, which is one that has to pass again, and without an issue every
command under limits left the excluded files alone (`IssueFits`); nothing is
written to a file after a write that may be half done, so that such a write is
the last of its file and cannot pass (`UnsureFits`); and a managed command is
looked at when it ends, unless the service ended with it (`EndsSeen`), which no
verifier sees, because an unknown end forbids the resume. That an owed test is not
lost is an invariant of its own (`OwedInv`): in the terms in force and in those
that the next boundary merges, a test of the caller is wanted wherever the policy
does not block it, one of the user as long as it was never forbidden, and whatever
is blocked now was forbidden once (`TermsFit`); and the verifier holds the terms
in force (`TermsStay` says that a step leaves all this alone, which is all of them
but steers and boundaries). Work is verified only if nothing is left unperformed,
so that no ban on tests is in force at that moment.

`EffectsAreSettled` says no more than this: no file write is of unknown outcome, a
command that is still at work has been run again since, and a command under limits
whose end was looked at has left the excluded files alone. That a command's effect
may be unknown when work is called verified is the run `erased`.

`ReflectionTypeOK`, `FailureCountsOnce` and `ReviewBeforeDelivery`, for any
commands, targets, categories, checks and limits, from `ReflectionShape`, which
has `ReviewAt > 0` (two in the code). The invariant: each command whose result
was read has ended, and the count is the number of those that failed and of the
other failures (`FaultsFit`), so that reading again, a resume, a changed
workspace or a lost round neither adds nor loses one; a call starts a command
that was not started (`CallFits`), so that no command that was read runs anew;
two failures of the goal, and only they, call for a review (`CallsForReview`);
and an opinion that counts is about this goal, workspace and generation, until
the user speaks (`OpinionFits`). What the entries of the record hold is not in
the type invariant: the count and the call for a review do not rest on them.

`ModelTypeOK`, `AnswerIsWhole` and `ConfirmedInFull`, for any letters, secret,
texts, protocols and number of attempts. The invariant: as long as a stream has
not been broken off, what the adapter has put together and the frames on their
way make up the answer (`Completes`), and a stream that has ended has nothing
left; a frame that ends a stream is its last (`Ordered`); an attempt begins with
nothing left of the one before, unless a delta has been published, and then there
is no other attempt (`StandsWell`); and what the filter has passed on and keeps
back is what it would pass on and keep back if the text had come in one piece
(`Filtered`). The last one rests on lemmas about the filter: what a text ends in
does not depend on what stands further to the left (`EndOfEnd`), the replacements
of two texts whose border no secret crosses are those of their concatenation, and
no secret crosses a cut (`NothingCrosses`).
`ConfirmedInFull` (a confirmed response is what the adapter has read in full, the
answer ended by itself and its call is there) holds for any secret.
`AnswerIsWhole`, which also says that the text is shown as a whole, has the
hypothesis `Unbordered`: no beginning of the secret is its end too. It cannot go:
`feed` looks for one secret that the cut falls into (`secret_filter.py:241`) and
not again after it has moved the cut, so that the secret `ss` in `ssss` gives `**`
in one piece and `ss*` in the pieces `sss` and `s`; TLC finds this with that
secret. What induction was needed, over the parts that a text is put together
from, goes by the least counterexample.

## 14. Disagreements with the documents

Each is a run in which TLC finds the documented behaviour violated.

| Run | Where | What happens |
|---|---|---|
| `stale_response` | `core_adapter.py:322` | a control between the comparison of generations and the first step of the tool's task lets a tool of an outdated response act |
| `lease_leak` | `runtime.py:370` | a cancel handler that waits for a process interrupts the clean-up of the run, and the lease is kept |
| `split_group` | `context_history.py:217` | an answer to a question separates its call from its result, and the session is no longer compacted |
| `erased` | `completion.py:438` | a later success that changed nothing wipes out the same command that still runs, or ended unknown |
| `overlap` | `windows_sandbox.py:446` | the clean-up of a lease whose first grant failed opens a credential to the next lease's program |

Met while modelling, and not runs. *Runs and controls*: a pause received after a
resume and before the parked coroutine wakes stays received until the run ends
(`run_controls.py:204`); a pause handler that waited for processes cancels a
tool of the run that was resumed meanwhile (`run_controls.py:121`); a rollback
outside a run that stops half-way does not keep the next task out of the
workspace (`workspaces.py:168`); a queued run that was paused and resumed reads
running while it waits; a pause cuts a command whose approval record stays
pending; a run that ends with an unreadable history leaves received controls
unsettled.

*Patches*: after a patch over another one was rolled back, the earlier one can
no longer be rolled back, because its file has a new identity; a conflict inside
`replace_one` that touched nothing leaves an intent in the journal that goes on
blocking the workspace.

*Executions*: a second cancel (two clicks, or `stop_matching`'s own, or one that
meets a failed start) interrupts the clean-up of `start`; the slot is gone, the
record stays "starting" until the next restart, and the host is left to leave by
itself (113-121, 327-333). `activate_project` revokes the grants one after the
other, and an execution of a later one is recorded unknown instead of cancelled,
which the comment at 350 says does not happen. A write that is answered after
the command's end saves the final status before the evidence, against the
comment at 213, and a death in between leaves a row that `recover` does not
touch. When the host of a monitor that never ran survives its kill, `cancel`
fails and the slot is not given back. A write whose answer is late fails for its
caller although it was delivered, and the version stays the same. A process
recorded unknown is never cleared (`execution_store.py:85`), so that its session
cannot be deleted and its workspace stays locked.

*Host*: an error of reading an output is reported as its complete end
(`main.rs:639`); sequence numbers start again after `output_incomplete`; events
queued before the end of the host's output are lost once the client has failed.

*Worktrees and records*: two hand-overs confirmed at the same time lose a record
(`worktree_handoff.py:101`, `docs/workbench-guide.md:46`); a crash between the
lock file and its row leaves a deletable session whose run the lock file names;
a resume checks the directory before it awaits the host and may go on in a
directory the project was moved to meanwhile (`recovery.py:182`); a rollback of
an import restores `sqlite_sequence`, so that ids are used again; of two choices
of a project under way the earlier one takes back a grant given after the later
one.

*External tools*: a call of a documentation service that has begun is not
stopped by the revocation of its grant; a service that is removed and connected
again while the old connection unwinds raises `KeyError`
(`integration_mcp.py:279`).

*Service pipe*: the shell frees the place of a cancelled request at once, the
service when it has unwound; a legal request may then be the 65th and end the
service (`ipc.py:191`). A cancel that overtakes its request is ignored.

*Evidence*: `docs/local-tool-system.md:113` says that the old commands and the
managed ones compare the files before and after for the write scopes. A command that
the agent waits for is compared only if it exits: one that times out, fails or is
cancelled raises first (`runtime.py:918-948`), and so does one whose run was stopped
(`runtime.py:849-891`), so that what it changed outside the scopes is not noticed
(`LooksAfter`). A test that was read from the user's words is not asked for any
more after it was forbidden and allowed again (`task_intent.py:595`).

## 15. The proofs, and what is out of their reach

| Module | Theorems | Properties of runs that they state |
|---|---|---|
| `RunControlProofs` | 8 | `NoLateEffect`, `RefusalHolds`, `NoSteerLost`, `ResponseSawSteers` |
| `WorkspaceLeaseProofs` | 5 | `NoTwoWriters`, `PromiseKept` |
| `PatchSetProofs` | 8 | `JournalIsTrue`, `NoEditLost`, `RollbackRestores`, `NothingUnconfirmed` |
| `ExecutionSessionProofs` | 5 | `FinalOnce`, `RevokedIsStopped` |
| `HostProofs` | 9 | `HostIsPipe`; `ChoiceStands`, `SentAsAgreed`; `SecretStaysShut`, `ListsComeBack` (under `Single`) |
| `DeskProofs` | 13 | `WordsSurvive`; `TurnStartsOnce`, `OnlyWhatWasShown`, `SessionMovesWithFiles` (under `~Overlap`); `RecordsOutlastUse`, `GrantsStayPut`, `RollbackLosesNothing`, `DataHasOneService`, `DeadAreMissed` |
| `MemoryProofs` | 3 | `OnlyWithConsent`, `ForgottenStays` |
| `AgentProofs` | 11 | `AnswerIsWhole` (under `Unbordered`); `AskedOnRecord`, `VerifiedRests`, `EffectsAreSettled`, `FailureCountsOnce`, `ReviewBeforeDelivery` |

Every theorem holds for every value of the constants that satisfies the
assumption named in its component's module; the three hypotheses above are the
only others. Each has an inductive invariant, which TLC has checked on the
instance of the run before it was proved, with a lemma for every action.

What stays with TLC: liveness (`CancelEnds`, `ControlSettles`, `StopsReturn`,
`EndIsReported`, `NobodyIsLeft`, `QueuedTurnSettles`), because the provers know
neither fairness nor `ENABLED`. Every invariant and every action property that a
passing run checks is proved.

## 16. Runs

| Run | Module | Shows |
|---|---|---|
| `control` | `MCRunControl` | the safety of runs and controls over chains of resumes |
| `live` | `MCLive` | controls end under fairness; the leases and what they promise |
| `patches` | `MCPatchSet` | patches, and memories |
| `executions` | `MCHost` | executions, a command's stream, the sandbox and external tools |
| `executions_end` | `MCHost` | the ends of executions and of a stream, under fairness |
| `desk` | `MCDesk` | turns, hand-over, history, records, the pipe to the service |
| `agent` | `MCAgent` | the loop, the stream of a model, evidence, reflection |
| `stale_response`, `lease_leak`, `split_group`, `erased`, `overlap` | | section 14 |

Deadlock is not checked: each of these systems may come to rest when the user
asks for nothing and the bounds are used up.

## 17. What is not modelled, and why

Policy decides on strings, and only its outcome is a choice in `RunControl` and
`AgentLoop`. Skills are files read into a prompt; the interface is a client of
the handlers that are modelled; the acceptance scripts drive the product from
outside. The legacy protocol without controls and the child agents are left out.
