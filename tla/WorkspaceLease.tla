--------------------------- MODULE WorkspaceLease ---------------------------
(***************************************************************************)
(* The leases of the workspaces (Workspaces, FileLock).                    *)
(*                                                                         *)
(* Every account has an executor, a process with a database of its own.    *)
(* The executors share one lock file per workspace: the operating system's *)
(* lock on it, which is gone when the executor dies, and its content, which*)
(* names the last run that held the workspace and outlives the executor.   *)
(* A managed process may outlive its run, and for a moment its executor.   *)
(***************************************************************************)
EXTENDS Naturals, FiniteSets

CONSTANTS
  Account, Workspace, Run,
  AccountOf, WorkspaceOf,  \* of every run
  Limit,                   \* workspaces an executor holds at most
  None

ASSUME AccountAssumption == AccountOf \in [Run -> Account]
ASSUME WorkspaceAssumption == WorkspaceOf \in [Run -> Workspace]
ASSUME NoneAssumption == None \notin Run /\ None \notin Account /\ Run \cap Account = {}

VARIABLES
  up,       \* the account's executor is alive
  busy,     \* run whose _take or release is between its two writes
  at,       \* where the run's coroutine is
  ahead,    \* runs that were in the waiting list when this one was appended
  held,     \* runs with an entry in Workspaces.held
  lock,     \* holder of the lock on the workspace's file: a run, or an account
  note,     \* run named in the lock file
  row,      \* workspace_leases of the account's database
  proc,     \* the run's managed process; one stands for all
  unsure,   \* the database knows effects of the run that are not verified
  undo,     \* run whose patch the holder of the lock rolls back
  broken,   \* a rollback of the run's patches was left half done
  calledOff   \* runs whose cancel handler waits for the process

runnerVars   == <<at, ahead, proc, calledOff>>
fileVars == <<lock, note>>
dbVars   == <<row, unsure, broken>>
leaseVars == <<up, busy, held, undo, runnerVars, fileVars, dbVars>>

\* A run that never held its workspace ends as dropped.
Stages == {"new", "waiting", "parked", "dropped", "working", "ending", "leaked", "over"}

Of(a) == {r \in Run : AccountOf[r] = a}
In(w) == {r \in Run : WorkspaceOf[r] = w}
Waiting(r) == at[r] \in {"waiting", "parked"}
\* active_run_status; a run that is ending has its final status.
InHand(r) == Waiting(r) \/ at[r] = "working"
\* The executor is alive and not inside a synchronous section.
Free(a) == up[a] /\ busy[a] = None

LeaseInit ==
  /\ up = [a \in Account |-> TRUE] /\ busy = [a \in Account |-> None]
  /\ at = [r \in Run |-> "new"] /\ ahead = [r \in Run |-> {}]
  /\ held = {}
  /\ lock = [w \in Workspace |-> None] /\ note = [w \in Workspace |-> None]
  /\ row = [a \in Account |-> [w \in Workspace |-> "none"]]
  /\ proc = [r \in Run |-> "none"]
  /\ unsure = [r \in Run |-> FALSE]
  /\ undo = [w \in Workspace |-> None] /\ broken = [r \in Run |-> FALSE]
  /\ calledOff = {}

-----------------------------------------------------------------------------
(* Workspaces.acquire. *)

Go(r, p) == at' = [at EXCEPT ![r] = p]

Enqueue(r) ==
  /\ Free(AccountOf[r]) /\ at[r] = "new"
  /\ Go(r, "waiting")
  /\ ahead' = [ahead EXCEPT ![r] = {s \in Of(AccountOf[r]) : Waiting(s)}]
  /\ UNCHANGED <<up, busy, held, undo, proc, calledOff, fileVars, dbVars>>

\* A paused run keeps its place in the list; a cancelled one leaves it.
Queue(r) ==
  /\ Free(AccountOf[r])
  /\ \/ at[r] = "waiting" /\ Go(r, "parked")
     \/ at[r] = "parked" /\ Go(r, "waiting")
     \/ Waiting(r) /\ Go(r, "dropped")
  /\ UNCHANGED <<up, busy, held, undo, ahead, proc, calledOff, fileVars, dbVars>>

\* What the last holder left can be verified, by its own account only.
Verifiable(w, a) ==
  note[w] # None => AccountOf[note[w]] = a /\ ~unsure[note[w]] /\ ~broken[note[w]]

LockFile(w, x) == lock[w] = None /\ lock' = [lock EXCEPT ![w] = x]

\* _take as far as the lock file: nobody of the same workspace is held or ahead.
TakeFile(r) ==
  LET a == AccountOf[r]
      w == WorkspaceOf[r] IN
  /\ Free(a) /\ at[r] = "waiting"
  /\ Cardinality(held \cap Of(a)) < Limit
  /\ \A s \in ahead[r] \cap In(w) : ~Waiting(s)
  /\ held \cap Of(a) \cap In(w) = {}
  /\ LockFile(w, r)
  /\ Verifiable(w, a)
  /\ note' = [note EXCEPT ![w] = r]
  /\ busy' = [busy EXCEPT ![a] = r]
  /\ UNCHANGED <<up, held, undo, runnerVars, dbVars>>

\* _take as far as the database, which may refuse: the lock is then closed, the
\* lock file keeps the name of the run.
TakeRow(r) ==
  LET a == AccountOf[r] IN
  /\ up[a] /\ busy[a] = r /\ r \notin held
  /\ row' = [row EXCEPT ![a][WorkspaceOf[r]] = "held"]
  /\ held' = held \cup {r}
  /\ Go(r, "working")
  /\ busy' = [busy EXCEPT ![a] = None]
  /\ UNCHANGED <<up, undo, ahead, proc, calledOff, fileVars, unsure, broken>>

TakeFails(r) ==
  LET a == AccountOf[r] IN
  /\ up[a] /\ busy[a] = r /\ r \notin held
  /\ lock' = [lock EXCEPT ![WorkspaceOf[r]] = None]
  /\ Go(r, "dropped")
  /\ busy' = [busy EXCEPT ![a] = None]
  /\ UNCHANGED <<up, held, undo, ahead, proc, calledOff, note, dbVars>>

-----------------------------------------------------------------------------
(* Workspaces.release, called in the step that makes it possible: the lock file
   is cleared unless the run left unverified effects, then the row is written. *)

\* Faulty variant: the file is cleared whatever the run left.
ReleaseFileFaulty(r, doubt) ==
  /\ note' = [note EXCEPT ![WorkspaceOf[r]] = None]
  /\ busy' = [busy EXCEPT ![AccountOf[r]] = r]

ReleaseFile(r, doubt) ==
  /\ note' = IF doubt THEN note ELSE [note EXCEPT ![WorkspaceOf[r]] = None]
  /\ busy' = [busy EXCEPT ![AccountOf[r]] = r]

KeepLease == UNCHANGED <<note, busy>>

ReleaseRow(r) ==
  LET a == AccountOf[r]
      w == WorkspaceOf[r] IN
  /\ up[a] /\ busy[a] = r /\ r \in held
  /\ row' = [row EXCEPT ![a][w] = IF unsure[r] THEN "reconcile" ELSE "released"]
  /\ lock' = [lock EXCEPT ![w] = None]
  /\ held' = held \ {r}
  /\ busy' = [busy EXCEPT ![a] = None]
  /\ UNCHANGED <<up, undo, runnerVars, note, unsure, broken>>

-----------------------------------------------------------------------------
(* A run that holds its workspace. *)

\* A command whose outcome is unknown, a change that could not be confirmed.
LosesTrack(r) ==
  /\ Free(AccountOf[r]) /\ at[r] = "working"
  /\ unsure' = [unsure EXCEPT ![r] = TRUE]
  /\ UNCHANGED <<up, busy, held, undo, runnerVars, fileVars, row, broken>>

StartProcess(r) ==
  /\ Free(AccountOf[r]) /\ at[r] = "working"
  /\ r \notin calledOff
  /\ proc[r] = "none"
  /\ proc' = [proc EXCEPT ![r] = "running"]
  /\ UNCHANGED <<up, busy, held, undo, at, ahead, calledOff, fileVars, dbVars>>

\* The cancel handler stops the process first and waits for its monitor.
CancelTask(r) ==
  /\ Free(AccountOf[r]) /\ at[r] = "working" /\ proc[r] = "running"
  /\ calledOff' = calledOff \cup {r}
  /\ UNCHANGED <<up, busy, held, undo, at, ahead, proc, fileVars, dbVars>>

\* The run is finished and execute cleans up: without a process it is over; a
\* process to be stopped is waited for; one that is retained keeps the lease.
End(r) ==
  /\ Free(AccountOf[r]) /\ at[r] = "working"
  /\ \/ proc[r] = "none" /\ Go(r, "over") /\ ReleaseFile(r, unsure[r])
     \/ proc[r] = "running" /\ Go(r, "ending") /\ KeepLease
     \/ proc[r] = "running" /\ r \notin calledOff /\ Go(r, "over") /\ KeepLease
  /\ UNCHANGED <<up, held, undo, ahead, proc, calledOff, lock, dbVars>>

\* The monitor releases when the run has no task any more.
MonitorReleases(r) ==
  IF at[r] = "over" THEN ReleaseFile(r, unsure'[r]) ELSE KeepLease

\* A process may end in a way that leaves its effects unknown.
Outcome(r) == unsure' = unsure \/ unsure' = [unsure EXCEPT ![r] = TRUE]

ProcessEnds(r) ==
  /\ Free(AccountOf[r]) /\ proc[r] = "running"
  /\ proc' = [proc EXCEPT ![r] = "none"]
  /\ Outcome(r)
  /\ MonitorReleases(r)
  /\ UNCHANGED <<up, held, undo, at, ahead, calledOff, lock, row, broken>>

\* Whoever began to wait for the process first goes on first.
EndingGoesOn(r) ==
  /\ Free(AccountOf[r]) /\ at[r] = "ending" /\ proc[r] = "none" /\ r \notin calledOff
  /\ Go(r, "over")
  /\ ReleaseFile(r, unsure[r])
  /\ UNCHANGED <<up, held, undo, ahead, proc, calledOff, lock, dbVars>>

\* The handler calledOff the task.  A run at work ends as cancelled; one that is
\* ending is cut before it leaves the list of tasks and releases its lease.
CancelGoesOn(r) ==
  /\ Free(AccountOf[r]) /\ r \in calledOff /\ proc[r] = "none"
  /\ calledOff' = calledOff \ {r}
  /\ \/ at[r] = "working" /\ Go(r, "over") /\ ReleaseFile(r, unsure[r])
     \/ at[r] = "ending" /\ Go(r, "leaked") /\ KeepLease
  /\ UNCHANGED <<up, held, undo, ahead, proc, lock, dbVars>>

-----------------------------------------------------------------------------
(* Workspaces.exclusive: a change the user makes without a run, such as a branch
   switch, or the rollback of a patch of a run that has ended. *)

Idle(a, w) == held \cap Of(a) \cap In(w) = {} /\ row[a][w] \in {"none", "released"}

Open(a, w) == Free(a) /\ Idle(a, w) /\ LockFile(w, a) /\ note[w] = None

ChangeBegins(a, w) ==
  /\ Open(a, w)
  /\ UNCHANGED <<up, busy, held, undo, runnerVars, note, dbVars>>

RollbackBegins(r) ==
  LET a == AccountOf[r]
      w == WorkspaceOf[r] IN
  /\ Open(a, w)
  /\ at[r] = "over" /\ \A s \in Of(a) : ~InHand(s)
  /\ undo' = [undo EXCEPT ![w] = r]
  /\ UNCHANGED <<up, busy, held, runnerVars, note, dbVars>>

\* A rollback that fails leaves a change of the run neither made nor unmade.
Undone(w) ==
  \/ UNCHANGED broken
  \/ undo[w] # None /\ broken' = [broken EXCEPT ![undo[w]] = TRUE]

ChangeEnds(a, w) ==
  /\ Free(a) /\ lock[w] = a
  /\ lock' = [lock EXCEPT ![w] = None]
  /\ undo' = [undo EXCEPT ![w] = None]
  /\ Undone(w)
  /\ UNCHANGED <<up, busy, held, runnerVars, note, row, unsure>>

-----------------------------------------------------------------------------
(* The executor dies and is started again. *)

\* Faulty variant: a process that outlives the executor is forgotten.
LeftInDoubtFaulty(a, S) == S

\* Runs whose work was cut in the middle: their managed processes, and the
\* commands and changes S that were under way.
LeftInDoubt(a, S) == S \cup {r \in Of(a) : proc[r] = "running"}

Dies(a) ==
  /\ up[a]
  /\ up' = [up EXCEPT ![a] = FALSE]
  /\ busy' = [busy EXCEPT ![a] = None]
  /\ at' = [r \in Run |-> CASE r \in Of(a) /\ Waiting(r) -> "dropped"
                          [] r \in Of(a) /\ at[r] \in {"working", "ending", "leaked"} -> "over"
                          [] OTHER -> at[r]]
  /\ held' = held \ Of(a) /\ calledOff' = calledOff \ Of(a)
  /\ lock' = [w \in Workspace |-> IF lock[w] \in Of(a) \cup {a} THEN None ELSE lock[w]]
  /\ undo' = [w \in Workspace |-> IF lock[w] = a THEN None ELSE undo[w]]
  /\ \E S \in SUBSET {r \in Of(a) : at[r] = "working"} :
       unsure' = [r \in Run |-> unsure[r] \/ r \in LeftInDoubt(a, S)]
  /\ broken' = [r \in Run |-> broken[r] \/ \E w \in Workspace : lock[w] = a /\ undo[w] = r]
  /\ proc' = [r \in Run |-> IF r \in Of(a) /\ proc[r] = "running" THEN "orphan" ELSE proc[r]]
  /\ UNCHANGED <<ahead, note, row>>

\* The host notices that nobody reads from it and kills the process tree.
OrphanEnds(r) ==
  /\ proc[r] = "orphan"
  /\ proc' = [proc EXCEPT ![r] = "none"]
  /\ UNCHANGED <<up, busy, held, undo, at, ahead, calledOff, fileVars, dbVars>>

\* Store._recover.
Starts(a) ==
  /\ ~up[a]
  /\ up' = [up EXCEPT ![a] = TRUE]
  /\ row' = [row EXCEPT ![a] = [w \in Workspace |-> IF row[a][w] = "held" THEN "reconcile" ELSE row[a][w]]]
  /\ UNCHANGED <<busy, held, undo, runnerVars, fileVars, unsure, broken>>

-----------------------------------------------------------------------------
Acquire(r) == Enqueue(r) \/ Queue(r) \/ TakeFile(r) \/ TakeRow(r) \/ TakeFails(r)

Work(r) ==
  \/ LosesTrack(r) \/ StartProcess(r) \/ CancelTask(r) \/ End(r) \/ ReleaseRow(r)
  \/ ProcessEnds(r) \/ EndingGoesOn(r) \/ CancelGoesOn(r) \/ OrphanEnds(r)

LeaseNext ==
  \/ \E r \in Run : Acquire(r) \/ Work(r) \/ RollbackBegins(r)
  \/ \E a \in Account, w \in Workspace : ChangeBegins(a, w) \/ ChangeEnds(a, w)
  \/ \E a \in Account : Dies(a) \/ Starts(a)

LeaseSpec == LeaseInit /\ [][LeaseNext]_leaseVars

\* A synchronous section runs to its end unless the executor dies, a managed
\* process has a timeout, and whoever waits for one goes on.
LeaseFairSpec ==
  /\ LeaseSpec
  /\ \A r \in Run : /\ WF_leaseVars(TakeRow(r) \/ TakeFails(r)) /\ WF_leaseVars(ReleaseRow(r))
                    /\ WF_leaseVars(ProcessEnds(r)) /\ WF_leaseVars(EndingGoesOn(r)) /\ WF_leaseVars(CancelGoesOn(r))
-----------------------------------------------------------------------------
(* The state is of its type. *)
LeaseTypeOK ==
  /\ up \in [Account -> BOOLEAN] /\ busy \in [Account -> Run \cup {None}]
  /\ at \in [Run -> Stages] /\ ahead \in [Run -> SUBSET Run]
  /\ held \subseteq Run /\ calledOff \subseteq Run
  /\ lock \in [Workspace -> Run \cup Account \cup {None}]
  /\ note \in [Workspace -> Run \cup {None}] /\ undo \in [Workspace -> Run \cup {None}]
  /\ row \in [Account -> [Workspace -> {"none", "held", "released", "reconcile"}]]
  /\ proc \in [Run -> {"none", "running", "orphan"}]
  /\ unsure \in [Run -> BOOLEAN] /\ broken \in [Run -> BOOLEAN]

\* A run works in its workspace while its coroutine or its process does.
Touches(r) == at[r] \in {"working", "ending"} \/ proc[r] # "none"
Changing(w) == lock[w] \in Account

(* Two runs never work in a workspace at a time, nor a run and a change made by
   the user: across executors, and also while the process of a dead executor
   has not been killed yet (_take, release, exclusive, _recover). *)
NoTwoWriters ==
  /\ \A r, s \in Run : Touches(r) /\ Touches(s) /\ WorkspaceOf[r] = WorkspaceOf[s] => r = s
  /\ \A r \in Run : Touches(r) => ~Changing(WorkspaceOf[r])

(* A workspace in which a run left unverified effects is entered by nobody: not
   by a run of any account, not by a change of the user, before or after a
   restart (the note that release keeps and _take inspects). *)
NoUnverifiedHandover ==
  [][\A r \in Run, a \in Account, w \in Workspace :
       (TakeFile(r) /\ WorkspaceOf[r] = w) \/ Open(a, w) => \A s \in In(w) : ~unsure[s]]_leaseVars

(* The three records of a lease agree while it is held: the lock, the name in
   the lock file and the row of the database. *)
LeaseAgrees ==
  \A r \in held :
    LET w == WorkspaceOf[r] IN
    /\ up[AccountOf[r]] /\ lock[w] = r
    /\ busy[AccountOf[r]] # r => note[w] = r /\ row[AccountOf[r]][w] = "held"

\* Who works in a workspace is its user; there is one.
UserOf(w) ==
  IF \E r \in In(w) : Touches(r) THEN CHOOSE r \in In(w) : Touches(r)
  ELSE IF Changing(w) THEN lock[w] ELSE None

Closed(w) == \E r \in In(w) : unsure[r]

Promise ==
  INSTANCE WorkspaceUse WITH
    User <- Run \cup Account,
    user <- [w \in Workspace |-> UserOf(w)],
    closed <- [w \in Workspace |-> Closed(w)]

(* The leases keep the promise of WorkspaceUse: a workspace has one user at a
   time, and one with unverified effects stays closed. *)
PromiseKept == Promise!Spec
-----------------------------------------------------------------------------
(* What the documents say of the leases and the code does not do. *)

Ended(r) == at[r] \in {"ending", "leaked", "over"}

(* s5-validation-report.md:65: a process that is retained keeps the lease until
   it is closed, then the lease is released.  A cancel handler that began to
   wait for it before the run did cuts the clean-up of the run. *)
LeaseIsReturned ==
  \A r \in Run : (Ended(r) /\ r \in held) ~> (r \notin held)
=============================================================================
