------------------------------ MODULE Records ------------------------------
(***************************************************************************)
(* The records of an account (store.py) and what changes them as a whole:  *)
(* opening and upgrading them, deleting sessions and projects and moving a *)
(* project to another directory (app.py), taking over a history from       *)
(* another client and taking that back (migration.py).  Runs, processes,   *)
(* leases and grants appear as far as those operations depend on them.     *)
(*                                                                         *)
(* rows is what the database holds.  The service handles one request at a  *)
(* time, and every operation here is one transaction unless it waits or    *)
(* writes a file: these are steps of their own, and a crash may fall       *)
(* between any two.                                                        *)
(***************************************************************************)
EXTENDS Naturals, FiniteSets

CONSTANTS
  Folder,       \* directories of the disk
  FirstFolder,  \* that of the project there is at first
  MaxId,        \* bound of the sessions ever numbered
  MaxRuns,      \* bound of the runs
  MaxGrant,     \* bound of the grants
  Nowhere       \* no directory

ASSUME RecordsShape ==
  /\ FirstFolder \in Folder /\ Nowhere \notin Folder /\ "none" \notin Folder
  /\ {MaxId, MaxRuns, MaxGrant} \subseteq Nat

Id == 1..MaxId
Project == {"own", "imported"}
NoOne == 0

VARIABLES
  rows,    \* the database
  import,  \* the history it took over, with the backup made before
  content, \* the one file of large contents: "none", "torn", "whole"
  service, \* "off", "open", "safe" (its backup is made) or "on"
  saving,  \* whether a large content is being saved
  tasks,   \* where each session's task works
  slots,   \* where each session's process runs
  chosen,  \* the project the user looks at, "any" before the first choice
  leaving  \* for each choice under way what it has left to take back

storeVars == <<rows, import, content, service, saving, tasks, slots, chosen, leaving>>

Released == [by |-> NoOne, state |-> "released"]
NoImport == [made |-> FALSE]
NoLeaving == [at |-> "none", grants |-> {}]

FirstRows == [
  schema |-> "now", next |-> 2, runs |-> 0, grants |-> 0,
  home  |-> [s \in Id |-> IF s = 1 THEN "own" ELSE "none"],
  root  |-> [p \in Project |-> IF p = "own" THEN FirstFolder ELSE Nowhere],
  run   |-> [s \in Id |-> "none"], proc |-> [s \in Id |-> "none"],
  grant |-> [s \in Id |-> "none"], lease |-> [d \in Folder |-> Released], large |-> FALSE]

NoTasks == [s \in Id |-> Nowhere]

RecordsInit ==
  /\ rows \in {[FirstRows EXCEPT !.schema = v] : v \in {"old", "now", "newer"}}
  /\ import = NoImport /\ content = "none" /\ service = "off" /\ saving = FALSE
  /\ tasks = NoTasks /\ slots = NoTasks
  /\ chosen = "any" /\ leaving = [p \in Project |-> NoLeaving]

-----------------------------------------------------------------------------
(* Opening. *)

Sessions == {s \in Id : rows.home[s] # "none"}
SessionsOf(p) == {s \in Id : rows.home[s] = p}
Unsure == {"lost", "unknown"}
Memory == <<saving, tasks, slots, chosen, leaving>>
Forgets ==
  /\ saving' = FALSE /\ tasks' = NoTasks /\ slots' = NoTasks
  /\ chosen' = "any" /\ leaving' = [p \in Project |-> NoLeaving]

\* Store.__init__, Store._migrate: records of a newer client are left alone.
OpenRecords ==
  /\ service = "off" /\ rows.schema # "newer"
  /\ service' = "open"
  /\ UNCHANGED <<rows, import, content, Memory>>

BackUp ==
  /\ service = "open" /\ rows.schema = "old"
  /\ service' = "safe"
  /\ UNCHANGED <<rows, import, content, Memory>>

Upgrade ==
  /\ service = "safe"
  /\ rows' = [rows EXCEPT !.schema = "now"] /\ service' = "open"
  /\ UNCHANGED <<import, content, Memory>>

\* Store._recover: what ran is over, what a process did is not known, a lease
\* waits to be checked and no grant outlives the service.
Recover ==
  /\ service = "open" /\ rows.schema = "now"
  /\ rows' = [rows EXCEPT
       !.run   = [s \in Id |-> "none"],
       !.proc  = [s \in Id |-> IF @[s] = "live" THEN "lost" ELSE @[s]],
       !.grant = [s \in Id |-> "none"],
       !.lease = [d \in Folder |-> IF @[d].state = "held" THEN [@[d] EXCEPT !.state = "reconcile"] ELSE @[d]]]
  /\ service' = "on"
  /\ UNCHANGED <<import, content, Memory>>

Crash ==
  /\ service # "off" /\ service' = "off" /\ Forgets
  /\ UNCHANGED <<rows, import, content>>

\* The service takes the next request.
Serves == service = "on" /\ ~saving

\* Runtime.close ends the runs and the processes first.
Close ==
  /\ Serves /\ tasks = NoTasks /\ slots = NoTasks
  /\ rows' = [rows EXCEPT !.grant = [s \in Id |-> "none"]]
  /\ service' = "off" /\ Forgets
  /\ UNCHANGED <<import, content>>

-----------------------------------------------------------------------------
(* Large contents: Store._pack writes a file named for the content, unless *)
(* there is one, before the row that names it.                             *)

SaveLarge ==
  /\ Serves /\ ~rows.large
  /\ IF content = "none"
       THEN saving' = TRUE /\ UNCHANGED rows
       ELSE rows' = [rows EXCEPT !.large = TRUE] /\ UNCHANGED saving
  /\ UNCHANGED <<import, content, service, tasks, slots, chosen, leaving>>

\* The temporary file does not show until it is whole.
Written == "whole"

WriteContent ==
  /\ service = "on" /\ saving /\ content # "whole"
  /\ content' = Written
  /\ UNCHANGED <<rows, import, service, saving, tasks, slots, chosen, leaving>>

SaveRow ==
  /\ service = "on" /\ saving /\ content = "whole"
  /\ rows' = [rows EXCEPT !.large = TRUE] /\ saving' = FALSE
  /\ UNCHANGED <<import, content, service, tasks, slots, chosen, leaving>>

-----------------------------------------------------------------------------
(* Sessions at work. *)

CreateSession(p) ==
  /\ Serves /\ rows.root[p] # Nowhere /\ rows.next <= MaxId
  /\ rows' = [rows EXCEPT !.home[rows.next] = p, !.next = @ + 1]
  /\ UNCHANGED <<import, content, service, Memory>>

\* Nobody at work holds the directory, and what its last holder left is known.
Available(d) ==
  /\ \A s \in Id : d \notin {tasks[s], slots[s]}
  /\ rows.lease[d].state # "released" => rows.proc[rows.lease[d].by] \notin Unsure

RunStarts(s) ==
  /\ Serves /\ s \in Sessions /\ tasks[s] = Nowhere /\ rows.run[s] # "active" /\ rows.runs < MaxRuns
  /\ LET d == rows.root[rows.home[s]] IN
       /\ Available(d)
       /\ tasks' = [tasks EXCEPT ![s] = d]
       /\ rows' = [rows EXCEPT !.runs = @ + 1, !.run[s] = "active", !.lease[d] = [by |-> s, state |-> "held"]]
  /\ UNCHANGED <<import, content, service, saving, slots, chosen, leaving>>

Spawn(s) ==
  /\ Serves /\ tasks[s] # Nowhere /\ rows.run[s] = "active" /\ rows.proc[s] = "none"
  /\ slots' = [slots EXCEPT ![s] = tasks[s]]
  /\ rows' = [rows EXCEPT !.proc[s] = "live"]
  /\ UNCHANGED <<import, content, service, saving, tasks, chosen, leaving>>

\* The run's end is on record while its task still puts things away.
EndRun(s) ==
  /\ Serves /\ tasks[s] # Nowhere /\ rows.run[s] = "active"
  /\ rows' = [rows EXCEPT !.run[s] = "none"]
  /\ UNCHANGED <<import, content, service, Memory>>

\* Workspaces.release.
Returned(r, s, d) ==
  IF r.lease[d] = [by |-> s, state |-> "held"]
    THEN [r EXCEPT !.lease[d] = IF r.proc[s] \in Unsure THEN [@ EXCEPT !.state = "reconcile"] ELSE Released]
    ELSE r

TaskGone(s) ==
  /\ Serves /\ tasks[s] # Nowhere /\ rows.run[s] = "none"
  /\ tasks' = [tasks EXCEPT ![s] = Nowhere]
  /\ rows' = IF slots[s] = Nowhere THEN Returned(rows, s, tasks[s]) ELSE rows
  /\ UNCHANGED <<import, content, service, saving, slots, chosen, leaving>>

ProcessOver(s) ==
  /\ Serves /\ slots[s] # Nowhere /\ rows.proc[s] = "live"
  /\ \E v \in {"none", "unknown"} : rows' = [rows EXCEPT !.proc[s] = v]
  /\ UNCHANGED <<import, content, service, Memory>>

SlotGone(s) ==
  /\ Serves /\ slots[s] # Nowhere /\ rows.proc[s] # "live"
  /\ slots' = [slots EXCEPT ![s] = Nowhere]
  /\ rows' = IF tasks[s] = Nowhere THEN Returned(rows, s, slots[s]) ELSE rows
  /\ UNCHANGED <<import, content, service, saving, tasks, chosen, leaving>>

-----------------------------------------------------------------------------
(* Deleting and moving. *)

\* ensure_management_idle.
AtWork(s) == tasks[s] # Nowhere \/ slots[s] # Nowhere

\* Store.ensure_deletable.
OnRecord(s) ==
  \/ rows.run[s] = "active"
  \/ rows.proc[s] \in {"live"} \cup Unsure
  \/ \E d \in Folder : rows.lease[d].by = s /\ rows.lease[d].state # "released"

\* The end of a run is not the end of its work.
InUseFaulty(S) == \E s \in S : rows.run[s] = "active" \/ slots[s] # Nowhere
InUse(S) == \E s \in S : AtWork(s) \/ OnRecord(s)

Without(r, S) == [r EXCEPT
  !.home  = [s \in Id |-> IF s \in S THEN "none" ELSE @[s]],
  !.run   = [s \in Id |-> IF s \in S THEN "none" ELSE @[s]],
  !.proc  = [s \in Id |-> IF s \in S THEN "none" ELSE @[s]],
  !.grant = [s \in Id |-> IF s \in S THEN "none" ELSE @[s]],
  !.lease = [d \in Folder |-> IF @[d].by \in S THEN Released ELSE @[d]]]

DeleteSession(s) ==
  /\ Serves /\ s \in Sessions /\ ~InUse({s})
  /\ rows' = Without(rows, {s})
  /\ UNCHANGED <<import, content, service, Memory>>

DeleteProject(p) ==
  /\ Serves /\ rows.root[p] # Nowhere /\ ~InUse(SessionsOf(p))
  /\ rows' = [Without(rows, SessionsOf(p)) EXCEPT !.root[p] = Nowhere]
  /\ chosen' = IF chosen = p THEN "none" ELSE chosen
  /\ UNCHANGED <<import, content, service, saving, tasks, slots, leaving>>

\* What was granted for the old directory does not hold for the new one.
MovedFaulty(p, d) == [rows EXCEPT !.root[p] = d]
Moved(p, d) == [rows EXCEPT !.root[p] = d,
  !.grant = [s \in Id |-> IF s \in SessionsOf(p) THEN "none" ELSE @[s]]]

ChangeRoot(p, d) ==
  /\ Serves /\ rows.root[p] \notin {Nowhere, d} /\ ~InUse(SessionsOf(p))
  /\ \A q \in Project : rows.root[q] # d
  /\ rows' = Moved(p, d)
  /\ UNCHANGED <<import, content, service, Memory>>

-----------------------------------------------------------------------------
(* Grants of full access, and the choice of a project. *)

GrantFull(s) ==
  /\ Serves /\ s \in Sessions /\ chosen \in {"any", rows.home[s]}
  /\ rows.grant[s] \notin Folder /\ rows.grants < MaxGrant
  /\ rows' = [rows EXCEPT !.grants = @ + 1, !.grant[s] = rows.root[rows.home[s]]]
  /\ UNCHANGED <<import, content, service, Memory>>

Revoke(s) ==
  /\ Serves /\ rows.grant[s] \in Folder
  /\ rows' = [rows EXCEPT !.grant[s] = "none"]
  /\ UNCHANGED <<import, content, service, Memory>>

\* Runtime.activate_project: the choice holds before the commands of the
\* other projects have stopped.
Chooses(p) == chosen' = p

Choose(p) ==
  /\ Serves /\ rows.root[p] # Nowhere /\ leaving[p] = NoLeaving
  /\ Chooses(p)
  /\ leaving' = [leaving EXCEPT ![p] = [at |-> "stops", grants |-> {}]]
  /\ UNCHANGED <<rows, import, content, service, saving, tasks, slots>>

ListGrants(p) ==
  /\ Serves /\ leaving[p].at = "stops"
  /\ leaving' = [leaving EXCEPT ![p] =
       [at |-> "revokes", grants |-> {s \in Sessions : rows.grant[s] \in Folder /\ rows.home[s] # p}]]
  /\ UNCHANGED <<rows, import, content, service, saving, tasks, slots, chosen>>

\* Revoking one waits until what it allowed has stopped.
RevokeNext(p) ==
  /\ Serves /\ leaving[p].at = "revokes"
  /\ IF leaving[p].grants = {}
       THEN leaving' = [leaving EXCEPT ![p] = NoLeaving] /\ UNCHANGED rows
       ELSE \E s \in leaving[p].grants :
              /\ leaving' = [leaving EXCEPT ![p].grants = @ \ {s}]
              /\ rows' = [rows EXCEPT !.grant[s] = "none"]
  /\ UNCHANGED <<import, content, service, saving, tasks, slots, chosen>>

-----------------------------------------------------------------------------
(* Histories of other clients. *)

AnyActive == \E s \in Id : rows.run[s] = "active"

\* fingerprint: the tables of what is said, run and granted; not those of
\* leases and of processes, whose other changes come with events of their run.
FingerprintFaulty(r) == [r EXCEPT !.lease = 0, !.proc = 0, !.grant = 0]
Fingerprint(r) == [r EXCEPT !.lease = 0,
  !.proc = [s \in Id |-> IF @[s] = "lost" THEN "live" ELSE @[s]]]

\* What a history may hold: a session of a project the user gives a directory
\* for goes on here, and any other one is only kept to be read.
Offers == {"session", "other"}
WithImported(r, d, offer) == IF offer = "other" THEN r ELSE [r EXCEPT
  !.root["imported"] = d, !.home[r.next] = "imported", !.next = @ + 1]

\* apply_history, of the file as the user saw it; a failure leaves the rows as
\* they were.  A run that was under way is over, and its grant does not come along.
Import(d, offer) ==
  /\ Serves /\ ~import.made /\ ~AnyActive /\ rows.next <= MaxId
  /\ rows' = WithImported(rows, d, offer)
  /\ import' = [made |-> TRUE, backup |-> rows, id |-> rows.next, print |-> Fingerprint(rows')]
  /\ UNCHANGED <<content, service, Memory>>

\* rollback_history.
RollbackImport ==
  /\ Serves /\ import.made /\ ~AnyActive /\ Fingerprint(rows) = import.print
  /\ rows' = import.backup /\ import' = NoImport
  /\ UNCHANGED <<content, service, Memory>>

-----------------------------------------------------------------------------
Works == \E s \in Id :
  \/ RunStarts(s) \/ Spawn(s) \/ EndRun(s) \/ TaskGone(s) \/ ProcessOver(s) \/ SlotGone(s)

Chosen == \E p \in Project : Choose(p) \/ ListGrants(p) \/ RevokeNext(p)

LivesOn == OpenRecords \/ BackUp \/ Upgrade \/ Recover \/ Crash \/ Close

Managed ==
  \/ \E s \in Id : DeleteSession(s)
  \/ \E p \in Project : CreateSession(p) \/ DeleteProject(p) \/ \E d \in Folder : ChangeRoot(p, d)

Granted == \E s \in Id : GrantFull(s) \/ Revoke(s)

Saves == SaveLarge \/ WriteContent \/ SaveRow

TakesOver == RollbackImport \/ \E d \in Folder, offer \in Offers : Import(d, offer)

RecordsNext == Works \/ Chosen \/ LivesOn \/ Managed \/ Granted \/ Saves \/ TakesOver

RecordsSpec == RecordsInit /\ [][RecordsNext]_storeVars

-----------------------------------------------------------------------------
(* Properties. *)

\* No session disappears, and no project moves, while a task or a process of
\* the session is still there, be its run over or not.
RecordsOutlastUse == \A s \in Id : \A d \in {tasks[s], slots[s]} \ {Nowhere} :
  rows.home[s] # "none" /\ rows.root[rows.home[s]] = d

\* Whoever holds full access got it for the directory the project has now and,
\* when no choice of a project is under way, for the project the user chose.
GrantsStayPut == service = "on" => \A s \in Id : rows.grant[s] \in Folder =>
  /\ rows.home[s] # "none" /\ rows.root[rows.home[s]] = rows.grant[s]
  /\ chosen # "any" /\ (\A p \in Project : leaving[p] = NoLeaving) => chosen = rows.home[s]

\* Taking an import back takes back nothing else: what the user said, was told
\* to forget or granted since is as it was.
RollbackLosesNothing ==
  [][import.made /\ ~import'.made =>
      /\ \A s \in Id \ {import.id} :
           /\ rows'.home[s] = rows.home[s] /\ rows'.run[s] = rows.run[s]
           /\ rows'.grant[s] = rows.grant[s]
      /\ rows'.large = rows.large /\ rows'.runs = rows.runs /\ rows'.root["own"] = rows.root["own"]]_storeVars
=============================================================================
