------------------------------ MODULE Evidence ------------------------------
(***************************************************************************)
(* What a task may be called finished on (completion.py): the writes and   *)
(* commands of a logical task, the versions and digests they are recorded  *)
(* with, and the verifier that reads the records and the disk again when   *)
(* the model gives its answer.                                             *)
(*                                                                         *)
(* The disk is shared: the user edits it at any time, a command that was   *)
(* started in the background writes to it while the agent goes on, and the *)
(* verifier awaits a scan, a read of every file and a review in between.   *)
(* One run after the other belongs to the task; a resumed run inherits the *)
(* records and checks them anew.                                           *)
(***************************************************************************)
EXTENDS Naturals, Sequences, SequencesExt, FiniteSets

CONSTANTS
  File,      \* files of the project
  Content,   \* contents a file may have
  First,     \* what the files hold at first
  Link,      \* what stands for a link, a credential or a file that cannot be read
  Test,      \* commands of the kind "test"
  Script,    \* other commands
  Unread,    \* the digest of a scan that met such a file
  Allowed,   \* the files of write_scopes, when the task names some
  Setting,   \* what the task may be: its requirements, a scope, a review
  MaxCorrect,  \* corrections the loop allows
  MaxWork    \* bound of the executions, edits and steers of a task together

Command == Test \cup Script

AnyTest == [kind |-> "test", on |-> "any"]
Wanted == {AnyTest} \cup [kind : {"file_changed"}, on : File]

ASSUME EvidenceShape ==
  /\ Test \cap Script = {} /\ File \cap Command = {} /\ "command" \notin File
  /\ Allowed \subseteq File
  /\ First \in Content /\ Link \notin Content
  /\ Unread \notin [File -> Content \cup {Link}]
  /\ Setting \subseteq [want : SUBSET Wanted, firm : SUBSET Wanted, scoped : BOOLEAN, strict : BOOLEAN]
  /\ \A s \in Setting : s.firm \subseteq s.want
  /\ MaxCorrect \in Nat /\ MaxWork \in Nat

VARIABLES
  disk,    \* contents of the files
  task,    \* the fields of the run that the verifier reads
  trials,  \* executions of the task, oldest first
  stage,   \* what the run waits for
  look,    \* what the verifier has read
  ruling,  \* how the last run of the task ended
  changes, \* history: edits made
  stamp    \* history: writes made by the task's own tools

evidenceVars == <<disk, task, trials, stage, look, ruling, changes, stamp>>

Policies == {"no_tests", "no_commands", "no_writes"}

\* workspace_state: all files, or nothing.
Scanned == IF \E f \in File : disk[f] = Link THEN Unread ELSE disk

NoLook == [trials |-> <<>>, version |-> 0, policy |-> {}, want |-> {}, notes |-> {}, issue |-> "none", scan |-> Unread,
           files |-> Unread, stamp |-> 0, bind |-> <<>>, reviewed |-> FALSE]

\* requirement_blocked.
RequirementBlocked(scoped, policy, r) ==
  \/ r.kind = "file_changed" /\ ("no_writes" \in policy \/ (scoped /\ r.on \notin Allowed))
  \/ r.kind = "test" /\ policy \cap {"no_tests", "no_commands"} # {}

\* The terms of a task: what the user forbids, what has to be shown for what he
\* wants, and the files he wanted changed that stay unchecked (unperformed).
Terms == [policy : SUBSET Policies, want : SUBSET Wanted, notes : SUBSET File]
FilesOf(R) == {r.on : r \in {w \in R : w.kind = "file_changed"}}

\* _effective_requirements: what is forbidden is no longer required; a file leaves a note.
Sifted(scoped, d) ==
  LET kept == {r \in d.want : ~RequirementBlocked(scoped, d.policy, r)} IN
  [d EXCEPT !.want = kept, !.notes = (@ \cup FilesOf(d.want \ kept)) \ FilesOf(kept)]

EvidenceInit ==
  /\ disk = [f \in File |-> First]
  /\ \E s \in Setting :
       LET d == Sifted(s.scoped, [policy |-> {}, want |-> s.want, notes |-> {}]) IN
       task = [version |-> 0, gen |-> 0, seen |-> 0, policy |-> d.policy, want |-> d.want, notes |-> d.notes,
               due |-> d, firm |-> s.firm, asked |-> s.want, banned |-> {}, retries |-> 0,
               issue |-> "none", unsure |-> {}, scoped |-> s.scoped, strict |-> s.strict]
  /\ trials = <<>> /\ stage = "work" /\ look = NoLook /\ ruling = "none"
  /\ changes = 0 /\ stamp = 0

-----------------------------------------------------------------------------
(* What the user does meanwhile. *)

Spent == changes + Len(trials) + task.gen

\* The last run of the task is over; what happens afterwards is left out.
TaskOver == stage = "over" /\ ruling # "stopped"

UserEdit(f, c) ==
  /\ ~TaskOver /\ Spent < MaxWork /\ disk[f] # c
  /\ disk' = [disk EXCEPT ![f] = c] /\ changes' = changes + 1
  /\ UNCHANGED <<task, trials, stage, look, ruling, stamp>>

\* merge_task: a ban is added to the policy (merge_policy).
Banned(t, p) == Sifted(t.scoped, [t.due EXCEPT !.policy = @ \cup {p}])

\* merge_task: a ban is lifted; of the requirements that were dropped under it
\* only those of the caller come back, not those read from the wording.
Released(t, p) ==
  LET policy == t.due.policy \ {p} IN
  Sifted(t.scoped, [t.due EXCEPT !.policy = policy,
                                 !.want = @ \cup {r \in t.firm : ~RequirementBlocked(t.scoped, policy, r)}])

\* A steer that forbids something or allows it again starts another generation;
\* due are the terms as the next boundary will have merged them.
Steer(p, frees) ==
  /\ stage # "over" /\ Spent < MaxWork
  /\ task' = [task EXCEPT !.gen = @ + 1, !.due = IF frees THEN Released(task, p) ELSE Banned(task, p),
                          !.banned = IF frees THEN @ ELSE @ \cup {p}]
  /\ UNCHANGED <<disk, trials, stage, look, ruling, changes, stamp>>

\* apply_steer, for everything that was said.
Bounded(t) == [t EXCEPT !.policy = t.due.policy, !.want = t.due.want, !.notes = t.due.notes]

\* The model answers a request that holds all that was said.
Respond ==
  /\ stage = "work" /\ task.seen # task.gen
  /\ task' = [Bounded(task) EXCEPT !.seen = task.gen]
  /\ UNCHANGED <<disk, trials, stage, look, ruling, changes, stamp>>

-----------------------------------------------------------------------------
(* The tools. *)

NewTrial == [of |-> "", began |-> FALSE, how |-> "none", says |-> "unknown", base |-> Unread, changed |-> "unset",
             version |-> 0, managed |-> FALSE, guarded |-> FALSE, was |-> "", new |-> "", kept |-> FALSE,
             end |-> Unread, stamp |-> 0]

Live == {i \in DOMAIN trials : trials[i].began /\ trials[i].how = "none"}

\* denied_operation over the uncertain operations: a command overlaps everything.
Overlaps(scopes, s) == s \in scopes \/ "command" \in scopes \/ (s = "command" /\ scopes # {})

MayAct == stage = "work" /\ task.seen = task.gen /\ Spent < MaxWork

MayWrite(f) ==
  /\ "no_writes" \notin task.policy /\ task.issue = "none"
  /\ task.scoped => f \in Allowed
  /\ ~Overlaps(task.unsure, f)

\* A patch of one file: applied, refused by a conflict, or cut while it is written.
Write(f, c, how) ==
  /\ MayAct /\ MayWrite(f) /\ c # disk[f]
  /\ disk' \in CASE how = "applied" -> {[disk EXCEPT ![f] = c]}
                 [] how = "conflicted" -> {disk}
                 [] how = "unknown" -> {disk, [disk EXCEPT ![f] = c]}
  /\ task' = [task EXCEPT !.version = @ + 1, !.unsure = IF how = "unknown" THEN @ \cup {f} ELSE @]
  /\ trials' = Append(trials, [NewTrial EXCEPT !.of = f, !.began = TRUE, !.how = how, !.was = disk[f],
                               !.new = c, !.version = task.version + 1, !.kept = how = "applied"])
  /\ stamp' = stamp + 1
  /\ UNCHANGED <<stage, look, ruling, changes>>

\* guard_command: under limits on files only a requested test may run.
MayRun(c) ==
  /\ "no_commands" \notin task.policy
  /\ "no_tests" \in task.policy => c \notin Test
  /\ "no_writes" \notin task.policy /\ task.issue = "none"
  /\ task.scoped => c \in Test /\ AnyTest \in task.want
  /\ ~Overlaps(task.unsure, "command")

\* run_project_command and run_powershell_command: the agent waits for the end.
RunCommand(c) ==
  /\ MayAct /\ MayRun(c)
  /\ trials' = Append(trials, [NewTrial EXCEPT !.of = c, !.began = TRUE, !.base = Scanned, !.guarded = task.scoped,
                               !.version = task.version, !.stamp = stamp])
  /\ stage' = "running"
  /\ UNCHANGED <<disk, task, look, ruling, changes, stamp>>

\* exec_command: what is approved is the command on this version of the disk.
AskCommand(c) ==
  /\ MayAct /\ MayRun(c) /\ Scanned # Unread
  /\ trials' = Append(trials, [NewTrial EXCEPT !.of = c, !.managed = TRUE, !.base = disk, !.guarded = task.scoped,
                               !.stamp = stamp])
  /\ stage' = "asked"
  /\ UNCHANGED <<disk, task, look, ruling, changes, stamp>>

\* Approved: the disk is scanned again before the process is started.
StartCommand ==
  /\ stage = "asked" /\ stage' = "work"
  /\ LET t == Last(trials) IN
     IF t.base = Scanned /\ task.seen = task.gen /\ MayRun(t.of)
     THEN trials' = [trials EXCEPT ![Len(trials)].began = TRUE, ![Len(trials)].version = task.version]
     ELSE trials' = Front(trials)
  /\ UNCHANGED <<disk, task, look, ruling, changes, stamp>>

\* A process writes to the disk.
Effect(i, f, c) ==
  /\ i \in Live /\ stage # "over" /\ Spent < MaxWork /\ disk[f] # c
  /\ disk' = [disk EXCEPT ![f] = c] /\ changes' = changes + 1
  /\ UNCHANGED <<task, trials, stage, look, ruling, stamp>>

\* The snapshots before and after are compared, when there are two.
Changed(t, after) == t.base = Unread \/ after = Unread \/ t.base # after

\* Faulty variant: the limits are turned round.
ScopeCheckFaulty(t, after) ==
  IF t.guarded /\ t.base # Unread /\ after # Unread /\ \E f \in Allowed : t.base[f] # after[f] THEN "violated" ELSE "none"

\* check_command_scope.
ScopeCheck(t, after) ==
  IF ~t.guarded THEN "none"
  ELSE IF t.base = Unread \/ after = Unread THEN "unverified"
  ELSE IF \E f \in File \ Allowed : t.base[f] # after[f] THEN "violated" ELSE "none"

\* Whether the disk is looked at when the command has ended: run_command raises
\* on a timeout, a failure or a cancel, and the tool then records no snapshot.
LooksAfter(t, how) == t.managed \/ how = "exited"

\* The command of trial i is over.
Ended(i, how, says) ==
  LET t == trials[i]  looks == LooksAfter(t, how)  issue == ScopeCheck(t, Scanned) IN
  /\ trials' = [trials EXCEPT ![i] = [t EXCEPT !.how = how, !.says = says, !.end = disk,
                  !.changed = IF ~looks THEN "unset" ELSE IF Changed(t, Scanned) THEN "yes" ELSE "no"]]
  /\ task' = [task EXCEPT
       !.version = IF looks /\ Changed(t, Scanned) THEN @ + 1 ELSE @,
       !.issue = IF looks /\ issue # "none" THEN issue ELSE @,
       !.unsure = IF how = "unknown" THEN @ \cup {"command"} ELSE @]

\* stopped: timed out, cancelled or failed.
EndCommand(i, how, says) ==
  /\ i \in Live /\ stage # "over"
  /\ how # "exited" => says = "failed"
  /\ trials[i].of \in Test => says # "unknown"
  /\ Ended(i, how, says)
  /\ stage' = IF stage = "running" /\ ~trials[i].managed THEN "work" ELSE stage
  /\ UNCHANGED <<disk, look, ruling, changes, stamp>>

-----------------------------------------------------------------------------
(* The verifier (LocalCompletionVerifier). *)

LastOf(ts, i) == \A j \in DOMAIN ts : ts[j].of = ts[i].of => j <= i

\* command_is_observation.
Observes(t) == t.of \in Script /\ t.how = "exited" /\ t.says # "failed" /\ t.base # Unread /\ t.changed = "no"

\* commands_with_effects.
HadEffects(ts, c) == \E i \in DOMAIN ts : ts[i].of = c /\ ts[i].began /\ (ts[i].changed # "no" \/ ts[i].base = Unread)

\* What has to be settled: what the user wants and what the tools have done.
Settled(l) ==
  l.want
  \cup {[kind |-> "file_changed", on |-> l.trials[i].of] : i \in {j \in DOMAIN l.trials : l.trials[j].of \in File}}
  \cup {[kind |-> "command", on |-> l.trials[i].of] :
          i \in {j \in DOMAIN l.trials : /\ l.trials[j].of \in Command /\ LastOf(l.trials, j)
                                         /\ HadEffects(l.trials, l.trials[j].of) \/ ~Observes(l.trials[j])}}

\* command_matches: a test without a scope is met by any test that has a result.
Matching(l, r) ==
  {i \in DOMAIN l.trials : IF r = AnyTest THEN l.trials[i].of \in Test /\ l.trials[i].how # "none" ELSE l.trials[i].of = r.on}

\* Faulty variant: the digest alone says whether a result is still current.
CurrentFaulty(l, t) == l.scan = t.base /\ t.changed # "yes"

\* The disk and the version are those the command has run on.
Current(l, t) == l.scan = t.base /\ t.changed # "yes" /\ t.version = l.version

CommandResult(l, t) ==
  IF t.how = "stopped" THEN "blocked"
  ELSE IF t.how # "exited" THEN "unverified"
  ELSE IF t.says = "failed" THEN "failed"
  ELSE IF l.scan = Unread \/ t.base = Unread THEN "unverified"
  ELSE IF ~Current(l, t) THEN "failed"
  ELSE IF t.says = "succeeded" THEN "passed" ELSE "unverified"

FileResult(l, t) ==
  IF t.kept /\ t.was # t.new /\ l.files[t.of] = t.new THEN "passed"
  ELSE IF t.how = "conflicted" THEN "blocked" ELSE "failed"

Result(l, r) ==
  LET m == Matching(l, r)
      missing == IF r.kind # "file_changed" /\ "no_commands" \in l.policy THEN "blocked" ELSE "failed"
      i == CHOOSE j \in m : \A k \in m : k <= j
      found == IF r.kind = "file_changed" THEN FileResult(l, l.trials[i]) ELSE CommandResult(l, l.trials[i])
  IN IF m = {} THEN missing
     ELSE IF found # "passed" /\ r.kind # "file_changed" /\ "no_commands" \in l.policy THEN "blocked" ELSE found

\* What the user has kept from being checked.
Unperformed(l) == (l.policy \cap {"no_tests", "no_commands"}) \cup l.notes

\* evaluate_requirements: where nothing has to be settled, the work is an answer.
Outcome(l) ==
  LET results == {Result(l, r) : r \in Settled(l)} IN
  IF l.issue = "violated" \/ "blocked" \in results THEN "blocked"
  ELSE IF Settled(l) = {} THEN "answered"
  ELSE IF "failed" \in results THEN "unmet"
  ELSE IF "unverified" \in results \/ l.issue # "none" \/ Unperformed(l) # {} THEN "unknown"
  ELSE "verified"

\* completion_limited: every change is on the disk, and all that is missing is
\* what the user has forbidden; a command that ran before changes what is reported.
Limited(l) ==
  /\ Outcome(l) = "unknown" /\ l.issue = "none"
  /\ l.policy \cap {"no_tests", "no_commands"} # {}
  /\ "no_commands" \in l.policy => \A i \in DOMAIN l.trials : l.trials[i].of \in Command => ~l.trials[i].began
  /\ \A r \in Settled(l) : r.kind = "file_changed" /\ Result(l, r) = "passed"

\* The answer of the model is taken up: a boundary, then the stored records.
Reads == [NoLook EXCEPT !.trials = trials, !.version = task.version, !.policy = task.policy, !.want = task.want,
                         !.notes = task.notes, !.issue = task.issue]

BeginCheck ==
  /\ stage = "work" /\ task.seen = task.gen
  /\ stage' = "scanning" /\ look' = Reads
  /\ UNCHANGED <<disk, task, trials, ruling, changes, stamp>>

Scan ==
  /\ stage = "scanning" /\ stage' = "reading"
  /\ look' = [look EXCEPT !.scan = Scanned, !.stamp = stamp]
  /\ UNCHANGED <<disk, task, trials, ruling, changes, stamp>>

\* Another round of the model, or the end of the run.
Correct(again) ==
  /\ stage' = IF again THEN "work" ELSE "over"
  /\ ruling' = IF again THEN ruling ELSE "refused"
  /\ task' = IF again THEN [task EXCEPT !.retries = @ + 1] ELSE task
  /\ look' = NoLook

Accept(how, l) == stage' = "over" /\ ruling' = how /\ look' = l /\ UNCHANGED task

\* The loop allows two corrections, whatever their reason.
Superseded == Correct(task.retries < MaxCorrect)

\* The files are read and the results weighed, all at once.
Weigh ==
  /\ stage = "reading"
  /\ LET l == [look EXCEPT !.files = disk]  out == Outcome(l) IN
       IF task.seen # task.gen THEN Superseded
       ELSE IF out = "verified" /\ task.strict /\ ~l.reviewed /\ \E r \in Settled(l) : r.kind = "file_changed"
       THEN stage' = "review" /\ look' = l /\ UNCHANGED <<ruling, task>>
       ELSE IF out \in {"verified", "answered"} THEN Accept(out, l)
       ELSE IF Limited(l) THEN Accept("limited", l)
       ELSE Correct(out = "unmet" /\ task.retries < MaxCorrect)
  /\ UNCHANGED <<disk, trials, changes, stamp>>

\* The verifier fails closed.
CheckFails ==
  /\ stage \in {"scanning", "reading"} /\ stage' = "over" /\ ruling' = "refused" /\ look' = NoLook
  /\ UNCHANGED <<disk, task, trials, changes, stamp>>

\* review_completion: the disk is scanned, and the model asked about it.
Binding == <<Scanned, task.version, task.gen, task.policy>>

AskReview ==
  /\ stage = "review"
  /\ IF task.seen # task.gen THEN Superseded
     ELSE IF Scanned = Unread THEN Correct(FALSE)
     ELSE /\ stage' = "reviewing" /\ look' = [look EXCEPT !.bind = Binding]
          /\ UNCHANGED <<task, ruling>>
  /\ UNCHANGED <<disk, trials, changes, stamp>>

\* The records and the disk are read once more.
AfterReview ==
  /\ stage' = "scanning" /\ look' = [Reads EXCEPT !.reviewed = TRUE]
  /\ UNCHANGED <<task, ruling>>

\* The opinion counts for the disk it was asked about, and can only block.
Reviewed(opinion) ==
  /\ stage = "reviewing"
  /\ IF task.seen # task.gen \/ look.bind # Binding THEN Superseded
     ELSE \/ opinion = "pass" /\ AfterReview
          \/ opinion = "revise" /\ Superseded
          \/ opinion = "none" /\ Correct(FALSE)
  /\ UNCHANGED <<disk, trials, changes, stamp>>

-----------------------------------------------------------------------------
(* The end of a run, and the next run of the task. *)

\* A cancel: what runs is stopped, and the monitors record it.
Cancel ==
  /\ stage # "over" /\ Live = {}
  /\ stage' = "over" /\ ruling' = "stopped" /\ look' = NoLook
  /\ trials' = IF stage = "asked" THEN Front(trials) ELSE trials
  /\ UNCHANGED <<disk, task, changes, stamp>>

\* A restart: nobody knows what the commands have done (_recover).
Restart ==
  /\ stage # "over"
  /\ stage' = "over" /\ ruling' = "stopped" /\ look' = NoLook
  /\ trials' = LET ts == IF stage = "asked" THEN Front(trials) ELSE trials IN
               [i \in DOMAIN ts |-> IF ts[i].began /\ ts[i].how = "none" THEN [ts[i] EXCEPT !.how = "unknown"] ELSE ts[i]]
  /\ UNCHANGED <<disk, task, changes, stamp>>

\* The user takes back the last write; the evidence of the run is void.
Rollback ==
  /\ stage = "over" /\ ruling = "stopped"
  /\ trials # <<>> /\ Last(trials).kept /\ disk[Last(trials).of] = Last(trials).new
  /\ disk' = [disk EXCEPT ![Last(trials).of] = Last(trials).was]
  /\ trials' = [trials EXCEPT ![Len(trials)].kept = FALSE]
  /\ task' = [task EXCEPT !.version = @ + 1] /\ stamp' = stamp + 1
  /\ UNCHANGED <<stage, look, ruling, changes>>

\* inspect: no effect may be unknown, no written file in a third state.
Resumable ==
  /\ task.unsure = {}
  /\ \A i \in DOMAIN trials : trials[i].how # "unknown"
  /\ \A i \in DOMAIN trials : trials[i].of \in File /\ LastOf(trials, i) => disk[trials[i].of] \in {trials[i].was, trials[i].new}

\* The child inherits the records; its first answer has read what was said.
ResumeTask ==
  /\ stage = "over" /\ ruling = "stopped" /\ Resumable
  /\ stage' = "work" /\ ruling' = "none" /\ look' = NoLook
  /\ task' = [Bounded(task) EXCEPT !.seen = task.gen]
  /\ UNCHANGED <<disk, trials, changes, stamp>>

EvidenceNext ==
  \/ \E f \in File, c \in Content : \E how \in {"applied", "conflicted", "unknown"} : Write(f, c, how)
  \/ \E f \in File, c \in Content \cup {Link} : UserEdit(f, c) \/ \E i \in Live : Effect(i, f, c)
  \/ \E p \in Policies, frees \in BOOLEAN : Steer(p, frees)
  \/ \E c \in Command : RunCommand(c) \/ AskCommand(c)
  \/ \E i \in Live, how \in {"exited", "stopped", "unknown"},
         says \in {"succeeded", "failed", "unknown"} : EndCommand(i, how, says)
  \/ \E opinion \in {"pass", "revise", "none"} : Reviewed(opinion)
  \/ Respond \/ StartCommand \/ BeginCheck \/ Scan \/ Weigh \/ CheckFails \/ AskReview
  \/ Cancel \/ Restart \/ Rollback \/ ResumeTask

EvidenceSpec == EvidenceInit /\ [][EvidenceNext]_evidenceVars

-----------------------------------------------------------------------------
(* Properties. *)

LastTrial(c) == CHOOSE i \in DOMAIN trials : trials[i].of = c /\ LastOf(trials, i)

\* A trial passed on the disk the verifier has scanned, and the task's own tools
\* have written nothing from its start until the scan.
Rests(t) ==
  /\ t.how = "exited" /\ t.says = "succeeded"
  /\ t.base = look.scan /\ t.end = look.scan /\ t.stamp = look.stamp

Accepted == ruling \in {"verified", "answered", "limited"}

\* A test is owed: the caller has asked for one, or the user has and never forbade
\* tests or commands since, not even for a while.
TestOwed ==
  \/ AnyTest \in task.firm
  \/ AnyTest \in task.asked /\ task.banned \cap {"no_tests", "no_commands"} = {}

\* Every command that has changed the disk has passed on the disk of the verifier
\* since, and every file holds what the task wrote last.
WorkRests == Accepted =>
  /\ \A i \in DOMAIN trials :
       trials[i].of \in Command /\ trials[i].began /\ trials[i].base # trials[i].end
         => Rests(trials[LastTrial(trials[i].of)])
  /\ \A i \in DOMAIN trials : trials[i].of \in File /\ LastOf(trials, i) => look.files[trials[i].of] = trials[i].new

TestRests == ruling = "verified" /\ TestOwed => \E i \in DOMAIN trials : trials[i].of \in Test /\ Rests(trials[i])

\* Work is accepted only if every command that has changed the disk rests on the
\* disk of the verifier and every file still holds what the task wrote last; and
\* as verified only if a test that is owed rests on that disk, too; however edits by
\* the user, other commands, bans and their release, reviews, restarts and
\* rollbacks come in between (completion.py:349-489, task_intent.py:541-612).
VerifiedRests == WorkRests /\ TestRests

\* When work is accepted, no file write of it is of unknown outcome; a command that
\* still runs has been run again since; and no command under limits whose end was
\* looked at has changed a file the user excluded. What a command has done whose
\* end is unknown may stay open, and so may what a command changed that the agent
\* waited for and that failed: its end is not looked at
\* (completion.py:310-345, 472-489, task_constraints.py:180-206, runtime.py:918-948).
EffectsAreSettled ==
  Accepted =>
    /\ task.unsure \cap File = {} /\ \A i \in Live : ~LastOf(trials, i)
    /\ \A i \in DOMAIN trials : trials[i].guarded /\ look.trials[i].how # "none" /\ LooksAfter(trials[i], trials[i].how) =>
         /\ trials[i].base # Unread
         /\ \A f \in File \ Allowed : trials[i].base[f] = trials[i].end[f]

\* completion.py:347: a later success that changed nothing cannot wipe out what
\* the same command has done before or what could not be checked.
UnknownStaysOpen == ruling = "verified" => task.unsure = {} /\ Live = {}
=============================================================================
