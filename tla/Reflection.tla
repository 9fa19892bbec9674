----------------------------- MODULE Reflection -----------------------------
(***************************************************************************)
(* How a task learns from its failures (reflection.py, reflection_review.py *)
(* and observer.py): the failures of a goal are counted from the results   *)
(* of its tools and checks, two of them call for an independent review of  *)
(* the work before it is delivered, a target that fails again and again    *)
(* ends the run, and the checks of the project bind the task.              *)
(*                                                                         *)
(* Meanwhile the user steers, stops, resumes and edits the settings,       *)
(* commands end on their own, and one result may be read many times, by    *)
(* one run or by the next.                                                 *)
(***************************************************************************)
EXTENDS Naturals, Sequences, SequencesExt, FiniteSets

CONSTANTS
  Managed,   \* managed executions of the task
  Target,    \* what calls are about: a path, a command line
  Code,      \* categories of error that other tools may answer with
  Check,     \* checks a project may have
  Status,    \* what evidence may say of a requirement
  Capped,    \* whether max_total_tokens is set
  StopAt, ReviewAt, MaxReview, MaxEntry, MaxCorrection,  \* limits of the code
  MaxRound,  \* max_model_requests
  MaxCall,   \* max_tool_calls
  MaxSteer, MaxRun, MaxVersion   \* bounds: generations, runs, changes of the workspace

ASSUME ReflectionShape ==
  /\ {StopAt, ReviewAt, MaxReview, MaxEntry, MaxCorrection, MaxRound, MaxCall, MaxSteer, MaxRun, MaxVersion} \subseteq Nat
  /\ MaxEntry > 0 /\ MaxRun > 0 /\ ReviewAt > 0

VARIABLES
  job,       \* the fields of the run
  goals,     \* goal_version of each run of the task
  notes,     \* reflection_state
  commands,  \* records of the managed executions
  place,      \* what the run waits for
  call,      \* the tool call under way
  usage,     \* loop_budget: requests, tool calls, and whether the tokens are known
  review,    \* reflection_review: attempts, what was asked about, what was answered
  settings,  \* observer_config of the project
  report,     \* observer_checks as report shows them
  finding,   \* how the last run ended
  bound,     \* history: the checks at the start of the task
  faults,    \* history: failures of this goal, the commands that failed and the number of others
  owed       \* history: "clear", or a request without an account, or one lost in a crash

reflectionVars == <<job, goals, notes, commands, place, call, usage, review, settings, report, finding, bound, faults, owed>>

\* _category: an error code stands for its category.
Correctable == {"input", "evidence", "execution", "tool"}

\* reset.
Fresh(goal, version) == [goal |-> goal, version |-> version, entries |-> <<>>, count |-> 0, review |-> FALSE, seen |-> {}]

Goal == goals[job.run]

NoFaults == [commands |-> {}, others |-> 0]

NoCall == [kind |-> "none"]

\* report: checks that were recorded with another check_version are pending.
Outdated == [c \in Check |-> "pending"]

\* check_version.
Now == <<Goal, job.version, job.gen>>

ReflectionInit ==
  /\ \E c \in SUBSET Check :
       /\ settings = [version |-> 0, checks |-> c] /\ bound = c
       /\ job = [run |-> 1, gen |-> 0, asked |-> 0, seen |-> 0, version |-> 0, said |-> FALSE, retries |-> 0,
                 changed |-> FALSE, checks |-> c, forbids |-> {}]
  /\ goals = [r \in 1..MaxRun |-> 1]
  /\ notes = Fresh(1, 0)
  /\ commands = [e \in Managed |-> [run |-> 0, target |-> CHOOSE t \in Target : TRUE, how |-> "none"]]
  /\ place = "ask" /\ call = NoCall /\ finding = "none"
  /\ usage = [rounds |-> 0, calls |-> 0, known |-> TRUE]
  /\ review = [attempts |-> 0, of |-> <<>>, passed |-> FALSE]
  /\ report = Outdated
  /\ faults = NoFaults /\ owed = "clear"

-----------------------------------------------------------------------------
(* The failures of a goal. *)

\* Faulty variant: a changed workspace starts the record anew.
RefreshFaulty(n) == IF n.goal # Goal \/ n.version # job.version THEN Fresh(Goal, job.version) ELSE n

\* _state: another goal starts anew, another workspace ends what was open.
Refresh(n) ==
  IF n.goal # Goal THEN Fresh(Goal, job.version)
  ELSE IF n.version = job.version THEN n
  ELSE [n EXCEPT !.version = job.version, !.entries = [i \in DOMAIN @ |-> [@[i] EXCEPT !.open = FALSE]]]

\* _failure: the oldest entries give way; an open entry counts its attempts.
AfterFailure(entries, kind, target, cat) ==
  LET same(e) == e.kind = kind /\ e.target = target /\ e.cat = cat
      old == SelectSeq(entries, same)
      rest == SelectSeq(entries, LAMBDA e : ~same(e))
      kept == SubSeq(rest, IF Len(rest) < MaxEntry THEN 1 ELSE Len(rest) - MaxEntry + 2, Len(rest))
      tries == IF old # <<>> /\ Head(old).open THEN Head(old).tries + 1 ELSE 1
  IN Append(kept, [kind |-> kind, target |-> target, cat |-> cat, tries |-> tries, open |-> TRUE])

Failed(n, kind, target, cat) ==
  [n EXCEPT !.entries = AfterFailure(@, kind, target, cat),
            !.count = IF cat \in Correctable THEN @ + 1 ELSE @,
            !.review = IF cat \in Correctable THEN n.count + 1 >= ReviewAt ELSE @]

\* A success settles what was open about its target.
Resolved(n, kind, target) ==
  [n EXCEPT !.entries = [i \in DOMAIN @ |->
     IF @[i].kind = kind /\ @[i].target = target THEN [@[i] EXCEPT !.open = FALSE] ELSE @[i]]]

\* Faulty variant: a result counts each time it is read.
SeenFaulty(n, e) == FALSE

\* A result of an execution that was read before.
Seen(n, e) == e \in n.seen

\* _native_fact: the command has ended, and under the goal the run has now.
Fact(e) == commands[e].how \notin {"none", "running"} /\ goals[commands[e].run] = Goal

ObserveCommand(n, e) ==
  LET c == commands[e]  m == [n EXCEPT !.seen = @ \cup {e}] IN
  IF ~Fact(e) \/ Seen(n, e) THEN n
  ELSE CASE c.how = "cancelled" -> m
         [] c.how = "unknown" -> Failed(m, "tool", c.target, "unknown")
         [] c.how = "failed" -> Failed(m, "tool", c.target, "execution")
         [] c.how = "passed" -> Resolved(m, "tool", c.target)

\* observe.
Observed(n) ==
  CASE call.kind \in {"start", "read"} -> ObserveCommand(n, call.on)
    [] call.kind = "other" -> IF call.code = "ignored" THEN notes
                              ELSE Failed(n, "tool", call.target, call.code)
    [] call.kind = "patch" -> Resolved(n, "tool", call.target)

\* What the model is told of: a command that failed, or another correctable failure.
NowFaults ==
  CASE call.kind \in {"start", "read"} /\ Fact(call.on) /\ commands[call.on].how = "failed" ->
         [faults EXCEPT !.commands = @ \cup {call.on}]
    [] call.kind = "other" /\ call.code \in Correctable -> [faults EXCEPT !.others = @ + 1]
    [] OTHER -> faults

Faults == Cardinality(faults.commands) + faults.others

\* stalled.
Stalled ==
  LET n == Refresh(notes) IN
  \E i \in DOMAIN n.entries :
    LET e == n.entries[i] IN e.kind = "tool" /\ e.open /\ e.cat \in Correctable /\ e.tries >= StopAt

\* The effective requirements are the change itself and the active checks.
\* selected_checks: they bind a task that changes files, unless the user forbids.
ActiveChecks == IF job.changed THEN job.checks \ job.forbids ELSE {}

Demands == IF job.changed THEN ActiveChecks \cup {"change"} ELSE {}

\* record_verification: what the results leave open.
AfterResults(n, result) ==
  LET mark[D \in SUBSET Demands] ==
        IF D = {} THEN n
        ELSE LET d == CHOOSE x \in D : TRUE IN
             IF result[d] = "passed" THEN Resolved(mark[D \ {d}], "verification", d)
             ELSE Failed(mark[D \ {d}], "verification", d, "verification")
  IN mark[Demands].entries

Fails(result) == \E d \in Demands : result[d] = "failed"

\* A check with many failures is one attempt.
Verified(n, result) ==
  LET counted == n.count + IF Fails(result) THEN 1 ELSE 0 IN
  [n EXCEPT !.entries = AfterResults(n, result), !.count = counted, !.review = @ \/ counted >= ReviewAt]

-----------------------------------------------------------------------------
(* The user. *)

\* RunControls.receive: a new generation; a steer or an answer has a word of the
\* user with it, a pause has none.  A request that is out is cancelled (Cut).
Receive(word) ==
  /\ place # "over" /\ job.gen < MaxSteer
  /\ job' = [job EXCEPT !.gen = @ + 1, !.said = @ \/ word] /\ report' = Outdated
  /\ UNCHANGED <<goals, notes, commands, place, call, usage, review, settings, finding, bound, faults, owed>>

\* Observer.save: settings that were changed meanwhile are not overwritten.
SaveSettings(read, c) ==
  /\ settings.version = read /\ read < 1 /\ c # settings.checks
  /\ settings' = [version |-> read + 1, checks |-> c]
  /\ UNCHANGED <<job, goals, notes, commands, place, call, usage, review, report, finding, bound, faults, owed>>

\* A boundary: the words of the user make another goal, which may forbid checks.
Boundary(forbid) ==
  IF job.said
  THEN /\ goals' = [goals EXCEPT ![job.run] = @ + 1]
       /\ notes' = Fresh(Goal + 1, job.version) /\ faults' = NoFaults
       /\ job' = [job EXCEPT !.said = FALSE, !.forbids = @ \cup forbid]
  ELSE forbid = {} /\ UNCHANGED <<goals, notes, faults, job>>

\* Every wait of the run begins with one.
ApplySteer(forbid) ==
  /\ place \in {"ask", "result", "verify", "review", "binding"} /\ job.said
  /\ Boundary(forbid) /\ report' = Outdated
  /\ UNCHANGED <<commands, place, call, usage, review, settings, finding, bound, owed>>

-----------------------------------------------------------------------------
(* Model and tools. *)

\* check_limits.
WithinLimits == usage.rounds < MaxRound /\ (Capped => usage.known) /\ ~Stalled

Ends(how) == place' = "over" /\ finding' = how

NextRequest ==
  /\ place = "ask" /\ ~job.said
  /\ IF WithinLimits
     THEN /\ place' = "model" /\ usage' = [usage EXCEPT !.rounds = @ + 1]
          /\ job' = [job EXCEPT !.asked = job.gen] /\ UNCHANGED finding
     ELSE Ends("limits") /\ UNCHANGED <<usage, job>>
  /\ UNCHANGED <<goals, notes, commands, call, review, settings, report, bound, faults, owed>>

\* What the model may ask for; the budget ends the calls.
Offers == IF usage.calls = MaxCall THEN {} ELSE
  [kind : {"start"}, on : {e \in Managed : commands[e].how = "none"}, target : Target]
  \cup [kind : {"read"}, on : {e \in Managed : commands[e].how # "none"}]
  \cup [kind : {"other"}, target : Target, code : Code]
  \cup [kind : {"patch"}, target : Target]

\* A usage that is not complete leaves the tokens unknown.
Accounted(complete, calls) ==
  /\ usage' = [usage EXCEPT !.known = @ /\ complete, !.calls = @ + calls]
  /\ owed' = IF complete THEN owed ELSE IF owed = "clear" THEN "open" ELSE owed

Unaccounted ==
  /\ usage' = [usage EXCEPT !.known = FALSE]
  /\ owed' = IF owed = "clear" THEN "open" ELSE owed

\* The model answers; an answer of an older generation is discarded.
ModelAnswers(c, complete) ==
  /\ place = "model" /\ Accounted(complete, IF c = NoCall THEN 0 ELSE 1)
  /\ IF job.asked # job.gen
     THEN c = NoCall /\ place' = "ask" /\ UNCHANGED <<job, call>>
     ELSE /\ job' = [job EXCEPT !.seen = job.asked] /\ call' = c
          /\ place' = IF c = NoCall THEN "verify" ELSE "tool"
  /\ UNCHANGED <<goals, notes, commands, review, settings, report, finding, bound, faults>>

\* interrupted: the request is cut by a control, or fails.
ModelCut ==
  /\ place = "model" /\ Unaccounted
  /\ IF job.asked # job.gen THEN place' = "ask" /\ UNCHANGED finding ELSE Ends("failed")
  /\ UNCHANGED <<job, goals, notes, commands, call, review, settings, report, bound, faults>>

Outcomes == {"running", "passed", "failed", "unknown"}

\* How a command that was started is found: it ends in its own time, which only
\* a read or the end of the run shows.
Found(e, how) == how \in IF commands[e].how = "running" THEN Outcomes ELSE {commands[e].how}

\* The tool does its work, unless the user has spoken since.
PerformCall(how) ==
  /\ place = "tool" /\ place' = "result"
  /\ IF job.seen # job.gen THEN how = "none" /\ UNCHANGED <<commands, job>>
     ELSE CASE call.kind = "start" ->
                 /\ how \in Outcomes /\ UNCHANGED job
                 /\ commands' = [commands EXCEPT ![call.on] = [run |-> job.run, target |-> call.target, how |-> how]]
            [] call.kind = "read" ->
                 /\ Found(call.on, how) /\ UNCHANGED job
                 /\ commands' = [commands EXCEPT ![call.on].how = how]
            [] call.kind = "patch" ->
                 /\ how = "none" /\ job.version < MaxVersion
                 /\ job' = [job EXCEPT !.version = @ + 1, !.changed = TRUE] /\ UNCHANGED commands
            [] call.kind = "other" -> how = "none" /\ UNCHANGED <<commands, job>>
  /\ report' = IF job'.version # job.version THEN Outdated ELSE report
  /\ UNCHANGED <<goals, notes, call, usage, review, settings, finding, bound, faults, owed>>

\* _finalize_result: a result of an older generation teaches nothing.  Another call
\* of the same response may follow.
FinalizeResult(next) ==
  /\ place = "result" /\ ~job.said
  /\ IF job.seen # job.gen THEN UNCHANGED <<notes, faults>>
     ELSE notes' = Observed(Refresh(notes)) /\ faults' = NowFaults
  /\ call' = next /\ place' = IF next = NoCall THEN "ask" ELSE "tool"
  /\ usage' = IF next = NoCall THEN usage ELSE [usage EXCEPT !.calls = @ + 1]
  /\ UNCHANGED <<job, goals, commands, review, settings, report, finding, bound, owed>>

-----------------------------------------------------------------------------
(* The verifier and the review. *)

NoReview == [review EXCEPT !.of = <<>>, !.passed = FALSE]

\* Another round with the correction, or the end of the run.
Rework(again) ==
  IF again /\ job.retries < MaxCorrection
  THEN place' = "ask" /\ job' = [job EXCEPT !.retries = @ + 1] /\ UNCHANGED finding
  ELSE Ends("refused") /\ UNCHANGED job

\* _stale, and _unavailable.
Discarded == Rework(TRUE)
Unavailable == Rework(FALSE)

Stale == job.seen # job.gen

BeginVerify ==
  /\ place = "verify" /\ ~job.said
  /\ IF Stale THEN Discarded ELSE place' = "weigh" /\ UNCHANGED <<job, finding>>
  /\ UNCHANGED <<goals, notes, commands, call, usage, review, settings, report, bound, faults, owed>>

\* requires_review, for a change that is proved.
NeedsReview == Refresh(notes).review /\ job.changed /\ ~review.passed

Decide(result) ==
  LET all == {result[d] : d \in Demands} IN
  IF all \subseteq {"passed"} THEN Ends(IF Demands = {} THEN "answered" ELSE "verified") /\ UNCHANGED job
  ELSE Rework("blocked" \notin all /\ "failed" \in all)

\* record_checks.
Recorded(result) == [c \in Check |-> IF c \in ActiveChecks THEN result[c] ELSE "skipped"]

\* load_outcome, and record_verification.
WeighResults(result) ==
  /\ place = "weigh"
  /\ report' = Recorded(result)
  /\ IF Stale THEN Discarded /\ UNCHANGED <<notes, faults>>
     ELSE IF Demands # {} /\ (\A d \in Demands : result[d] = "passed") /\ NeedsReview
     THEN place' = "review" /\ UNCHANGED <<job, finding, notes, faults>>
     ELSE /\ notes' = Verified(Refresh(notes), result)
          /\ faults' = IF Fails(result) THEN [faults EXCEPT !.others = @ + 1] ELSE faults
          /\ Decide(result)
  /\ review' = IF place' = "ask" THEN NoReview ELSE review
  /\ UNCHANGED <<goals, commands, call, usage, settings, bound, owed>>

\* _binding: the state an opinion is about.
ReviewBinding == Now

\* review_completion: the last request is the agent's own.
MayReview == review.attempts < MaxReview /\ WithinLimits /\ usage.rounds + 1 < MaxRound

\* available: the model is configured, the workspace and the history can be read.
RequestReview(available) ==
  /\ place = "review" /\ ~job.said
  /\ IF Stale THEN Discarded
     ELSE IF MayReview /\ available
     THEN place' = "binding" /\ UNCHANGED <<job, finding>>
     ELSE Unavailable
  /\ review' = IF place' = "binding" THEN [review EXCEPT !.of = ReviewBinding] ELSE review
  /\ UNCHANGED <<goals, notes, commands, call, usage, settings, report, bound, faults, owed>>

\* The workspace was scanned meanwhile.
SendReview ==
  /\ place = "binding" /\ ~job.said
  /\ IF Stale \/ review.of # ReviewBinding THEN Discarded /\ review' = NoReview /\ UNCHANGED usage
     ELSE IF ~MayReview THEN Unavailable /\ review' = NoReview /\ UNCHANGED usage
     ELSE /\ usage' = [usage EXCEPT !.rounds = @ + 1] /\ review' = [review EXCEPT !.attempts = @ + 1]
          /\ place' = "opinion" /\ UNCHANGED <<job, finding>>
  /\ UNCHANGED <<goals, notes, commands, call, settings, report, bound, faults, owed>>

\* The opinion: "changed" when the model, the rules or the disk are others now.
Opinion(says, complete) ==
  /\ place = "opinion" /\ Accounted(complete, 0)
  /\ review' = IF says = "pass" /\ ~Stale THEN [review EXCEPT !.passed = TRUE] ELSE NoReview
  /\ IF Stale \/ says = "changed" THEN Discarded
     ELSE CASE says = "pass" -> place' = "weigh" /\ UNCHANGED <<job, finding>>
            [] says = "revise" -> Rework(TRUE)
            [] says = "invalid" -> Unavailable
  /\ UNCHANGED <<goals, notes, commands, call, settings, report, bound, faults>>

\* A control, the time limit or an error ends the request; it may have its price.
ReviewCut ==
  /\ place = "opinion" /\ Unaccounted /\ review' = NoReview
  /\ IF Stale THEN Discarded ELSE Unavailable
  /\ UNCHANGED <<goals, notes, commands, call, settings, report, bound, faults>>

-----------------------------------------------------------------------------
(* The end of a run, and the next. *)

\* A cancel is a control too; the task of the run is unwound.
StopRun ==
  /\ place # "over" /\ Ends("stopped") /\ call' = NoCall /\ review' = NoReview
  /\ IF place \in {"model", "opinion"} THEN Unaccounted ELSE UNCHANGED <<usage, owed>>
  /\ \E last \in [Managed -> {"cancelled", "passed", "failed"}] :
       commands' = [e \in Managed |-> IF commands[e].how = "running" THEN [commands[e] EXCEPT !.how = last[e]] ELSE commands[e]]
  /\ UNCHANGED <<job, goals, notes, settings, report, bound, faults>>

\* A crash: what ran has no known end, what was asked has no account.
CrashRun ==
  /\ place # "over" /\ Ends("stopped") /\ call' = NoCall /\ review' = NoReview
  /\ owed' = IF place \in {"model", "opinion"} THEN "lost" ELSE owed
  /\ commands' = [e \in Managed |-> IF commands[e].how = "running" THEN [commands[e] EXCEPT !.how = "unknown"] ELSE commands[e]]
  /\ UNCHANGED <<job, goals, notes, usage, settings, report, bound, faults>>

\* Observer.bind: a task keeps the checks it was started with.
Bind(old) == old

\* inspect and Runtime.create: the child inherits the records of the task.
ResumeRun ==
  /\ place = "over" /\ finding = "stopped" /\ job.run < MaxRun
  /\ usage.rounds < MaxRound /\ ~Stalled /\ \A e \in Managed : commands[e].how # "unknown"
  /\ job' = [job EXCEPT !.run = @ + 1, !.seen = job.gen, !.asked = job.gen, !.checks = Bind(@)]
  /\ goals' = [goals EXCEPT ![job.run + 1] = Goal]
  /\ place' = "ask" /\ finding' = "none"
  /\ report' = Outdated
  /\ UNCHANGED <<notes, commands, call, usage, review, settings, bound, faults, owed>>

ReflectionNext ==
  \/ \E word \in BOOLEAN : Receive(word)
  \/ \E c \in SUBSET Check : ApplySteer(c) \/ SaveSettings(settings.version, c)
  \/ \E c \in Offers \cup {NoCall} : FinalizeResult(c) \/ \E complete \in BOOLEAN : ModelAnswers(c, complete)
  \/ \E how \in Outcomes \cup {"none", "cancelled"} : PerformCall(how)
  \/ \E result \in [Check \cup {"change"} -> Status] : WeighResults(result)
  \/ \E available \in BOOLEAN : RequestReview(available)
  \/ \E says \in {"pass", "revise", "invalid", "changed"}, complete \in BOOLEAN : Opinion(says, complete)
  \/ NextRequest \/ ModelCut \/ BeginVerify \/ SendReview \/ ReviewCut \/ StopRun \/ CrashRun \/ ResumeRun

ReflectionSpec == ReflectionInit /\ [][ReflectionNext]_reflectionVars

-----------------------------------------------------------------------------
(* Properties. *)

\* Every failure of a goal counts once: a result that is read again, by this run
\* or by the one that resumes it, after a change of the workspace or a lost
\* round, adds nothing and nothing is lost (reflection.py:105-247).
FailureCountsOnce == notes.goal = Goal => notes.count = Faults

\* A change is not delivered as verified after two failures of its goal unless
\* an independent review has passed this very state, whatever was steered,
\* resumed or changed since the failures (completion.py:204-218,
\* reflection_review.py:167-283).
ReviewBeforeDelivery ==
  finding = "verified" /\ Faults >= ReviewAt => review.passed /\ review.of = ReviewBinding

=============================================================================
