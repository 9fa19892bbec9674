----------------------------- MODULE AgentLoop -----------------------------
(***************************************************************************)
(* The loop of the agent core (private_agent_core/runtime.py, AgentRuntime)*)
(* and what the local adapter adds to a tool call (LocalRunAdapter).       *)
(*                                                                         *)
(* The loop asks the model, runs the calls of the answer in batches of at  *)
(* most two neighbouring reads, records the results in the order of the    *)
(* calls, and has the final answer verified before it is published.  A call*)
(* that needs an approval ends the loop with a checkpoint, from which      *)
(* another loop goes on.  Tools of a batch run concurrently; a cancel, a   *)
(* timeout or a lost event may cut the loop at every await.                *)
(***************************************************************************)
EXTENDS Naturals, Sequences, SequencesExt, FiniteSetsExt

CONSTANTS
  MaxStep,   \* limits.max_steps
  MaxTool,   \* limits.max_tool_calls
  MaxRetry,  \* max_verification_retries
  MaxWidth   \* bound of the calls of one answer of the model

ASSUME LoopBounds ==
  /\ MaxStep \in Nat \ {0} /\ MaxTool \in Nat /\ MaxRetry \in 0..2 /\ MaxWidth \in Nat \ {0}

VARIABLES
  spot,      \* where the loop is suspended
  verdict,   \* status of the result of the loop, once there is one
  thread,    \* conversation of the loop
  filed,     \* what the context sink has stored
  steps,     \* steps of the run
  calls,     \* calls of the answer under way
  at,        \* index of the first call of the batch
  got,       \* results of the batch, as the tools have returned them
  tries,     \* validation_attempt
  used,      \* tool_call_count
  approved,  \* the first call of the batch has been approved
  overtaken, \* the generation has changed since the answer
  halted,    \* the cancellation token is set
  shown      \* deltas published to the reader, by answer

loopVars == <<spot, verdict, thread, filed, steps, calls, at, got, tries, used,
              approved, overtaken, halted, shown>>
batchVars == <<calls, at, got>>
restVars == <<tries, used, approved, overtaken, halted, shown>>

Alive == {"asking", "running", "checking", "publishing"}

\* Calls are numbered; an answer of the model is the number of its step.
Call == [id : Nat, kind : {"read", "write"}]
Ask == [role |-> "user", id |-> 0]
Said(n) == [role |-> "answer", id |-> n]
Planned(cs) == [role |-> "calls", id |-> Len(cs), first |-> cs[1].id]
Feedback == [role |-> "feedback", id |-> 0]
Answer(c, r) == [role |-> "result", id |-> c.id, how |-> r, of |-> c.kind]

ModelStep == [kind |-> "model", status |-> "running", call |-> 0]
ToolStep(c) == [kind |-> "tool", status |-> "running", call |-> c.id]

\* finish_running_step.
Finished(s, how) == [i \in DOMAIN s |-> IF s[i].status = "running" THEN [s[i] EXCEPT !.status = how] ELSE s[i]]
FinishStep(s, i, how) == [s EXCEPT ![i].status = how]

LoopInit ==
  /\ spot = "asking" /\ verdict = "none"
  /\ thread = <<Ask>> /\ filed = <<Ask>>
  /\ steps = <<ModelStep>>
  /\ calls = <<>> /\ at = 1 /\ got = <<>>
  /\ tries = 0 /\ used = 0 /\ approved = FALSE
  /\ overtaken = FALSE /\ halted = FALSE /\ shown = <<>>

-----------------------------------------------------------------------------
(* The ends of the loop. *)

\* The handlers of run and resume: what still runs is closed with the status.
Stopped(s, status) ==
  /\ spot' = "over" /\ verdict' = status /\ steps' = Finished(s, status)
  /\ UNCHANGED batchVars

\* _RunLimitExceeded and _OutputValidationFailed close no step.
StoppedAsIs(s, status) ==
  /\ spot' = "over" /\ verdict' = status /\ steps' = s /\ UNCHANGED batchVars

\* Another round of _drive.
NextTurn(s) ==
  IF halted THEN Stopped(s, "cancelled")
  ELSE IF Len(s) >= MaxStep THEN StoppedAsIs(s, "limit_exceeded")
  ELSE /\ spot' = "asking" /\ steps' = Append(s, ModelStep)
       /\ UNCHANGED <<verdict, batchVars>>

-----------------------------------------------------------------------------
(* Batches (_call_batches). *)

\* Two neighbouring reads run together.
Width(cs, i) ==
  IF i < Len(cs) /\ cs[i].kind = "read" /\ cs[i + 1].kind = "read" THEN 2 ELSE 1

\* The batch that begins with call i, with a step for each of its calls.
BeginBatch(cs, s, i, n) ==
  IF halted THEN Stopped(s, "cancelled") /\ UNCHANGED used
  ELSE IF used + n > MaxTool \/ Len(s) + n > MaxStep
  THEN LET fits == Min({n, MaxTool - used, MaxStep - Len(s)}) IN
       /\ StoppedAsIs(s \o [k \in 1..fits |-> ToolStep(cs[i + k - 1])], "limit_exceeded")
       /\ used' = used + fits
  ELSE /\ spot' = "running" /\ calls' = cs /\ at' = i
       /\ got' = [k \in 1..n |-> "none"]
       /\ steps' = s \o [k \in 1..n |-> ToolStep(cs[i + k - 1])]
       /\ used' = used + n /\ UNCHANGED verdict

\* What _drive requires of an answer before any of its calls runs.
Fits(cs) == used + Len(cs) <= MaxTool /\ Len(steps) + Len(cs) <= MaxStep

-----------------------------------------------------------------------------
(* The model answers. *)

NewCalls == {[k \in 1..n |-> [id |-> Len(steps) + k, kind |-> f[k]]] :
             n \in 1..MaxWidth, f \in [1..MaxWidth -> {"read", "write"}]}

\* A call is numbered by the step it will have.
Answered(s, m) ==
  /\ spot = "asking" /\ ~halted
  /\ s = FinishStep(steps, Len(steps), "succeeded")
  /\ filed' = Append(filed, m) /\ overtaken' = FALSE

Comments ==
  LET m == Said(Len(steps)) IN
  \E s \in {FinishStep(steps, Len(steps), "succeeded")} :
    /\ Answered(s, m) /\ thread' = Append(thread, m) /\ NextTurn(s)
    /\ UNCHANGED <<tries, used, approved, halted, shown>>

Concludes ==
  \E s \in {FinishStep(steps, Len(steps), "succeeded")} :
    /\ Answered(s, Said(Len(steps))) /\ steps' = s
    /\ spot' = "checking" /\ tries' = tries + 1
    /\ UNCHANGED <<verdict, thread, batchVars, used, approved, halted, shown>>

Calls ==
  \E cs \in NewCalls, s \in {FinishStep(steps, Len(steps), "succeeded")} :
    /\ Answered(s, Planned(cs))
    /\ IF Fits(cs)
       THEN thread' = Append(thread, Planned(cs)) /\ BeginBatch(cs, s, 1, Width(cs, 1))
       ELSE StoppedAsIs(s, "limit_exceeded") /\ UNCHANGED <<thread, used>>
    /\ UNCHANGED <<tries, approved, halted, shown>>

-----------------------------------------------------------------------------
(* The calls of a batch run, in any order (LocalRunAdapter.execute). *)

\* A call that is overtaken before it starts is not executed; one that asks for
\* an approval has no effect; an approved one asks again only by mistake.
ToolReturns(k) ==
  /\ spot = "running" /\ k \in DOMAIN got /\ got[k] = "none" /\ ~halted
  /\ \E r \in (IF overtaken THEN {"superseded"} ELSE {"ok", "error", "approval"}) :
       got' = [got EXCEPT ![k] = r]
  /\ UNCHANGED <<spot, verdict, thread, filed, steps, calls, at, tries, used, approved,
                 overtaken, halted, shown>>

\* finalize_result: reads of an answer that is overtaken are not used.
Final(c, r) ==
  IF overtaken /\ c.kind = "read" /\ r # "approval" THEN "superseded" ELSE r

\* The next result in the order of the calls: its step, its record.
StepOf(c) == CHOOSE i \in DOMAIN steps : steps[i].call = c.id

TakeResult(c, r) ==
  LET m == Answer(c, Final(c, r))
      s == FinishStep(steps, StepOf(c), IF Final(c, r) = "ok" THEN "succeeded" ELSE "failed") IN
  /\ thread' = Append(thread, m) /\ filed' = Append(filed, m) /\ approved' = FALSE
  /\ IF Len(got) = 2
     THEN /\ at' = at + 1 /\ got' = Tail(got) /\ steps' = s
          /\ UNCHANGED <<spot, verdict, calls, used>>
     ELSE IF at < Len(calls) THEN BeginBatch(calls, s, at + 1, Width(calls, at + 1))
     ELSE NextTurn(s) /\ UNCHANGED used

\* Faulty variant: the checkpoint holds all the calls of the answer.
AsksApprovalFaulty(c) ==
  /\ spot' = "waiting" /\ steps' = FinishStep(steps, StepOf(c), "waiting")
  /\ at' = 1 /\ got' = <<>> /\ verdict' = "waiting_approval"
  /\ UNCHANGED <<thread, filed, calls, approved, used>>

\* The checkpoint holds the conversation so far and the calls from this one on.
AsksApproval(c) ==
  /\ spot' = "waiting" /\ steps' = FinishStep(steps, StepOf(c), "waiting")
  /\ calls' = SubSeq(calls, at, Len(calls)) /\ at' = 1 /\ got' = <<>>
  /\ verdict' = "waiting_approval"
  /\ UNCHANGED <<thread, filed, approved, used>>

\* A batch is settled when all of it has returned; two reads may not ask.
Batched == Len(got) = 2
Settles ==
  /\ spot = "running" /\ ~halted /\ \A k \in DOMAIN got : got[k] # "none"
  /\ LET c == calls[at] IN
     IF \/ Batched /\ \E k \in DOMAIN got : got[k] = "approval"
        \/ got[1] = "approval" /\ approved
     THEN Stopped(steps, "failed") /\ UNCHANGED <<thread, filed, approved, used>>
     ELSE IF got[1] = "approval" THEN AsksApproval(c)
     ELSE TakeResult(c, got[1])
  /\ UNCHANGED <<tries, overtaken, halted, shown>>

-----------------------------------------------------------------------------
(* The answer is verified, and published. *)

\* _prior_validation_failures: the feedback in the conversation.
Prior == Min({MaxRetry, Len(SelectSeq(thread, LAMBDA m : m = Feedback))})

Passes ==
  /\ spot = "checking" /\ ~halted /\ spot' = "publishing"
  /\ UNCHANGED <<verdict, thread, filed, steps, batchVars, restVars>>

Rejects ==
  /\ spot = "checking" /\ ~halted
  /\ \/ /\ tries - 1 < MaxRetry
        /\ thread' = thread \o <<Said(Len(steps)), Feedback>>
        /\ filed' = Append(filed, Feedback) /\ NextTurn(steps)
     \/ StoppedAsIs(steps, "failed") /\ UNCHANGED <<thread, filed>>
  /\ UNCHANGED restVars

\* The text of an answer has two parts.
Publishes ==
  /\ spot = "publishing" /\ ~halted
  /\ LET s == Append(shown, Len(steps)) IN
     /\ shown' = s
     /\ IF Len(s) = 2 THEN StoppedAsIs(steps, "completed") ELSE UNCHANGED <<spot, verdict, steps, batchVars>>
  /\ UNCHANGED <<thread, filed, tries, used, approved, overtaken, halted>>

-----------------------------------------------------------------------------
(* The rest of the world. *)

\* The user approves: a loop of its own goes on from the checkpoint.
Resume ==
  /\ spot = "waiting" /\ spot' = "running" /\ verdict' = "none"
  /\ got' = <<"none">> /\ approved' = TRUE /\ tries' = Prior
  /\ UNCHANGED <<thread, filed, steps, calls, at, used, overtaken, halted, shown>>

\* A steer: the generation has changed.
Overtake ==
  /\ spot = "running" /\ ~overtaken /\ overtaken' = TRUE
  /\ UNCHANGED <<spot, verdict, thread, filed, steps, batchVars, tries, used, approved, halted, shown>>

Halt ==
  /\ spot \in Alive /\ ~halted /\ halted' = TRUE
  /\ UNCHANGED <<spot, verdict, thread, filed, steps, batchVars, tries, used, approved, overtaken, shown>>

\* What waits is cut: by the token, by the wall clock, or by an error.
Cut ==
  /\ spot \in Alive
  /\ \/ halted /\ Stopped(steps, "cancelled")
     \/ \E status \in {"timed_out", "failed"} : Stopped(steps, status)
  /\ UNCHANGED <<thread, filed, restVars>>

\* finish_interrupted_steps, when the task was cancelled or an event was lost:
\* the loop is gone without an event of its own.
Lost ==
  /\ spot \in Alive /\ Stopped(steps, "lost")
  /\ UNCHANGED <<thread, filed, restVars>>

LoopNext ==
  \/ Comments \/ Concludes \/ Calls
  \/ \E k \in 1..2 : ToolReturns(k)
  \/ Settles \/ Passes \/ Rejects \/ Publishes
  \/ Resume \/ Overtake \/ Halt \/ Cut \/ Lost

LoopSpec == LoopInit /\ [][LoopNext]_loopVars

-----------------------------------------------------------------------------
(* Properties. *)

\* When the model is asked, the calls of every earlier answer have their results
\* behind them, one each and in the order of the calls, whatever order the tools
\* returned in and wherever an approval interrupted them, and what the model
\* sees is what was filed.
AskedOnRecord ==
  spot = "asking" =>
    /\ thread = filed
    /\ \A i \in DOMAIN thread : thread[i].role = "calls" =>
         \A k \in 1..thread[i].id :
           /\ i + k <= Len(thread) /\ thread[i + k].role = "result"
           /\ thread[i + k].id = thread[i].first + k - 1

=============================================================================
