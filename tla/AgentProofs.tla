------------------------------ MODULE AgentProofs ------------------------------
(***************************************************************************)
(* What AgentLoop, Evidence, Reflection and ModelStream promise, for every *)
(* limit on steps, calls and retries, every width of an answer, every set  *)
(* of files, commands, checks and settings of a task, every secret and     *)
(* every text of a model.                                                  *)
(*                                                                         *)
(* That the model is asked on a full record needs to know what the record  *)
(* lacks while calls run or wait: the last answer with calls is the only   *)
(* one that is open, and its missing results are those of the calls still  *)
(* ahead, in their order (LastIsOpen).  It needs that the record and the   *)
(* conversation part only over an answer that is being checked (OneRecord),*)
(* and that a batch never reaches over the end of its calls (BatchFits).   *)
(*                                                                         *)
(* That accepted work rests on what the verifier has scanned needs to know *)
(* that each write of the tools since a command began has raised the       *)
(* version (StampsFit), that what the verifier read is still on record but *)
(* for commands that have ended since (LookFits), that an issue comes from *)
(* a command that has to pass once more (IssueFits), and that nothing is   *)
(* written to a file after a write that may be half done (UnsureFits).     *)
(*                                                                         *)
(* That every failure counts once needs to know which commands were read:  *)
(* each of them has ended, and those that failed are the ones counted      *)
(* (FaultsFit).  That a change is reviewed before it is delivered needs    *)
(* that two failures, and only they, call for the review (CallsForReview)  *)
(* and that an opinion is about the state as it is until the user speaks   *)
(* (OpinionFits).                                                          *)
(*                                                                         *)
(* That a confirmed response is the whole answer needs to know that what   *)
(* has been read and what is on its way make up the answer as long as the  *)
(* stream has not been broken off (Completes), that it ends once and last  *)
(* (Ordered), and that nothing read before is left when it is tried again  *)
(* (StandsWell).  That its text is shown as a whole needs that the filter  *)
(* stands where it would stand if the text had come in one piece           *)
(* (Filtered).                                                             *)
(***************************************************************************)
EXTENDS AgentLoop, Evidence, Reflection, ModelStream, SequenceTheorems, FiniteSetTheorems, WellFoundedInduction, TLAPS

StepRecords ==
  [kind : {"model", "tool"}, call : Nat,
   status : {"running", "succeeded", "failed", "waiting", "cancelled", "timed_out", "lost"}]
Results == {"ok", "error", "approval", "superseded"}
Verdicts == {"none", "cancelled", "limit_exceeded", "failed", "completed", "waiting_approval", "timed_out", "lost"}
Messages ==
  [role : {"user", "answer", "feedback"}, id : Nat]
  \cup [role : {"calls"}, id : Nat, first : Nat]
  \cup [role : {"result"}, id : Nat, how : Results, of : {"read", "write"}]

\* The variables hold what they are meant to, within the limits of the run
\* (runtime.py).  The attempts are counted with SelectSeq, of which the provers
\* know nothing, and no property rests on them.
LoopTypeOK ==
  /\ spot \in Alive \cup {"waiting", "over"} /\ verdict \in Verdicts
  /\ thread \in Seq(Messages) /\ filed \in Seq(Messages)
  /\ steps \in Seq(StepRecords) /\ Len(steps) <= MaxStep
  /\ calls \in Seq(Call) /\ at \in Nat \ {0} /\ got \in Seq(Results \cup {"none"})
  /\ used \in 0..MaxTool
  /\ approved \in BOOLEAN /\ overtaken \in BOOLEAN /\ halted \in BOOLEAN
  /\ shown \in Seq(Nat)

\* A batch is one or two of the calls; what waits begins with the first call.
BatchFits ==
  /\ spot = "running" => Len(got) \in {1, 2} /\ at + Len(got) - 1 <= Len(calls)
  /\ spot = "waiting" => at = 1 /\ Len(calls) > 0

\* What is filed is the conversation, and the answer that is being checked.
OneRecord ==
  /\ spot \in {"asking", "running", "waiting"} => filed = thread
  /\ spot = "checking" => filed = Append(thread, Said(Len(steps)))

\* The message at i of t has n results behind it, in the order of its calls.
Given(t, i, n) ==
  /\ i + n <= Len(t)
  /\ \A k \in 1..n : t[i + k].role = "result" /\ t[i + k].id = t[i].first + k - 1

Closed(t, i) == t[i].role = "calls" => Given(t, i, t[i].id)

\* The calls cs from j on are those whose results the message at i of t lacks.
Open(t, i, cs, j) ==
  /\ t[i].role = "calls" /\ Given(t, i, Len(t) - i)
  /\ t[i].id = (Len(t) - i) + (Len(cs) - j + 1)
  /\ \A k \in j..Len(cs) : cs[k].id = t[i].first + (Len(t) - i) + (k - j)
  /\ \A h \in DOMAIN t : h # i => Closed(t, h)

LastIsOpen ==
  /\ spot \in {"asking", "checking"} => \A i \in DOMAIN thread : Closed(thread, i)
  /\ spot \in {"running", "waiting"} => \E i \in DOMAIN thread : Open(thread, i, calls, at)

LoopInv == LoopTypeOK /\ BatchFits /\ OneRecord /\ LastIsOpen

-----------------------------------------------------------------------------
(* Sequences and records. *)

LEMMA LeastOfThree ==
  ASSUME NEW a \in Int, NEW b \in Int, NEW c \in Int
  PROVE  /\ Min({a, b, c}) \in {a, b, c}
         /\ Min({a, b, c}) <= a /\ Min({a, b, c}) <= b /\ Min({a, b, c}) <= c
<1>1. \E x \in {a, b, c} : \A y \in {a, b, c} : x <= y OBVIOUS
<1> QED BY <1>1 DEF Min

LEMMA FinishKeeps ==
  ASSUME NEW s \in Seq(StepRecords), NEW i,
         NEW how \in {"running", "succeeded", "failed", "waiting", "cancelled", "timed_out", "lost"}
  PROVE  /\ FinishStep(s, i, how) \in Seq(StepRecords) /\ Len(FinishStep(s, i, how)) = Len(s)
         /\ Finished(s, how) \in Seq(StepRecords) /\ Len(Finished(s, how)) = Len(s)
<1>1. DOMAIN s = 1..Len(s) /\ Len(s) \in Nat /\ \A k \in 1..Len(s) : s[k] \in StepRecords OBVIOUS
<1>2. FinishStep(s, i, how) \in [1..Len(s) -> StepRecords] BY <1>1 DEF FinishStep, StepRecords
<1>3. Finished(s, how) \in [1..Len(s) -> StepRecords] BY <1>1 DEF Finished, StepRecords
<1> DEFINE a == FinishStep(s, i, how)
<1> DEFINE b == Finished(s, how)
<1>4. a \in [1..Len(s) -> StepRecords] /\ b \in [1..Len(s) -> StepRecords] BY <1>2, <1>3
<1> HIDE DEF a, b
<1>5. a \in Seq(StepRecords) /\ Len(a) = Len(s) BY <1>1, <1>4, SeqDef
<1>6. b \in Seq(StepRecords) /\ Len(b) = Len(s) BY <1>1, <1>4, SeqDef
<1> QED BY <1>5, <1>6 DEF a, b

\* Results stay behind their calls when a message follows them.
LEMMA StaysGiven ==
  ASSUME NEW t \in Seq(Messages), NEW m \in Messages, NEW i \in DOMAIN t, NEW n \in Nat, Given(t, i, n)
  PROVE  Given(Append(t, m), i, n)
<1>1. /\ Len(Append(t, m)) = Len(t) + 1 /\ DOMAIN t = 1..Len(t) /\ Len(t) \in Nat
      /\ \A k \in 1..Len(t) : Append(t, m)[k] = t[k]
  OBVIOUS
<1>2. i + n <= Len(t) BY DEF Given
<1>3. \A k \in 1..n : i + k \in 1..Len(t) BY <1>1, <1>2
<1> QED BY <1>1, <1>2, <1>3 DEF Given

LEMMA StaysClosed ==
  ASSUME NEW t \in Seq(Messages), NEW m \in Messages, NEW i \in DOMAIN t, Closed(t, i)
  PROVE  Closed(Append(t, m), i)
<1>1. Append(t, m)[i] = t[i] /\ t[i] \in Messages OBVIOUS
<1>2. t[i].role = "calls" => t[i].id \in Nat BY <1>1 DEF Messages
<1> QED BY <1>1, <1>2, StaysGiven DEF Closed

\* A message that is not a list of calls leaves the record closed.
LEMMA PlainCloses ==
  ASSUME NEW t \in Seq(Messages), NEW m \in Messages, m.role # "calls", \A i \in DOMAIN t : Closed(t, i)
  PROVE  \A i \in DOMAIN Append(t, m) : Closed(Append(t, m), i)
<1> SUFFICES ASSUME NEW i \in DOMAIN Append(t, m) PROVE Closed(Append(t, m), i) OBVIOUS
<1>1. i \in DOMAIN t \/ (i = Len(t) + 1 /\ Append(t, m)[i] = m) OBVIOUS
<1>2. CASE i \in DOMAIN t BY <1>2, StaysClosed
<1>3. CASE i = Len(t) + 1 /\ Append(t, m)[i] = m BY <1>3 DEF Closed
<1> QED BY <1>1, <1>2, <1>3

\* The result of the next call is one less that is missing.
LEMMA ResultFollows ==
  ASSUME NEW t \in Seq(Messages), NEW i \in DOMAIN t, NEW cs \in Seq(Call), NEW j \in 1..Len(cs),
         Open(t, i, cs, j), NEW m \in Messages, m.role = "result", m.id = cs[j].id
  PROVE  /\ Open(Append(t, m), i, cs, j + 1)
         /\ j = Len(cs) => \A h \in DOMAIN Append(t, m) : Closed(Append(t, m), h)
<1> DEFINE u == Append(t, m)
<1>1. /\ u \in Seq(Messages) /\ Len(u) = Len(t) + 1 /\ Len(t) \in Nat /\ DOMAIN t = 1..Len(t) /\ DOMAIN u = 1..Len(u)
      /\ u[Len(u)] = m /\ \A k \in 1..Len(t) : u[k] = t[k]
  OBVIOUS
<1>b. \A h \in DOMAIN t : Closed(t, h) => Closed(u, h) BY StaysClosed
<1> HIDE DEF u
<1>2. t[i] \in Messages /\ u[i] = t[i] BY <1>1
<1>3. t[i].role = "calls" /\ Given(t, i, Len(t) - i) /\ t[i].id = (Len(t) - i) + (Len(cs) - j + 1) BY DEF Open
<1>4. t[i].id \in Nat /\ t[i].first \in Nat BY <1>2, <1>3 DEF Messages
<1>5. Len(cs) \in Nat /\ j \in Nat /\ i \in Nat /\ i <= Len(t) BY <1>1
<1>6. cs[j].id = t[i].first + (Len(t) - i)
  <2>1. \A k \in j..Len(cs) : cs[k].id = t[i].first + (Len(t) - i) + (k - j) BY DEF Open
  <2>2. j \in j..Len(cs) /\ j - j = 0 BY <1>5
  <2>3. cs[j].id = t[i].first + (Len(t) - i) + (j - j) BY <2>1, <2>2
  <2> QED BY <2>2, <2>3, <1>4, <1>5
<1>7. Given(u, i, Len(u) - i)
  <2> SUFFICES ASSUME NEW k \in 1..(Len(u) - i)
               PROVE  u[i + k].role = "result" /\ u[i + k].id = u[i].first + k - 1
    BY <1>1, <1>5 DEF Given
  <2>1. CASE i + k <= Len(t)
    <3>1. u[i + k] = t[i + k] /\ k \in 1..(Len(t) - i) BY <1>1, <1>5, <2>1
    <3> QED BY <1>2, <1>3, <3>1 DEF Given
  <2>2. CASE i + k = Len(u)
    <3>1. k \in Int /\ Len(t) \in Int /\ i \in Int /\ i + k = Len(t) + 1 BY <1>1, <1>5, <2>2
    <3>2. k - 1 = Len(t) - i BY <3>1
    <3>3. u[i + k] = m /\ u[i].first = t[i].first BY <1>1, <1>2, <2>2
    <3> QED BY <1>4, <1>5, <1>6, <3>1, <3>2, <3>3
  <2> QED BY <1>1, <1>5, <2>1, <2>2
<1>8. u[i].id = (Len(u) - i) + (Len(cs) - (j + 1) + 1) BY <1>1, <1>2, <1>3, <1>5
<1>9. \A k \in (j + 1)..Len(cs) : cs[k].id = u[i].first + (Len(u) - i) + (k - (j + 1))
  <2> TAKE k \in (j + 1)..Len(cs)
  <2>1. cs[k].id = t[i].first + (Len(t) - i) + (k - j) BY <1>5 DEF Open
  <2>2. k \in Int /\ j \in Int /\ Len(u) - i = (Len(t) - i) + 1 BY <1>1, <1>5
  <2>3. (Len(t) - i) + (k - j) = (Len(u) - i) + (k - (j + 1)) BY <1>1, <1>5, <2>2
  <2> QED BY <1>1, <1>2, <1>4, <1>5, <2>1, <2>2, <2>3
<1>10. \A h \in DOMAIN u : h # i => Closed(u, h)
  <2> TAKE h \in DOMAIN u
  <2>1. CASE h \in DOMAIN t BY <1>b, <2>1 DEF Open
  <2>2. CASE h = Len(u) BY <1>1, <2>2 DEF Closed
  <2> QED BY <1>1, <2>1, <2>2
<1>11. Open(u, i, cs, j + 1) BY <1>2, <1>3, <1>7, <1>8, <1>9, <1>10 DEF Open
<1>12. j = Len(cs) => u[i].id = Len(u) - i BY <1>1, <1>5, <1>8
<1> QED BY <1>7, <1>10, <1>11, <1>12 DEF Closed, u

\* An answer with calls is open at its first call.
LEMMA CallsOpen ==
  ASSUME NEW t \in Seq(Messages), \A i \in DOMAIN t : Closed(t, i), NEW cs \in Seq(Call), Len(cs) > 0,
         \A k \in 1..Len(cs) : cs[k].id = cs[1].id + k - 1
  PROVE  /\ Append(t, Planned(cs)) \in Seq(Messages)
         /\ \E i \in DOMAIN Append(t, Planned(cs)) : Open(Append(t, Planned(cs)), i, cs, 1)
<1> DEFINE m == Planned(cs)
           u == Append(t, m)
<1>1. cs[1] \in Call /\ Len(cs) \in Nat OBVIOUS
<1>2. m \in Messages /\ m.role = "calls" /\ m.id = Len(cs) /\ m.first = cs[1].id BY <1>1 DEF Planned, Messages, Call
<1> HIDE DEF m
<1>3. u \in Seq(Messages) /\ Len(u) \in Nat /\ DOMAIN u = 1..Len(u) /\ Len(u) > 0 /\ u[Len(u)] = m BY <1>2
<1>4. \A h \in DOMAIN u : h # Len(u) => h \in DOMAIN t BY <1>2
<1>5. \A h \in DOMAIN u : h # Len(u) => Closed(u, h) BY <1>2, <1>4, StaysClosed
<1>6. cs[1].id \in Nat BY <1>1 DEF Call
<1>7. Given(u, Len(u), 0) BY <1>3 DEF Given
<1>8. Open(u, Len(u), cs, 1) BY <1>1, <1>2, <1>3, <1>5, <1>6, <1>7 DEF Open
<1> QED BY <1>3, <1>8 DEF m

-----------------------------------------------------------------------------
(* The ways a turn goes on. *)

DriveTyped ==
  /\ spot \in Alive \cup {"waiting", "over"} /\ verdict \in Verdicts
  /\ steps \in Seq(StepRecords) /\ Len(steps) <= MaxStep
  /\ calls \in Seq(Call) /\ at \in Nat \ {0} /\ got \in Seq(Results \cup {"none"})
TalkTyped ==
  /\ thread \in Seq(Messages) /\ filed \in Seq(Messages)
  /\ approved \in BOOLEAN /\ overtaken \in BOOLEAN /\ halted \in BOOLEAN /\ shown \in Seq(Nat)

LEMMA TypeParts == LoopTypeOK <=> DriveTyped /\ TalkTyped /\ used \in 0..MaxTool
BY DEF LoopTypeOK, DriveTyped, TalkTyped

LEMMA TypePartsNext == LoopTypeOK' <=> DriveTyped' /\ TalkTyped' /\ used' \in 0..MaxTool
BY DEF LoopTypeOK, DriveTyped, TalkTyped

LEMMA OverKeeps == ASSUME LoopTypeOK', spot' = "over" PROVE LoopInv'
BY DEF LoopInv, BatchFits, OneRecord, LastIsOpen

LEMMA StoppedTyped ==
  ASSUME LoopTypeOK, NEW s \in Seq(StepRecords), Len(s) <= MaxStep,
         NEW status \in {"cancelled", "failed", "timed_out", "lost"},
         Stopped(s, status) \/ StoppedAsIs(s, status)
  PROVE  DriveTyped' /\ spot' = "over"
<1>1. steps' \in Seq(StepRecords) /\ Len(steps') <= MaxStep BY FinishKeeps DEF Stopped, StoppedAsIs
<1> QED BY <1>1 DEF Stopped, StoppedAsIs, LoopTypeOK, DriveTyped, Verdicts, batchVars

LEMMA LimitTyped ==
  ASSUME LoopTypeOK, NEW s \in Seq(StepRecords), Len(s) <= MaxStep,
         NEW status \in {"limit_exceeded", "completed"}, StoppedAsIs(s, status)
  PROVE  DriveTyped' /\ spot' = "over"
BY DEF StoppedAsIs, LoopTypeOK, DriveTyped, Verdicts, batchVars

LEMMA NextTurnTyped ==
  ASSUME LoopTypeOK, NEW s \in Seq(StepRecords), Len(s) <= MaxStep, NextTurn(s)
  PROVE  DriveTyped' /\ spot' \in {"asking", "over"}
<1>1. CASE halted BY <1>1, StoppedTyped DEF NextTurn
<1>2. CASE ~halted /\ Len(s) >= MaxStep BY <1>2, LimitTyped DEF NextTurn
<1>3. CASE ~halted /\ ~(Len(s) >= MaxStep)
  <2>1. /\ spot' = "asking" /\ steps' = Append(s, ModelStep) /\ UNCHANGED <<verdict, batchVars>>
    BY <1>3 DEF NextTurn
  <2>2. ModelStep \in StepRecords BY DEF ModelStep, StepRecords
  <2>3. steps' \in Seq(StepRecords) /\ Len(steps') = Len(s) + 1 BY <2>1, <2>2
  <2>4. Len(steps') <= MaxStep BY <1>3, <2>3, LoopBounds
  <2> QED BY <2>1, <2>3, <2>4 DEF LoopTypeOK, DriveTyped, batchVars, Alive
<1> QED BY <1>1, <1>2, <1>3

\* The steps of the calls of a batch follow those there are.
LEMMA ToolStepsFollow ==
  ASSUME NEW s \in Seq(StepRecords), NEW cs \in Seq(Call), NEW i \in 1..Len(cs), NEW n \in Nat, i + n - 1 <= Len(cs)
  PROVE  LET u == s \o [k \in 1..n |-> ToolStep(cs[i + k - 1])] IN u \in Seq(StepRecords) /\ Len(u) = Len(s) + n
<1> DEFINE v == [k \in 1..n |-> ToolStep(cs[i + k - 1])]
<1>1. ASSUME NEW k \in 1..n PROVE ToolStep(cs[i + k - 1]) \in StepRecords
  <2>1. i + k - 1 \in 1..Len(cs) BY <1>1
  <2>2. cs[i + k - 1] \in Call BY <2>1
  <2> QED BY <2>2 DEF ToolStep, StepRecords, Call
<1>2. v \in [1..n -> StepRecords] BY <1>1
<1> HIDE DEF v
<1>3. v \in Seq(StepRecords) /\ Len(v) = n BY <1>2, SeqDef
<1>4. s \o v \in Seq(StepRecords) BY <1>3, ConcatProperties
<1>5. Len(s \o v) = Len(s) + n BY <1>3, ConcatProperties
<1> QED BY <1>4, <1>5 DEF v

LEMMA BeginBatchTyped ==
  ASSUME LoopTypeOK, NEW s \in Seq(StepRecords), Len(s) <= MaxStep, NEW cs \in Seq(Call), NEW i \in 1..Len(cs),
         BeginBatch(cs, s, i, Width(cs, i))
  PROVE  /\ DriveTyped' /\ used' \in 0..MaxTool /\ BatchFits'
         /\ spot' = "over" \/ (spot' = "running" /\ calls' = cs /\ at' = i)
<1> DEFINE n == Width(cs, i)
<1>1. n \in {1, 2} /\ i + n - 1 <= Len(cs) /\ i \in Nat /\ Len(cs) \in Nat /\ i > 0 BY DEF Width
<1>2. used \in Nat /\ used <= MaxTool /\ MaxTool \in Nat /\ MaxStep \in Nat /\ Len(s) \in Nat
  BY LoopBounds DEF LoopTypeOK
<1>a. BeginBatch(cs, s, i, n) OBVIOUS
<1> HIDE DEF n
<1>3. CASE halted
  <2>1. Stopped(s, "cancelled") /\ used' = used BY <1>3, <1>a DEF BeginBatch
  <2> QED BY <1>2, <2>1, StoppedTyped DEF BatchFits
<1>4. CASE ~halted /\ (used + n > MaxTool \/ Len(s) + n > MaxStep)
  <2> DEFINE fits == Min({n, MaxTool - used, MaxStep - Len(s)})
  <2>0. n \in Int /\ MaxTool - used \in Int /\ MaxStep - Len(s) \in Int BY <1>1, <1>2
  <2>1. fits \in {n, MaxTool - used, MaxStep - Len(s)} /\ fits <= n /\ fits <= MaxTool - used /\ fits <= MaxStep - Len(s)
    BY <2>0, LeastOfThree
  <2>2. StoppedAsIs(s \o [k \in 1..fits |-> ToolStep(cs[i + k - 1])], "limit_exceeded") /\ used' = used + fits
    BY <1>4, <1>a DEF BeginBatch
  <2> HIDE DEF fits
  <2>3. fits \in Nat /\ i + fits - 1 <= Len(cs) /\ used + fits \in 0..MaxTool BY <1>1, <1>2, <2>1
  <2> DEFINE u == s \o [k \in 1..fits |-> ToolStep(cs[i + k - 1])]
  <2>4. u \in Seq(StepRecords) /\ Len(u) = Len(s) + fits BY <2>3, ToolStepsFollow
  <2>5. Len(u) <= MaxStep BY <1>2, <2>1, <2>3, <2>4
  <2>6. StoppedAsIs(u, "limit_exceeded") BY <2>2
  <2> HIDE DEF u
  <2>7. DriveTyped' /\ spot' = "over" BY <2>4, <2>5, <2>6, LimitTyped
  <2> QED BY <2>2, <2>3, <2>7 DEF BatchFits
<1>5. CASE ~halted /\ ~(used + n > MaxTool \/ Len(s) + n > MaxStep)
  <2>1. /\ spot' = "running" /\ calls' = cs /\ at' = i /\ got' = [k \in 1..n |-> "none"]
        /\ steps' = s \o [k \in 1..n |-> ToolStep(cs[i + k - 1])]
        /\ used' = used + n /\ verdict' = verdict
    BY <1>5, <1>a DEF BeginBatch
  <2> DEFINE u == s \o [k \in 1..n |-> ToolStep(cs[i + k - 1])]
  <2>u. n \in Nat BY <1>1
  <2>v. u \in Seq(StepRecords) /\ Len(u) = Len(s) + n BY <1>1, <2>u, ToolStepsFollow
  <2>2. steps' \in Seq(StepRecords) /\ Len(steps') = Len(s) + n BY <2>1, <2>v
  <2>3. got' \in Seq(Results \cup {"none"}) /\ Len(got') = n
    <3>1. n \in Nat BY <1>1
    <3>2. got' \in [1..n -> Results \cup {"none"}] BY <2>1
    <3> QED BY <3>1, <3>2, SeqDef
  <2>4. used' \in 0..MaxTool /\ Len(steps') <= MaxStep BY <1>1, <1>2, <1>5, <2>1, <2>2
  <2>5. DriveTyped'
    <3>1. spot' \in Alive \cup {"waiting", "over"} BY <2>1 DEF Alive
    <3>2. verdict' \in Verdicts BY <2>1 DEF LoopTypeOK
    <3>3. calls' \in Seq(Call) /\ at' \in Nat \ {0} BY <1>1, <2>1
    <3> HIDE DEF u
    <3> QED BY <2>2, <2>3, <2>4, <3>1, <3>2, <3>3 DEF DriveTyped
  <2> QED BY <1>1, <2>1, <2>3, <2>4, <2>5 DEF BatchFits
<1> QED BY <1>3, <1>4, <1>5

-----------------------------------------------------------------------------
(* What the model answers. *)

LEMMA StepSucceeds ==
  ASSUME LoopTypeOK
  PROVE  LET s == FinishStep(steps, Len(steps), "succeeded") IN
         s \in Seq(StepRecords) /\ Len(s) = Len(steps) /\ Len(s) <= MaxStep
BY FinishKeeps DEF LoopTypeOK

LEMMA SaidIsMessage == ASSUME NEW n \in Nat PROVE Said(n) \in Messages /\ Said(n).role # "calls"
BY DEF Said, Messages

LEMMA MessageFollows ==
  ASSUME NEW t \in Seq(Messages), NEW m \in Messages
  PROVE  Append(t, m) \in Seq(Messages)
OBVIOUS

LEMMA CommentsKeeps == ASSUME LoopInv, Comments PROVE LoopInv'
<1> DEFINE s == FinishStep(steps, Len(steps), "succeeded")
           m == Said(Len(steps))
<1>1. /\ spot = "asking" /\ filed' = Append(filed, m) /\ thread' = Append(thread, m) /\ NextTurn(s)
      /\ overtaken' = FALSE /\ UNCHANGED <<tries, used, approved, halted, shown>>
  BY DEF Comments, Answered
<1>2. m \in Messages /\ m.role # "calls" BY SaidIsMessage DEF LoopInv, LoopTypeOK
<1>3. s \in Seq(StepRecords) /\ Len(s) <= MaxStep BY StepSucceeds DEF LoopInv
<1> HIDE DEF s, m
<1>4. DriveTyped' /\ spot' \in {"asking", "over"} BY <1>1, <1>3, NextTurnTyped DEF LoopInv
<1>a. thread' \in Seq(Messages) /\ filed' \in Seq(Messages)
  BY <1>1, <1>2, MessageFollows DEF LoopInv, LoopTypeOK
<1>b. UNCHANGED <<used, approved, halted, shown>> /\ overtaken' = FALSE BY <1>1
<1>5. TalkTyped' /\ used' \in 0..MaxTool BY <1>a, <1>b DEF LoopInv, LoopTypeOK, TalkTyped
<1>6. LoopTypeOK' BY <1>4, <1>5, TypePartsNext
<1>7. \A i \in DOMAIN thread' : Closed(thread', i)
  BY <1>1, <1>2, PlainCloses DEF LoopInv, LastIsOpen, LoopTypeOK
<1>8. filed' = thread' BY <1>1 DEF LoopInv, OneRecord
<1> QED BY <1>4, <1>6, <1>7, <1>8 DEF LoopInv, BatchFits, OneRecord, LastIsOpen

LEMMA ConcludesKeeps == ASSUME LoopInv, Concludes PROVE LoopInv'
<1> DEFINE s == FinishStep(steps, Len(steps), "succeeded")
           m == Said(Len(steps))
<1>1. /\ spot = "asking" /\ filed' = Append(filed, m) /\ steps' = s /\ spot' = "checking"
      /\ overtaken' = FALSE /\ UNCHANGED <<verdict, thread, batchVars, used, approved, halted, shown>>
  BY DEF Concludes, Answered
<1>2. m \in Messages BY SaidIsMessage DEF LoopInv, LoopTypeOK
<1>3. s \in Seq(StepRecords) /\ Len(s) = Len(steps) /\ Len(s) <= MaxStep BY StepSucceeds DEF LoopInv
<1>4. filed' = Append(thread', Said(Len(steps'))) BY <1>1, <1>3 DEF LoopInv, OneRecord
<1> HIDE DEF s, m
<1>a. filed' \in Seq(Messages) BY <1>1, <1>2, MessageFollows DEF LoopInv, LoopTypeOK
<1>5. LoopTypeOK' BY <1>1, <1>3, <1>a DEF LoopInv, LoopTypeOK, batchVars, Alive
<1> QED BY <1>1, <1>4, <1>5 DEF LoopInv, BatchFits, OneRecord, LastIsOpen

LEMMA CallsKeeps == ASSUME LoopInv, Calls PROVE LoopInv'
<1> DEFINE s == FinishStep(steps, Len(steps), "succeeded")
<1>1. PICK cs \in NewCalls :
        /\ spot = "asking" /\ filed' = Append(filed, Planned(cs)) /\ overtaken' = FALSE
        /\ IF Fits(cs)
           THEN thread' = Append(thread, Planned(cs)) /\ BeginBatch(cs, s, 1, Width(cs, 1))
           ELSE StoppedAsIs(s, "limit_exceeded") /\ UNCHANGED <<thread, used>>
        /\ UNCHANGED <<tries, approved, halted, shown>>
  BY DEF Calls, Answered
<1>2. /\ cs \in Seq(Call) /\ Len(cs) \in Nat /\ Len(cs) > 0
      /\ \A k \in 1..Len(cs) : cs[k].id = cs[1].id + k - 1
  <2>1. PICK n \in 1..MaxWidth, f \in [1..MaxWidth -> {"read", "write"}] :
          cs = [k \in 1..n |-> [id |-> Len(steps) + k, kind |-> f[k]]]
    BY DEF NewCalls
  <2>2. Len(steps) \in Nat /\ n \in Nat /\ n > 0 /\ MaxWidth \in Nat BY LoopBounds DEF LoopInv, LoopTypeOK
  <2>3. cs \in [1..n -> Call] BY <2>1, <2>2 DEF Call
  <2>4. cs \in Seq(Call) /\ Len(cs) = n BY <2>2, <2>3, SeqDef
  <2> QED BY <2>1, <2>2, <2>4
<1>3. s \in Seq(StepRecords) /\ Len(s) <= MaxStep BY StepSucceeds DEF LoopInv
<1>4. Append(thread, Planned(cs)) \in Seq(Messages) /\ Append(filed, Planned(cs)) \in Seq(Messages)
      /\ \E i \in DOMAIN Append(thread, Planned(cs)) : Open(Append(thread, Planned(cs)), i, cs, 1)
  BY <1>1, <1>2, CallsOpen DEF LoopInv, LastIsOpen, LoopTypeOK, OneRecord
<1> HIDE DEF s
<1>5. CASE ~Fits(cs)
  <2>1. DriveTyped' /\ spot' = "over" BY <1>1, <1>3, <1>5, LimitTyped DEF LoopInv
  <2>2. TalkTyped' /\ used' \in 0..MaxTool BY <1>1, <1>4, <1>5 DEF LoopInv, LoopTypeOK, TalkTyped
  <2> QED BY <2>1, <2>2, TypePartsNext, OverKeeps
<1>6. CASE Fits(cs)
  <2>1. /\ DriveTyped' /\ used' \in 0..MaxTool /\ BatchFits'
        /\ spot' = "over" \/ (spot' = "running" /\ calls' = cs /\ at' = 1)
    <3>1. 1 \in 1..Len(cs) BY <1>2
    <3> QED BY <1>1, <1>2, <1>3, <1>6, <3>1, BeginBatchTyped DEF LoopInv
  <2>2. thread' = Append(thread, Planned(cs)) /\ filed' = thread' BY <1>1, <1>6 DEF LoopInv, OneRecord
  <2>3. TalkTyped' BY <1>1, <1>4, <2>2 DEF LoopInv, LoopTypeOK, TalkTyped
  <2>4. LoopTypeOK' BY <2>1, <2>3, TypePartsNext
  <2>5. CASE spot' = "over" BY <2>4, <2>5, OverKeeps
  <2>6. CASE spot' = "running" /\ calls' = cs /\ at' = 1
    <3>1. \E i \in DOMAIN thread' : Open(thread', i, calls', at') BY <1>4, <2>2, <2>6
    <3> QED BY <2>1, <2>2, <2>4, <2>6, <3>1 DEF LoopInv, OneRecord, LastIsOpen
  <2> QED BY <2>1, <2>5, <2>6
<1> QED BY <1>5, <1>6

-----------------------------------------------------------------------------
(* The calls of a batch. *)

LEMMA ReturnsKeeps == ASSUME LoopInv, NEW k \in 1..2, ToolReturns(k) PROVE LoopInv'
<1>1. /\ spot = "running" /\ UNCHANGED <<spot, verdict, thread, filed, steps, calls, at, tries, used, approved,
                                         overtaken, halted, shown>>
      /\ \E r \in Results : got' = [got EXCEPT ![k] = r]
  BY DEF ToolReturns, Results
<1>2. got' \in Seq(Results \cup {"none"}) /\ Len(got') = Len(got)
  <2>1. PICK x \in Results : got' = [got EXCEPT ![k] = x] BY <1>1
  <2>2. got \in Seq(Results \cup {"none"}) /\ k \in DOMAIN got BY DEF ToolReturns, LoopInv, LoopTypeOK
  <2> QED BY <2>1, <2>2
<1> QED BY <1>1, <1>2 DEF LoopInv, LoopTypeOK, BatchFits, OneRecord, LastIsOpen

LEMMA FinalTyped == ASSUME NEW c \in Call, NEW r \in Results PROVE Answer(c, Final(c, r)) \in Messages
BY DEF Answer, Final, Messages, Call, Results

LEMMA TakeResultKeeps ==
  ASSUME LoopInv, spot = "running", got[1] \in Results, TakeResult(calls[at], got[1]),
         UNCHANGED <<tries, overtaken, halted, shown>>
  PROVE  LoopInv'
<1> DEFINE c == calls[at]
           m == Answer(c, Final(c, got[1]))
           s == FinishStep(steps, StepOf(c), IF Final(c, got[1]) = "ok" THEN "succeeded" ELSE "failed")
<1>1. at \in 1..Len(calls) /\ Len(calls) \in Nat /\ Len(got) \in {1, 2} /\ at + Len(got) - 1 <= Len(calls)
  BY DEF LoopInv, LoopTypeOK, BatchFits
<1>2. c \in Call BY <1>1 DEF LoopInv, LoopTypeOK
<1>3. m \in Messages /\ m.role = "result" /\ m.id = calls[at].id BY <1>2, FinalTyped DEF Answer
<1>4. s \in Seq(StepRecords) /\ Len(s) <= MaxStep BY FinishKeeps DEF LoopInv, LoopTypeOK
<1>5. /\ thread' = Append(thread, m) /\ filed' = Append(filed, m) /\ approved' = FALSE
      /\ IF Len(got) = 2
         THEN /\ at' = at + 1 /\ got' = Tail(got) /\ steps' = s
              /\ UNCHANGED <<spot, verdict, calls, used>>
         ELSE IF at < Len(calls) THEN BeginBatch(calls, s, at + 1, Width(calls, at + 1))
         ELSE NextTurn(s) /\ UNCHANGED used
  BY DEF TakeResult
<1> HIDE DEF c, m, s
<1>a. thread' \in Seq(Messages) /\ filed' \in Seq(Messages)
  BY <1>3, <1>5, MessageFollows DEF LoopInv, LoopTypeOK
<1>b. approved' = FALSE /\ UNCHANGED <<tries, overtaken, halted, shown>> BY <1>5
<1>6. TalkTyped' /\ filed' = thread'
  <2>1. filed' = thread' BY <1>5 DEF LoopInv, OneRecord
  <2> QED BY <1>a, <1>b, <2>1 DEF LoopInv, LoopTypeOK, TalkTyped
<1>7. PICK i \in DOMAIN thread : Open(thread, i, calls, at) BY DEF LoopInv, LastIsOpen
<1>8. /\ i \in DOMAIN thread' /\ Open(thread', i, calls, at + 1)
      /\ at = Len(calls) => \A h \in DOMAIN thread' : Closed(thread', h)
  <2>1. thread \in Seq(Messages) /\ calls \in Seq(Call) BY DEF LoopInv, LoopTypeOK
  <2>2. thread' = Append(thread, m) BY <1>5
  <2>3. i \in DOMAIN Append(thread, m) BY <1>3, <2>1
  <2> QED BY <1>1, <1>3, <1>7, <2>1, <2>2, <2>3, ResultFollows
<1>9. CASE Len(got) = 2
  <2>1. /\ at' = at + 1 /\ got' = Tail(got) /\ steps' = s /\ UNCHANGED <<spot, verdict, calls, used>> BY <1>5, <1>9
  <2>a. got \in Seq(Results \cup {"none"}) BY DEF LoopInv, LoopTypeOK
  <2>2. got' \in Seq(Results \cup {"none"}) /\ Len(got') = 1
    <3>1. got # <<>> BY <1>9, <2>a
    <3>2. Tail(got) \in Seq(Results \cup {"none"}) /\ Len(Tail(got)) = Len(got) - 1
      BY <2>a, <3>1, HeadTailProperties
    <3> QED BY <1>9, <2>1, <3>2
  <2>3. LoopTypeOK' BY <1>4, <1>6, <2>1, <2>2, TypePartsNext DEF LoopInv, LoopTypeOK, DriveTyped
  <2>4. BatchFits' BY <1>1, <1>9, <2>1, <2>2 DEF BatchFits
  <2> QED BY <1>6, <1>8, <2>1, <2>3, <2>4 DEF LoopInv, OneRecord, LastIsOpen
<1>10. CASE Len(got) # 2 /\ at < Len(calls)
  <2>1. at + 1 \in 1..Len(calls) BY <1>1, <1>10
  <2>2. /\ DriveTyped' /\ used' \in 0..MaxTool /\ BatchFits'
        /\ spot' = "over" \/ (spot' = "running" /\ calls' = calls /\ at' = at + 1)
    <3>1. BeginBatch(calls, s, at + 1, Width(calls, at + 1)) BY <1>5, <1>10
    <3> QED BY <1>4, <2>1, <3>1, BeginBatchTyped DEF LoopInv, LoopTypeOK
  <2>3. LoopTypeOK' BY <1>6, <2>2, TypePartsNext
  <2>4. CASE spot' = "over" BY <2>3, <2>4, OverKeeps
  <2>5. CASE spot' = "running" /\ calls' = calls /\ at' = at + 1
    BY <1>6, <1>8, <2>2, <2>3, <2>5 DEF LoopInv, OneRecord, LastIsOpen
  <2> QED BY <2>2, <2>4, <2>5
<1>11. CASE Len(got) # 2 /\ at = Len(calls)
  <2>1. DriveTyped' /\ spot' \in {"asking", "over"} /\ used' = used
    BY <1>4, <1>5, <1>11, NextTurnTyped DEF LoopInv
  <2>2. LoopTypeOK' BY <1>6, <2>1, TypePartsNext DEF LoopInv, LoopTypeOK
  <2> QED BY <1>6, <1>8, <1>11, <2>1, <2>2 DEF LoopInv, BatchFits, OneRecord, LastIsOpen
<1> QED BY <1>1, <1>9, <1>10, <1>11

LEMMA AsksKeeps ==
  ASSUME LoopInv, spot = "running", AsksApproval(calls[at]), UNCHANGED <<tries, overtaken, halted, shown>>
  PROVE  LoopInv'
<1>1. at \in 1..Len(calls) /\ Len(calls) \in Nat
  <2>1. calls \in Seq(Call) /\ at \in Nat \ {0} /\ Len(got) \in {1, 2} /\ at + Len(got) - 1 <= Len(calls)
    BY DEF LoopInv, LoopTypeOK, BatchFits
  <2>2. Len(calls) \in Nat BY <2>1
  <2> HIDE DEF LoopInv
  <2> QED BY <2>1, <2>2
<1>2. /\ spot' = "waiting" /\ calls' = SubSeq(calls, at, Len(calls)) /\ at' = 1 /\ got' = <<>>
      /\ verdict' = "waiting_approval" /\ UNCHANGED <<thread, filed, approved, used>>
      /\ steps' = FinishStep(steps, StepOf(calls[at]), "waiting")
  BY DEF AsksApproval
<1>3. /\ calls' \in Seq(Call) /\ Len(calls') = Len(calls) - at + 1
      /\ \A k \in 1..(Len(calls) - at + 1) : calls'[k] = calls[at + k - 1]
  <2>1. calls \in Seq(Call) /\ at \in Nat /\ Len(calls) \in Nat BY <1>1 DEF LoopInv, LoopTypeOK
  <2>2. at \in 1..(Len(calls) + 1) /\ Len(calls) \in (at - 1)..Len(calls) BY <1>1, <2>1
  <2> HIDE DEF LoopInv
  <2>3. SubSeq(calls, at, Len(calls)) \in Seq(Call) BY <2>1, <2>2, SubSeqProperties
  <2>4. Len(SubSeq(calls, at, Len(calls))) = Len(calls) - at + 1 BY <1>1, <2>1, <2>2, SubSeqProperties
  <2>5. \A k \in 1..(Len(calls) - at + 1) : SubSeq(calls, at, Len(calls))[k] = calls[at + k - 1]
    BY <1>1, <2>1, <2>2, SubSeqProperties
  <2> QED BY <1>2, <2>3, <2>4, <2>5
<1>4. steps' \in Seq(StepRecords) /\ Len(steps') <= MaxStep BY <1>2, FinishKeeps DEF LoopInv, LoopTypeOK
<1>5. LoopTypeOK' BY <1>2, <1>3, <1>4 DEF LoopInv, LoopTypeOK, Verdicts
<1>6. PICK i \in DOMAIN thread : Open(thread, i, calls, at) BY DEF LoopInv, LastIsOpen
<1>7. Open(thread, i, calls', 1)
  <2>1. thread[i].id = (Len(thread) - i) + (Len(calls') - 1 + 1) BY <1>1, <1>3, <1>6 DEF Open
  <2>2. ASSUME NEW k \in 1..Len(calls')
        PROVE  calls'[k].id = thread[i].first + (Len(thread) - i) + (k - 1)
    <3>1. at + k - 1 \in at..Len(calls) /\ (at + k - 1) - at = k - 1 BY <1>1, <1>3, <2>2
    <3>2. calls[at + k - 1].id = thread[i].first + (Len(thread) - i) + ((at + k - 1) - at) BY <1>6, <3>1 DEF Open
    <3> QED BY <1>3, <2>2, <3>1, <3>2
  <2> QED BY <1>6, <2>1, <2>2 DEF Open
<1>8. Len(calls') > 0 BY <1>1, <1>3
<1> QED BY <1>2, <1>5, <1>7, <1>8 DEF LoopInv, BatchFits, OneRecord, LastIsOpen

LEMMA SettlesKeeps == ASSUME LoopInv, Settles PROVE LoopInv'
<1>1. spot = "running" /\ UNCHANGED <<tries, overtaken, halted, shown>> /\ \A k \in DOMAIN got : got[k] # "none"
  BY DEF Settles
<1>2. got[1] \in Results BY <1>1 DEF LoopInv, LoopTypeOK, BatchFits
<1>3. \/ Stopped(steps, "failed") /\ UNCHANGED <<thread, filed, approved, used>>
      \/ AsksApproval(calls[at])
      \/ TakeResult(calls[at], got[1])
  BY DEF Settles
<1>4. CASE Stopped(steps, "failed") /\ UNCHANGED <<thread, filed, approved, used>>
  <2>1. DriveTyped' /\ spot' = "over" BY <1>4, StoppedTyped DEF LoopInv, LoopTypeOK
  <2>2. TalkTyped' /\ used' \in 0..MaxTool BY <1>1, <1>4 DEF LoopInv, LoopTypeOK, TalkTyped
  <2> QED BY <2>1, <2>2, TypePartsNext, OverKeeps
<1> QED BY <1>1, <1>2, <1>3, <1>4, AsksKeeps, TakeResultKeeps

-----------------------------------------------------------------------------
(* The answer, and the rest of the world. *)

LEMMA RejectsKeeps == ASSUME LoopInv, Rejects PROVE LoopInv'
<1>1. spot = "checking" /\ UNCHANGED restVars BY DEF Rejects
<1>2. steps \in Seq(StepRecords) /\ Len(steps) \in Nat /\ Len(steps) <= MaxStep /\ filed = Append(thread, Said(Len(steps)))
  BY <1>1 DEF LoopInv, LoopTypeOK, OneRecord
<1>3. CASE StoppedAsIs(steps, "failed") /\ UNCHANGED <<thread, filed>>
  <2>1. DriveTyped' /\ spot' = "over" BY <1>2, <1>3, StoppedTyped DEF LoopInv
  <2>2. TalkTyped' /\ used' \in 0..MaxTool BY <1>1, <1>3 DEF LoopInv, LoopTypeOK, TalkTyped, restVars
  <2> QED BY <2>1, <2>2, TypePartsNext, OverKeeps
<1>4. CASE /\ thread' = thread \o <<Said(Len(steps)), Feedback>>
           /\ filed' = Append(filed, Feedback) /\ NextTurn(steps)
  <2> DEFINE m == Said(Len(steps))
  <2>1. m \in Messages /\ m.role # "calls" BY <1>2, SaidIsMessage
  <2>2. Feedback \in Messages /\ Feedback.role # "calls" BY DEF Feedback, Messages
  <2> HIDE DEF m
  <2>3. thread \in Seq(Messages) BY DEF LoopInv, LoopTypeOK
  <2>4. thread \o <<m, Feedback>> = Append(Append(thread, m), Feedback) BY <2>1, <2>2, <2>3
  <2>5. thread' = Append(Append(thread, m), Feedback) /\ filed' = thread' BY <1>2, <1>4, <2>4 DEF m
  <2>6. Append(thread, m) \in Seq(Messages) /\ thread' \in Seq(Messages) BY <2>1, <2>2, <2>3, <2>5, MessageFollows
  <2>7. \A i \in DOMAIN Append(thread, m) : Closed(Append(thread, m), i)
    BY <1>1, <2>1, <2>3, PlainCloses DEF LoopInv, LastIsOpen
  <2>8. \A i \in DOMAIN thread' : Closed(thread', i) BY <2>2, <2>5, <2>6, <2>7, PlainCloses
  <2>9. DriveTyped' /\ spot' \in {"asking", "over"} BY <1>2, <1>4, NextTurnTyped DEF LoopInv
  <2>10. TalkTyped' /\ used' \in 0..MaxTool BY <1>1, <2>5, <2>6 DEF LoopInv, LoopTypeOK, TalkTyped, restVars
  <2> QED BY <2>5, <2>8, <2>9, <2>10, TypePartsNext DEF LoopInv, BatchFits, OneRecord, LastIsOpen
<1> QED BY <1>3, <1>4 DEF Rejects

LEMMA PublishesKeeps == ASSUME LoopInv, Publishes PROVE LoopInv'
<1>1. /\ spot = "publishing" /\ shown' = Append(shown, Len(steps))
      /\ UNCHANGED <<thread, filed, used, approved, overtaken, halted>>
      /\ StoppedAsIs(steps, "completed") \/ UNCHANGED <<spot, verdict, steps, batchVars>>
  BY DEF Publishes
<1>2. steps \in Seq(StepRecords) /\ Len(steps) <= MaxStep /\ Len(steps) \in Nat /\ shown \in Seq(Nat)
  BY DEF LoopInv, LoopTypeOK
<1>3. shown' \in Seq(Nat) BY <1>1, <1>2
<1>4. TalkTyped' /\ used' \in 0..MaxTool BY <1>1, <1>3 DEF LoopInv, LoopTypeOK, TalkTyped
<1>5. CASE StoppedAsIs(steps, "completed")
  <2>1. DriveTyped' /\ spot' = "over" BY <1>2, <1>5, LimitTyped DEF LoopInv
  <2> QED BY <1>4, <2>1, TypePartsNext, OverKeeps
<1>6. CASE UNCHANGED <<spot, verdict, steps, batchVars>>
  <2>1. DriveTyped' BY <1>6 DEF LoopInv, LoopTypeOK, DriveTyped, batchVars
  <2> QED BY <1>1, <1>4, <1>6, <2>1, TypePartsNext DEF LoopInv, BatchFits, OneRecord, LastIsOpen
<1> QED BY <1>1, <1>5, <1>6

LEMMA ResumeKeeps == ASSUME LoopInv, Resume PROVE LoopInv'
<1>1. /\ spot = "waiting" /\ spot' = "running" /\ verdict' = "none" /\ got' = <<"none">> /\ approved' = TRUE
      /\ UNCHANGED <<thread, filed, steps, calls, at, used, overtaken, halted, shown>>
  BY DEF Resume
<1>2. got' \in Seq(Results \cup {"none"}) /\ Len(got') = 1 BY <1>1
<1>3. LoopTypeOK' BY <1>1, <1>2 DEF LoopInv, LoopTypeOK, Alive, Verdicts
<1>4. at' + Len(got') - 1 <= Len(calls') BY <1>1, <1>2 DEF LoopInv, LoopTypeOK, BatchFits
<1> QED BY <1>1, <1>2, <1>3, <1>4 DEF LoopInv, BatchFits, OneRecord, LastIsOpen

\* A cut or a loss ends the loop; nothing else moves the conversation.
LEMMA WorldKeeps == ASSUME LoopInv, Passes \/ Overtake \/ Halt \/ Cut \/ Lost PROVE LoopInv'
<1>1. CASE Passes \/ Overtake \/ Halt
  <2>1. /\ UNCHANGED <<verdict, thread, filed, steps, batchVars, used, approved, shown>>
        /\ overtaken' \in BOOLEAN /\ halted' \in BOOLEAN
        /\ spot' = spot \/ (spot = "checking" /\ spot' = "publishing")
    BY <1>1 DEF Passes, Overtake, Halt, restVars, LoopInv, LoopTypeOK
  <2> QED BY <2>1 DEF LoopInv, LoopTypeOK, BatchFits, OneRecord, LastIsOpen, batchVars, Alive
<1>2. CASE Cut \/ Lost
  <2>1. PICK status \in {"cancelled", "timed_out", "failed", "lost"} : Stopped(steps, status)
    BY <1>2 DEF Cut, Lost
  <2>2. DriveTyped' /\ spot' = "over" BY <2>1, StoppedTyped DEF LoopInv, LoopTypeOK
  <2>3. TalkTyped' /\ used' \in 0..MaxTool BY <1>2 DEF Cut, Lost, LoopInv, LoopTypeOK, TalkTyped, restVars
  <2> QED BY <2>2, <2>3, TypePartsNext, OverKeeps
<1> QED BY <1>1, <1>2

-----------------------------------------------------------------------------
(* The theorems. *)

LEMMA LoopStarts == LoopInit => LoopInv
<1> SUFFICES ASSUME LoopInit PROVE LoopInv OBVIOUS
<1>1. Ask \in Messages /\ Ask.role # "calls" /\ ModelStep \in StepRecords BY DEF Ask, Messages, ModelStep, StepRecords
<1>2. thread \in Seq(Messages) /\ Len(thread) = 1 /\ thread[1] = Ask /\ filed = thread BY <1>1 DEF LoopInit
<1>3. steps \in Seq(StepRecords) /\ Len(steps) = 1 /\ 1 <= MaxStep BY <1>1, LoopBounds DEF LoopInit
<1>4. calls \in Seq(Call) /\ got \in Seq(Results \cup {"none"}) /\ shown \in Seq(Nat) BY DEF LoopInit
<1>a. used \in 0..MaxTool /\ at \in Nat \ {0} BY LoopBounds DEF LoopInit
<1>b. spot \in Alive /\ verdict \in Verdicts /\ approved \in BOOLEAN /\ overtaken \in BOOLEAN /\ halted \in BOOLEAN
  BY DEF LoopInit, Alive, Verdicts
<1>5. LoopTypeOK BY <1>2, <1>3, <1>4, <1>a, <1>b DEF LoopTypeOK
<1> QED BY <1>1, <1>2, <1>5 DEF LoopInv, BatchFits, OneRecord, LastIsOpen, Closed, LoopInit

LEMMA LoopKeeps == LoopInv /\ [LoopNext]_loopVars => LoopInv'
<1> SUFFICES ASSUME LoopInv, [LoopNext]_loopVars PROVE LoopInv' OBVIOUS
<1>1. CASE LoopNext
  BY <1>1, CommentsKeeps, ConcludesKeeps, CallsKeeps, ReturnsKeeps, SettlesKeeps, RejectsKeeps, PublishesKeeps,
     ResumeKeeps, WorldKeeps DEF LoopNext
<1>2. CASE UNCHANGED loopVars
  BY <1>2 DEF LoopInv, LoopTypeOK, BatchFits, OneRecord, LastIsOpen, loopVars
<1> QED BY <1>1, <1>2

LEMMA LoopHolds == LoopSpec => []LoopInv
BY LoopStarts, LoopKeeps, PTL DEF LoopSpec

(* LoopTypeOK: the loop never has more steps, and never begins more calls, than
   the limits of the run allow, however batches, approvals and corrections
   follow each other (runtime.py, AgentRuntime). *)
THEOREM LoopTypeCorrect == LoopSpec => []LoopTypeOK
<1>1. LoopInv => LoopTypeOK BY DEF LoopInv
<1> QED BY <1>1, LoopHolds, PTL

(* AskedOnRecord: when the model is asked, every earlier call has its result
   behind it, one each and in order, and what the model sees is what was filed
   (runtime.py, AgentRuntime._drive and resume). *)
THEOREM RecordIsWhole == LoopSpec => []AskedOnRecord
<1>1. LoopInv => AskedOnRecord
  <2> SUFFICES ASSUME LoopInv, spot = "asking"
               PROVE  /\ thread = filed
                      /\ \A i \in DOMAIN thread : thread[i].role = "calls" =>
                           \A k \in 1..thread[i].id :
                             /\ i + k <= Len(thread) /\ thread[i + k].role = "result"
                             /\ thread[i + k].id = thread[i].first + k - 1
    BY DEF AskedOnRecord
  <2>1. thread = filed BY DEF LoopInv, OneRecord
  <2>2. ASSUME NEW i \in DOMAIN thread, thread[i].role = "calls", NEW k \in 1..thread[i].id
        PROVE  /\ i + k <= Len(thread) /\ thread[i + k].role = "result"
               /\ thread[i + k].id = thread[i].first + k - 1
    <3>1. Given(thread, i, thread[i].id) BY <2>2 DEF LoopInv, LastIsOpen, Closed
    <3>2. thread \in Seq(Messages) /\ thread[i] \in Messages BY <2>2 DEF LoopInv, LoopTypeOK
    <3>3. thread[i].id \in Nat /\ i \in Nat /\ Len(thread) \in Nat BY <2>2, <3>2 DEF Messages
    <3>4. i + thread[i].id <= Len(thread) BY <3>1 DEF Given
    <3>5. i + k <= Len(thread) BY <2>2, <3>3, <3>4
    <3> QED BY <2>2, <3>1, <3>5 DEF Given
  <2> QED BY <2>1, <2>2
<1> QED BY <1>1, LoopHolds, PTL

-----------------------------------------------------------------------------
(* What work is accepted on (Evidence). *)

Contents == Content \cup {Link}
Digest == [File -> Contents] \cup {Unread}
\* What a file held, or nothing that is known.
Past == Contents \cup {""}
Trials == [of : File \cup Command, began : BOOLEAN,
           how : {"none", "applied", "conflicted", "unknown", "exited", "stopped"},
           says : {"unknown", "succeeded", "failed"}, base : Digest, changed : {"unset", "yes", "no"},
           version : Nat, managed : BOOLEAN, guarded : BOOLEAN, was : Past, new : Past,
           kept : BOOLEAN, end : Digest, stamp : Nat]
Tasks == [version : Nat, gen : Nat, seen : Nat, policy : SUBSET Policies, want : SUBSET Wanted, notes : SUBSET File,
          due : Terms, firm : SUBSET Wanted, asked : SUBSET Wanted, banned : SUBSET Policies, retries : Nat,
          issue : {"none", "unverified", "violated"}, unsure : SUBSET (File \cup {"command"}),
          scoped : BOOLEAN, strict : BOOLEAN]
Looks == [trials : Seq(Trials), version : Nat, policy : SUBSET Policies, want : SUBSET Wanted, notes : SUBSET File, issue : {"none", "unverified", "violated"},
          scan : Digest, files : Digest, stamp : Nat,
          bind : {<<>>} \cup (Digest \X Nat \X Nat \X SUBSET Policies), reviewed : BOOLEAN]
Checking == {"scanning", "reading", "review", "reviewing"}

\* The variables hold what they are meant to (completion.py).
EvidenceTypeOK ==
  /\ disk \in [File -> Contents] /\ task \in Tasks /\ trials \in Seq(Trials)
  /\ stage \in {"work", "running", "asked", "over"} \cup Checking
  /\ look \in Looks
  /\ ruling \in {"none", "refused", "stopped", "verified", "answered", "limited"}
  /\ changes \in Nat /\ stamp \in Nat

\* What a record can be: what was not looked at has no result, and a command that
\* changed nothing has ended on the disk it began on.
RowFits(t) ==
  /\ t.of \in File => t.was \in Contents /\ t.began /\ t.how \in {"applied", "conflicted", "unknown"} /\ ~t.guarded /\ ~t.managed
  /\ t.of \in Command => t.how \in {"none", "exited", "stopped", "unknown"}
  /\ t.changed = "no" => t.base = t.end
  /\ t.how = "none" => t.changed = "unset"
  /\ t.how = "exited" => t.changed # "unset"
  /\ ~t.began => t.of \in Command /\ t.how = "none"
RowsFit == \A i \in DOMAIN trials : RowFits(trials[i])

\* A command that was not approved yet is the last record, made after the last write.
AskFits ==
  /\ \A i \in DOMAIN trials : ~trials[i].began => stage = "asked" /\ i = Len(trials)
  /\ stage = "asked" => trials # <<>> /\ ~trials[Len(trials)].began /\ trials[Len(trials)].stamp = stamp

\* Nobody looked at the end of a managed command only if the service ended with it.
EndsSeen ==
  \A i \in DOMAIN trials : trials[i].managed /\ trials[i].how # "none" /\ trials[i].changed = "unset" =>
    stage = "over" /\ trials[i].how = "unknown"

\* Every write of the task's tools since a command began has raised the version.
StampsFit(ts, version) ==
  \A i \in DOMAIN ts : ts[i].of \in Command /\ ts[i].began =>
    ts[i].stamp <= stamp /\ stamp + ts[i].version <= version + ts[i].stamp

\* An issue comes from a command that has, or may have, changed files; and without
\* one every command under limits was watched and left the excluded files alone.
IssueFits(ts, issue) ==
  IF issue = "none"
  THEN \A i \in DOMAIN ts : ts[i].guarded /\ ts[i].changed # "unset" =>
         ts[i].base # Unread /\ \A f \in File \ Allowed : ts[i].base[f] = ts[i].end[f]
  ELSE \E i \in DOMAIN ts : ts[i].of \in Command /\ ts[i].began /\ ts[i].changed = "yes"

\* Nothing is written to a file after a write that may be half done.
UnsureFits ==
  \A f \in task.unsure \cap File : \E i \in DOMAIN trials : trials[i].of = f /\ LastOf(trials, i) /\ ~trials[i].kept

\* What the verifier holds is what is on record, but for commands that have ended since.
Since(old, new) == new = old \/ (old.how = "none" /\ new.of = old.of /\ new.began = old.began)
LookFits ==
  stage \in Checking =>
    /\ DOMAIN look.trials = DOMAIN trials
    /\ \A i \in DOMAIN trials : RowFits(look.trials[i]) /\ Since(look.trials[i], trials[i])
    /\ StampsFit(look.trials, look.version) /\ IssueFits(look.trials, look.issue)
    /\ stage # "scanning" => look.stamp = stamp

\* Work that is accepted is over, and stays what it was.
RulingFits ==
  /\ stage # "over" => ruling = "none"
  /\ WorkRests /\ EffectsAreSettled

EvidenceInv ==
  /\ EvidenceTypeOK /\ RowsFit /\ AskFits /\ EndsSeen
  /\ StampsFit(trials, task.version) /\ IssueFits(trials, task.issue)
  /\ UnsureFits /\ LookFits /\ RulingFits

-----------------------------------------------------------------------------

(* The records. *)

LEMMA LargestOf ==
  ASSUME NEW n \in Nat, NEW S \in SUBSET (1..n), S # {}
  PROVE  LET i == CHOOSE j \in S : \A k \in S : k <= j IN i \in S /\ \A k \in S : k <= i
<1> DEFINE R == {n - k : k \in S}
<1>1. R \subseteq Nat
  <2>1. \A k \in S : k \in Nat /\ k <= n OBVIOUS
  <2> QED BY <2>1
<1>2. PICK m \in R : \A h \in R : ~(<<h, m>> \in OpToRel(<, Nat))
  <2>1. R # {} OBVIOUS
  <2> HIDE DEF R
  <2> QED BY <1>1, <2>1, NatLessThanWellFounded, WFMin
<1>3. PICK j \in S : m = n - j BY <1>2
<1>4. ASSUME NEW k \in S PROVE k <= j
  <2>1. n - k \in R /\ n - k \in Nat /\ m \in Nat BY <1>1, <1>3
  <2>2. ~(n - k < m) BY <1>2, <2>1 DEF OpToRel
  <2> QED BY <1>3, <2>1, <2>2
<1> HIDE DEF R
<1> QED BY <1>4

LEMMA ScannedTyped ==
  ASSUME disk \in [File -> Contents]
  PROVE  Scanned \in Digest /\ disk \in Digest /\ disk # Unread /\ (Scanned # Unread => Scanned = disk)
BY EvidenceShape DEF Scanned, Digest, Contents

-----------------------------------------------------------------------------
(* The finding. *)

Accepts(l) ==
  Outcome(l) \in {"verified", "answered"} \/ Limited(l)

LEMMA ResultKinds ==
  ASSUME NEW l, NEW r
  PROVE  Result(l, r) \in {"passed", "blocked", "failed", "unverified"}
<1> DEFINE m == Matching(l, r)
<1> DEFINE i == CHOOSE j \in m : \A k \in m : k <= j
<1> DEFINE found == IF r.kind = "file_changed" THEN FileResult(l, l.trials[i]) ELSE CommandResult(l, l.trials[i])
<1>1. found \in {"passed", "blocked", "failed", "unverified"} BY DEF FileResult, CommandResult
<1>2. Result(l, r) = IF m = {} THEN IF r.kind # "file_changed" /\ "no_commands" \in l.policy THEN "blocked" ELSE "failed"
                     ELSE IF found # "passed" /\ r.kind # "file_changed" /\ "no_commands" \in l.policy THEN "blocked" ELSE found
  BY DEF Result
<1> HIDE DEF found, m
<1> QED BY <1>1, <1>2

\* What is required has passed, whatever the work is accepted as.
LEMMA AcceptedResults ==
  ASSUME NEW l, Accepts(l), NEW r \in Settled(l)
  PROVE  Result(l, r) = "passed" /\ (Outcome(l) = "verified" \/ r.kind = "file_changed")
<1> DEFINE results == {Result(l, q) : q \in Settled(l)}
<1>1. Outcome(l) = IF l.issue = "violated" \/ "blocked" \in results THEN "blocked"
                   ELSE IF Settled(l) = {} THEN "answered"
                   ELSE IF "failed" \in results THEN "unmet"
                   ELSE IF "unverified" \in results \/ l.issue # "none" \/ Unperformed(l) # {} THEN "unknown"
                   ELSE "verified"
  BY DEF Outcome
<1>2. Result(l, r) \in results OBVIOUS
<1> HIDE DEF results
<1>3. CASE Outcome(l) = "verified"
  <2>1. "blocked" \notin results /\ "failed" \notin results /\ "unverified" \notin results BY <1>1, <1>3
  <2> QED BY <1>2, <1>3, <2>1, ResultKinds
<1>4. CASE Outcome(l) = "answered" BY <1>1, <1>4
<1>5. CASE Limited(l) BY <1>5 DEF Limited
<1> QED BY <1>3, <1>4, <1>5 DEF Accepts

LEMMA AcceptedIssue ==
  ASSUME NEW l, Accepts(l), Settled(l) # {}
  PROVE  l.issue = "none" /\ (Outcome(l) = "verified" => Unperformed(l) = {})
<1> DEFINE results == {Result(l, q) : q \in Settled(l)}
<1>1. Outcome(l) = IF l.issue = "violated" \/ "blocked" \in results THEN "blocked"
                   ELSE IF Settled(l) = {} THEN "answered"
                   ELSE IF "failed" \in results THEN "unmet"
                   ELSE IF "unverified" \in results \/ l.issue # "none" \/ Unperformed(l) # {} THEN "unknown"
                   ELSE "verified"
  BY DEF Outcome
<1> HIDE DEF results
<1>2. CASE Outcome(l) = "verified" BY <1>1, <1>2
<1>3. CASE Outcome(l) = "answered" BY <1>1, <1>3
<1>4. CASE Limited(l)
  <2>1. l.issue = "none" /\ Outcome(l) = "unknown" BY <1>4 DEF Limited
  <2> QED BY <2>1
<1> QED BY <1>2, <1>3, <1>4 DEF Accepts

\* What passes is the last of the records that match.
LEMMA PassedLast ==
  ASSUME NEW l, l.trials \in Seq(Trials), NEW r, Result(l, r) = "passed"
  PROVE  \E i \in Matching(l, r) :
           /\ i \in DOMAIN l.trials /\ \A k \in Matching(l, r) : k <= i
           /\ IF r.kind = "file_changed" THEN FileResult(l, l.trials[i]) = "passed"
              ELSE CommandResult(l, l.trials[i]) = "passed"
<1> DEFINE m == Matching(l, r)
<1> DEFINE i == CHOOSE j \in m : \A k \in m : k <= j
<1> DEFINE found == IF r.kind = "file_changed" THEN FileResult(l, l.trials[i]) ELSE CommandResult(l, l.trials[i])
<1>1. Result(l, r) = IF m = {} THEN IF r.kind # "file_changed" /\ "no_commands" \in l.policy THEN "blocked" ELSE "failed"
                     ELSE IF found # "passed" /\ r.kind # "file_changed" /\ "no_commands" \in l.policy THEN "blocked" ELSE found
  BY DEF Result
<1>2. m \subseteq DOMAIN l.trials BY DEF Matching
<1>3. DOMAIN l.trials = 1..Len(l.trials) /\ Len(l.trials) \in Nat OBVIOUS
<1>4. m # {} /\ found = "passed"
  <2> HIDE DEF m, found
  <2> QED BY <1>1
<1>5. i \in m /\ \A k \in m : k <= i
  <2> HIDE DEF m
  <2> QED BY <1>2, <1>3, <1>4, LargestOf
<1> HIDE DEF i
<1> QED BY <1>2, <1>4, <1>5

LEMMA CommandPasses ==
  ASSUME NEW l, NEW t \in Trials, CommandResult(l, t) = "passed"
  PROVE  /\ t.how = "exited" /\ t.says = "succeeded" /\ l.scan # Unread /\ t.base = l.scan
         /\ t.changed # "yes" /\ t.version = l.version
BY DEF CommandResult, Current

LEMMA FilePasses ==
  ASSUME NEW l, NEW t, FileResult(l, t) = "passed"
  PROVE  t.kept /\ l.files[t.of] = t.new
BY DEF FileResult

\* What the verifier weighs.
LEMMA Weighed ==
  ASSUME EvidenceInv, stage = "reading", NEW l, l = [look EXCEPT !.files = disk]
  PROVE  /\ l \in Looks /\ l.trials = look.trials /\ l.version = look.version /\ l.policy = look.policy /\ l.want = look.want
         /\ l.issue = look.issue /\ l.scan = look.scan /\ l.stamp = stamp /\ l.files = disk
         /\ l.trials \in Seq(Trials) /\ trials \in Seq(Trials) /\ DOMAIN l.trials = DOMAIN trials
         /\ DOMAIN trials = 1..Len(trials) /\ Len(trials) \in Nat
         /\ \A i \in DOMAIN trials :
              /\ l.trials[i] \in Trials /\ trials[i] \in Trials
              /\ l.trials[i].of = trials[i].of /\ l.trials[i].began = trials[i].began
              /\ l.trials[i].how # "none" => l.trials[i] = trials[i]
<1>1. look \in Looks /\ disk \in Digest /\ trials \in Seq(Trials) BY ScannedTyped DEF EvidenceInv, EvidenceTypeOK
<1>2. l \in Looks BY <1>1 DEF Looks
<1>3. /\ l.trials = look.trials /\ l.version = look.version /\ l.policy = look.policy /\ l.want = look.want
      /\ l.issue = look.issue /\ l.scan = look.scan /\ l.stamp = look.stamp /\ l.files = disk
  BY <1>1 DEF Looks
<1>4. look.stamp = stamp /\ DOMAIN look.trials = DOMAIN trials
      /\ \A i \in DOMAIN trials : Since(look.trials[i], trials[i])
  BY DEF EvidenceInv, LookFits, Checking
<1>5. l.trials \in Seq(Trials) BY <1>2 DEF Looks
<1>6. \A i \in DOMAIN trials : l.trials[i] \in Trials /\ trials[i] \in Trials BY <1>1, <1>3, <1>4, <1>5
<1>7. DOMAIN trials = 1..Len(trials) /\ Len(trials) \in Nat BY <1>1
<1>8. \A i \in DOMAIN trials :
        /\ l.trials[i].of = trials[i].of /\ l.trials[i].began = trials[i].began
        /\ l.trials[i].how # "none" => l.trials[i] = trials[i]
  BY <1>3, <1>4 DEF Since
<1> HIDE DEF EvidenceInv
<1> QED BY <1>1, <1>2, <1>3, <1>4, <1>5, <1>6, <1>7, <1>8

\* A command that passes has run on the disk that was scanned, after the last write.
LEMMA PassedRests ==
  ASSUME EvidenceInv, stage = "reading", NEW l, l = [look EXCEPT !.files = disk],
         NEW i \in DOMAIN trials, l.trials[i].of \in Command, CommandResult(l, l.trials[i]) = "passed"
  PROVE  /\ trials[i].how = "exited" /\ trials[i].says = "succeeded"
         /\ trials[i].base = l.scan /\ trials[i].end = l.scan /\ trials[i].stamp = l.stamp
<1>1. /\ l.trials[i] \in Trials /\ (l.trials[i].how # "none" => l.trials[i] = trials[i])
      /\ l.trials = look.trials /\ l.version = look.version /\ l.stamp = stamp /\ l.version \in Nat /\ stamp \in Nat
  BY Weighed DEF Looks, EvidenceInv, EvidenceTypeOK
<1>2. /\ l.trials[i].how = "exited" /\ l.trials[i].says = "succeeded" /\ l.trials[i].base = l.scan
      /\ l.trials[i].changed # "yes" /\ l.trials[i].version = l.version
  BY <1>1, CommandPasses
<1>3. l.trials[i] = trials[i] BY <1>1, <1>2
<1>4. RowFits(trials[i]) BY DEF EvidenceInv, RowsFit
<1>5. trials[i].changed = "no" /\ trials[i].began
  <2>1. trials[i].changed \in {"unset", "yes", "no"} BY <1>1, <1>3 DEF Trials
  <2>2. trials[i].began \in BOOLEAN BY <1>1, <1>3 DEF Trials
  <2> QED BY <1>2, <1>3, <1>4, <2>1, <2>2 DEF RowFits
<1>6. trials[i].end = trials[i].base BY <1>4, <1>5 DEF RowFits
<1>7. StampsFit(look.trials, look.version) BY DEF EvidenceInv, LookFits, Checking
<1>8. trials[i].stamp <= stamp /\ stamp + trials[i].version <= l.version + trials[i].stamp
  BY <1>1, <1>3, <1>5, <1>7, Weighed DEF StampsFit
<1>9. trials[i].stamp \in Nat /\ trials[i].version = l.version BY <1>1, <1>2, <1>3 DEF Trials
<1>10. trials[i].stamp = stamp BY <1>1, <1>8, <1>9
<1> HIDE DEF EvidenceInv
<1> QED BY <1>1, <1>2, <1>3, <1>6, <1>10

\* The last record of a command or of a file.
LEMMA LastThere ==
  ASSUME NEW ts \in Seq(Trials), NEW i \in DOMAIN ts
  PROVE  \E k \in DOMAIN ts : ts[k].of = ts[i].of /\ LastOf(ts, k)
<1> DEFINE S == {j \in DOMAIN ts : ts[j].of = ts[i].of}
<1>1. DOMAIN ts = 1..Len(ts) /\ Len(ts) \in Nat OBVIOUS
<1>2. PICK k \in S : \A j \in S : j <= k
  <2>1. i \in S /\ S \subseteq 1..Len(ts) BY <1>1
  <2> HIDE DEF S
  <2> QED BY <1>1, <2>1, LargestOf
<1> QED BY <1>2 DEF LastOf

\* A command that has, or may have, changed the disk has to pass once more.
LEMMA EffectsPass ==
  ASSUME EvidenceInv, stage = "reading", NEW l, l = [look EXCEPT !.files = disk], Accepts(l),
         NEW i \in DOMAIN trials, trials[i].of \in Command, LastOf(trials, i),
         HadEffects(l.trials, trials[i].of) \/ ~Observes(l.trials[i])
  PROVE  CommandResult(l, l.trials[i]) = "passed"
<1> DEFINE r == [kind |-> "command", on |-> trials[i].of]
<1>1. /\ l.trials \in Seq(Trials) /\ DOMAIN l.trials = DOMAIN trials
      /\ DOMAIN trials \subseteq Nat
      /\ \A j \in DOMAIN trials : l.trials[j].of = trials[j].of
  <2> HIDE DEF EvidenceInv
  <2> QED BY Weighed
<1>2. LastOf(l.trials, i) BY <1>1 DEF LastOf
<1>3. r \in Settled(l) BY <1>1, <1>2 DEF Settled
<1>4. Result(l, r) = "passed" BY <1>3, AcceptedResults
<1>5. r # AnyTest /\ r.kind # "file_changed" BY DEF AnyTest
<1>6. PICK k \in Matching(l, r) :
        /\ k \in DOMAIN l.trials /\ \A j \in Matching(l, r) : j <= k
        /\ CommandResult(l, l.trials[k]) = "passed"
  <2> HIDE DEF r
  <2> QED BY <1>1, <1>4, <1>5, PassedLast
<1>7. Matching(l, r) = {j \in DOMAIN l.trials : l.trials[j].of = trials[i].of} BY <1>5 DEF Matching
<1>8. i \in Matching(l, r) /\ k <= i
  <2>1. l.trials[k].of = l.trials[i].of /\ l.trials[i].of = trials[i].of BY <1>1, <1>6, <1>7
  <2> QED BY <1>1, <1>2, <1>6, <1>7, <2>1 DEF LastOf
<1>9. k = i
  <2>1. i <= k /\ k <= i /\ i \in Nat /\ k \in Nat BY <1>1, <1>6, <1>8
  <2> QED BY <2>1
<1> QED BY <1>6, <1>9

\* A file that was written holds what was written last.
LEMMA FilesPass ==
  ASSUME EvidenceInv, stage = "reading", NEW l, l = [look EXCEPT !.files = disk], Accepts(l),
         NEW i \in DOMAIN trials, trials[i].of \in File, LastOf(trials, i)
  PROVE  trials[i].kept /\ l.files[trials[i].of] = trials[i].new
<1> DEFINE r == [kind |-> "file_changed", on |-> trials[i].of]
<1>1. /\ l.trials \in Seq(Trials) /\ DOMAIN l.trials = DOMAIN trials
      /\ DOMAIN trials \subseteq Nat /\ l.trials = look.trials
      /\ \A j \in DOMAIN trials : l.trials[j].of = trials[j].of /\ (l.trials[j].how # "none" => l.trials[j] = trials[j])
  <2> HIDE DEF EvidenceInv
  <2> QED BY Weighed
<1>0. l.trials \in Seq(Trials) BY <1>1
<1>2. LastOf(l.trials, i) BY <1>1 DEF LastOf
<1>3. r \in Settled(l) BY <1>1 DEF Settled
<1>4. Result(l, r) = "passed" BY <1>3, AcceptedResults
<1>5. r # AnyTest /\ r.kind = "file_changed" BY DEF AnyTest
<1>6. PICK k \in Matching(l, r) :
        /\ k \in DOMAIN l.trials /\ \A j \in Matching(l, r) : j <= k
        /\ FileResult(l, l.trials[k]) = "passed"
  <2> HIDE DEF r, EvidenceInv
  <2>1. \E k \in Matching(l, r) :
          /\ k \in DOMAIN l.trials /\ \A j \in Matching(l, r) : j <= k
          /\ IF r.kind = "file_changed" THEN FileResult(l, l.trials[k]) = "passed"
             ELSE CommandResult(l, l.trials[k]) = "passed"
    BY <1>0, <1>4, PassedLast
  <2> QED BY <1>5, <2>1
<1>7. Matching(l, r) = {j \in DOMAIN l.trials : l.trials[j].of = trials[i].of} BY <1>5 DEF Matching
<1>8. i \in Matching(l, r) /\ k <= i
  <2>1. l.trials[k].of = l.trials[i].of /\ l.trials[i].of = trials[i].of BY <1>1, <1>6, <1>7
  <2> QED BY <1>1, <1>2, <1>6, <1>7, <2>1 DEF LastOf
<1>9. k = i
  <2>1. i <= k /\ k <= i /\ i \in Nat /\ k \in Nat BY <1>1, <1>6, <1>8
  <2> QED BY <2>1
<1>10. l.trials[i].kept /\ l.files[l.trials[i].of] = l.trials[i].new BY <1>6, <1>9, FilePasses
<1>11. l.trials[i].how # "none" /\ l.trials[i].of = trials[i].of
  <2>1. RowFits(look.trials[i]) BY DEF EvidenceInv, LookFits, Checking
  <2> QED BY <1>1, <2>1 DEF RowFits
<1> QED BY <1>1, <1>10, <1>11

\* A command that ended on another disk than it began on, or runs, had effects.
LEMMA ChangesShow ==
  ASSUME EvidenceInv, stage = "reading", NEW l, l = [look EXCEPT !.files = disk],
         NEW i \in DOMAIN trials, trials[i].of \in Command, trials[i].began, trials[i].base # trials[i].end
  PROVE  HadEffects(l.trials, trials[i].of)
<1>1. /\ DOMAIN l.trials = DOMAIN trials /\ l.trials = look.trials
      /\ l.trials[i].of = trials[i].of /\ l.trials[i].began = trials[i].began
      /\ (l.trials[i].how # "none" => l.trials[i] = trials[i])
  <2> HIDE DEF EvidenceInv
  <2> QED BY Weighed
<1>2. RowFits(look.trials[i]) BY DEF EvidenceInv, LookFits, Checking
<1>3. l.trials[i].changed # "no"
  <2>1. CASE l.trials[i].how = "none" BY <1>1, <1>2, <2>1 DEF RowFits
  <2>2. CASE l.trials[i].how # "none" BY <1>1, <1>2, <2>2 DEF RowFits
  <2> QED BY <2>1, <2>2
<1> QED BY <1>1, <1>3 DEF HadEffects

LEMMA AcceptedRests ==
  ASSUME EvidenceInv, stage = "reading", NEW l, l = [look EXCEPT !.files = disk], Accepts(l),
         look' = l, UNCHANGED <<trials, task>>
  PROVE  WorkRests'
<1>0. /\ l.trials \in Seq(Trials) /\ trials \in Seq(Trials) /\ DOMAIN l.trials = DOMAIN trials
      /\ \A i \in DOMAIN trials : l.trials[i].of = trials[i].of
  <2> HIDE DEF EvidenceInv
  <2> QED BY Weighed
<1>1. ASSUME NEW i \in DOMAIN trials, trials[i].of \in Command, trials[i].began, trials[i].base # trials[i].end
      PROVE  LET t == trials[LastTrial(trials[i].of)] IN
             /\ t.how = "exited" /\ t.says = "succeeded"
             /\ t.base = l.scan /\ t.end = l.scan /\ t.stamp = l.stamp
  <2> DEFINE k == LastTrial(trials[i].of)
  <2>1. k \in DOMAIN trials /\ trials[k].of = trials[i].of /\ LastOf(trials, k)
    <3>1. \E j \in DOMAIN trials : trials[j].of = trials[i].of /\ LastOf(trials, j) BY <1>0, <1>1, LastThere
    <3> QED BY <3>1 DEF LastTrial
  <2>2. HadEffects(l.trials, trials[i].of) BY <1>1, ChangesShow
  <2> HIDE DEF k
  <2>3. CommandResult(l, l.trials[k]) = "passed" BY <1>1, <2>1, <2>2, EffectsPass
  <2>4. l.trials[k].of \in Command BY <1>0, <1>1, <2>1
  <2> QED BY <2>1, <2>3, <2>4, PassedRests DEF k
<1>2. ASSUME NEW i \in DOMAIN trials, trials[i].of \in File, LastOf(trials, i)
      PROVE  l.files[trials[i].of] = trials[i].new
  BY <1>2, FilesPass
<1>4. /\ \A i \in DOMAIN trials' :
           trials'[i].of \in Command /\ trials'[i].began /\ trials'[i].base # trials'[i].end
             => Rests(trials[LastTrial(trials[i].of)])'
      /\ \A i \in DOMAIN trials' : trials'[i].of \in File /\ LastOf(trials', i) => look'.files[trials'[i].of] = trials'[i].new
  BY <1>1, <1>2 DEF Rests, LastTrial
<1> QED BY <1>4 DEF WorkRests

LEMMA AcceptedSettles ==
  ASSUME EvidenceInv, stage = "reading", NEW l, l = [look EXCEPT !.files = disk], Accepts(l),
         look' = l, UNCHANGED <<trials, task>>
  PROVE  EffectsAreSettled'
<1>0. /\ DOMAIN l.trials = DOMAIN trials /\ l.trials = look.trials /\ l.issue = look.issue
      /\ \A i \in DOMAIN trials :
           /\ l.trials[i].of = trials[i].of /\ l.trials[i].began = trials[i].began
           /\ (l.trials[i].how # "none" => l.trials[i] = trials[i])
           /\ trials[i] \in Trials
  <2> HIDE DEF EvidenceInv
  <2> QED BY Weighed
<1>1. task.unsure \cap File = {}
  <2> SUFFICES ASSUME NEW f \in task.unsure \cap File PROVE FALSE OBVIOUS
  <2>1. PICK i \in DOMAIN trials : trials[i].of = f /\ LastOf(trials, i) /\ ~trials[i].kept
    BY DEF EvidenceInv, UnsureFits
  <2>2. trials[i].of \in File BY <2>1
  <2> HIDE DEF EvidenceInv
  <2> QED BY <2>1, <2>2, FilesPass
<1>2. ASSUME NEW i \in Live PROVE ~LastOf(trials, i)
  <2> SUFFICES ASSUME LastOf(trials, i) PROVE FALSE OBVIOUS
  <2>1. i \in DOMAIN trials /\ trials[i].began /\ trials[i].how = "none" BY DEF Live
  <2>2. RowFits(trials[i]) /\ trials[i] \in Trials BY <1>0, <2>1 DEF EvidenceInv, RowsFit
  <2>3. trials[i].of \in Command BY <2>1, <2>2 DEF RowFits, Trials
  <2>4. l.trials[i].how = "none" BY <1>0, <2>1
  <2>5. CommandResult(l, l.trials[i]) = "passed" BY <2>1, <2>3, <2>4, EffectsPass DEF Observes
  <2> QED BY <2>4, <2>5 DEF CommandResult
<1>3. ASSUME NEW i \in DOMAIN trials, trials[i].guarded, l.trials[i].how # "none", LooksAfter(trials[i], trials[i].how)
      PROVE  trials[i].base # Unread /\ \A f \in File \ Allowed : trials[i].base[f] = trials[i].end[f]
  <2>1. l.trials[i] = trials[i] BY <1>0, <1>3
  <2>2. trials[i].changed # "unset"
    <3>1. RowFits(trials[i]) BY DEF EvidenceInv, RowsFit
    <3>2. CASE trials[i].how = "exited" BY <3>1, <3>2 DEF RowFits
    <3>3. CASE trials[i].managed BY <1>3, <2>1, <3>3 DEF EvidenceInv, EndsSeen
    <3> QED BY <1>3, <3>2, <3>3 DEF LooksAfter
  <2>3. look.issue = "none"
    <3> SUFFICES ASSUME look.issue # "none" PROVE FALSE OBVIOUS
    <3>1. IssueFits(look.trials, look.issue) BY DEF EvidenceInv, LookFits, Checking
    <3>2. PICK j \in DOMAIN look.trials : look.trials[j].of \in Command /\ look.trials[j].began /\ look.trials[j].changed = "yes"
      BY <3>1 DEF IssueFits
    <3>3. HadEffects(l.trials, trials[j].of) /\ j \in DOMAIN trials BY <1>0, <3>2 DEF HadEffects
    <3>4. PICK k \in DOMAIN trials : trials[k].of = trials[j].of /\ LastOf(trials, k)
      <4>1. trials \in Seq(Trials) BY DEF EvidenceInv, EvidenceTypeOK
      <4> QED BY <3>3, <4>1, LastThere
    <3>5. LastOf(l.trials, k) /\ l.trials[k].of \in Command /\ HadEffects(l.trials, l.trials[k].of)
      BY <1>0, <3>2, <3>3, <3>4 DEF LastOf
    <3>6. [kind |-> "command", on |-> l.trials[k].of] \in Settled(l) BY <1>0, <3>4, <3>5 DEF Settled
    <3> QED BY <1>0, <3>6, AcceptedIssue
  <2>4. IssueFits(look.trials, look.issue) BY DEF EvidenceInv, LookFits, Checking
  <2> QED BY <1>0, <1>3, <2>1, <2>2, <2>3, <2>4 DEF IssueFits
<1>4. \A i \in Live' : ~LastOf(trials', i) BY <1>2 DEF Live
<1> QED BY <1>0, <1>1, <1>3, <1>4 DEF EffectsAreSettled


-----------------------------------------------------------------------------
(* The steps. *)

\* What the records promise.
RecordsFit ==
  /\ RowsFit /\ AskFits /\ EndsSeen
  /\ StampsFit(trials, task.version) /\ IssueFits(trials, task.issue) /\ UnsureFits

LEMMA SameRecords ==
  ASSUME EvidenceInv, trials' = trials, stamp' = stamp,
         task'.version = task.version, task'.issue = task.issue, task'.unsure = task.unsure,
         stage' = "asked" <=> stage = "asked",
         stage = "over" => stage' = "over" \/ \A i \in DOMAIN trials : trials[i].how # "unknown"
  PROVE  RecordsFit'
<1>1. RowsFit' BY DEF EvidenceInv, RowsFit, RowFits
<1>2. AskFits' BY DEF EvidenceInv, AskFits
<1>3. EndsSeen' BY DEF EvidenceInv, EndsSeen
<1>4. StampsFit(trials, task.version)' BY DEF EvidenceInv, StampsFit
<1>5. IssueFits(trials, task.issue)' BY DEF EvidenceInv, IssueFits
<1>6. UnsureFits' BY DEF EvidenceInv, UnsureFits, LastOf
<1> QED BY <1>1, <1>2, <1>3, <1>4, <1>5, <1>6 DEF RecordsFit

\* Nothing is read while no verifier is at work.
LEMMA NoneRead == stage' \notin Checking => LookFits'
BY DEF LookFits

LEMMA SameLook ==
  ASSUME EvidenceInv, stage \in Checking, stage' \in Checking, trials' = trials, stamp' = stamp,
         look'.trials = look.trials, look'.version = look.version, look'.issue = look.issue,
         stage' # "scanning" => look'.stamp = stamp
  PROVE  LookFits'
<1>1. /\ DOMAIN look.trials = DOMAIN trials
      /\ \A i \in DOMAIN trials : RowFits(look.trials[i]) /\ Since(look.trials[i], trials[i])
  BY DEF EvidenceInv, LookFits
<1>2. StampsFit(look.trials, look.version)' BY DEF EvidenceInv, LookFits, StampsFit
<1>3. IssueFits(look.trials, look.issue)' BY DEF EvidenceInv, LookFits, IssueFits
<1>4. \A i \in DOMAIN trials' : (RowFits(look.trials[i]) /\ Since(look.trials[i], trials[i]))'
  BY <1>1 DEF RowFits, Since
<1> QED BY <1>1, <1>2, <1>3, <1>4 DEF LookFits

LEMMA NewLook ==
  ASSUME EvidenceInv, trials' = trials, stamp' = stamp, stage' = "scanning",
         look'.trials = trials, look'.version = task.version, look'.issue = task.issue
  PROVE  LookFits'
<1>1. \A i \in DOMAIN trials' : (RowFits(look.trials[i]) /\ Since(look.trials[i], trials[i]))'
  BY DEF EvidenceInv, RowsFit, RowFits, Since
<1>2. StampsFit(look.trials, look.version)' BY DEF EvidenceInv, StampsFit
<1>3. IssueFits(look.trials, look.issue)' BY DEF EvidenceInv, IssueFits
<1> QED BY <1>1, <1>2, <1>3 DEF LookFits

LEMMA NotAccepted ==
  ASSUME ruling' \in {"none", "refused", "stopped"}, stage' # "over" => ruling' = "none"
  PROVE  RulingFits'
<1>1. ~Accepted' BY DEF Accepted
<1>3. WorkRests' BY <1>1 DEF WorkRests
<1>4. EffectsAreSettled' BY <1>1 DEF EffectsAreSettled
<1> QED BY <1>3, <1>4 DEF RulingFits

LEMMA KeptTogether ==
  ASSUME EvidenceTypeOK', RecordsFit', LookFits', RulingFits'
  PROVE  EvidenceInv'
BY DEF EvidenceInv, RecordsFit

\* While the run goes on nothing has been accepted.
LEMMA NoRuling == ASSUME EvidenceInv, stage # "over" PROVE ruling = "none"
BY DEF EvidenceInv, RulingFits

-----------------------------------------------------------------------------
(* Records that end with the run. *)

\* A record is as before, or its end will not be known.
EndUnknown(old, new) ==
  \/ new = old
  \/ /\ old.began /\ old.how = "none" /\ new.how = "unknown"
     /\ new.of = old.of /\ new.was = old.was /\ new.began = old.began /\ new.base = old.base /\ new.changed = old.changed
     /\ new.version = old.version /\ new.managed = old.managed /\ new.guarded = old.guarded
     /\ new.kept = old.kept /\ new.end = old.end /\ new.stamp = old.stamp

LEMMA FrontRows ==
  ASSUME NEW ts \in Seq(Trials), ts # <<>>
  PROVE  /\ Front(ts) \in Seq(Trials) /\ Len(Front(ts)) = Len(ts) - 1 /\ Len(ts) \in Nat \ {0}
         /\ \A i \in 1..(Len(ts) - 1) : Front(ts)[i] = ts[i]
<1> DEFINE n == Len(ts) - 1
<1>1. Len(ts) \in Nat \ {0} /\ n \in Nat /\ n + 1 = Len(ts) /\ \A i \in 1..n : ts[i] \in Trials OBVIOUS
<1> HIDE DEF n
<1>2. /\ SubSeq(ts, 1, n) \in Seq(Trials) /\ Len(SubSeq(ts, 1, n)) = IF 1 <= n THEN n - 1 + 1 ELSE 0
      /\ \A i \in 1..(n - 1 + 1) : SubSeq(ts, 1, n)[i] = ts[1 + i - 1]
  <2>1. 1 \in Int /\ n \in Int BY <1>1
  <2> QED BY <1>1, <2>1, SubSeqProperties
<1>3. Front(ts) = SubSeq(ts, 1, n) BY DEF Front, n
<1>4. Len(Front(ts)) = n
  <2>1. CASE 1 <= n BY <1>1, <1>2, <1>3, <2>1
  <2>2. CASE n = 0 BY <1>2, <1>3, <2>2
  <2> QED BY <1>1, <2>1, <2>2
<1>5. \A i \in 1..n : Front(ts)[i] = ts[i]
  <2> SUFFICES ASSUME NEW i \in 1..n PROVE Front(ts)[i] = ts[i] OBVIOUS
  <2>1. i \in 1..(n - 1 + 1) /\ 1 + i - 1 = i BY <1>1
  <2> QED BY <1>2, <1>3, <2>1
<1> QED BY <1>1, <1>2, <1>3, <1>4, <1>5 DEF n

LEMMA RowTyped == ASSUME EvidenceInv, NEW i \in DOMAIN trials PROVE trials[i] \in Trials /\ RowFits(trials[i])
BY DEF EvidenceInv, EvidenceTypeOK, RowsFit

\* A run that ends, or a question that is withdrawn, leaves records that fit.
LEMMA CutRecords ==
  ASSUME EvidenceInv, stage # "over", stage' # "asked", stamp' = stamp,
         task'.version = task.version, task'.issue = task.issue, task'.unsure = task.unsure,
         trials' \in Seq(Trials), Len(trials') = IF stage = "asked" THEN Len(trials) - 1 ELSE Len(trials),
         \A i \in DOMAIN trials' : trials'[i] = trials[i] \/ (stage' = "over" /\ EndUnknown(trials[i], trials'[i]))
  PROVE  RecordsFit'
<1>0. /\ trials \in Seq(Trials) /\ DOMAIN trials = 1..Len(trials) /\ Len(trials) \in Nat
      /\ DOMAIN trials' = 1..Len(trials') /\ Len(trials') \in Nat
  <2>1. trials \in Seq(Trials) BY DEF EvidenceInv, EvidenceTypeOK
  <2> QED BY <2>1
<1>1. stage = "asked" => Len(trials) >= 1 /\ ~trials[Len(trials)].began /\ Len(trials) \in DOMAIN trials
  <2> SUFFICES ASSUME stage = "asked" PROVE Len(trials) >= 1 /\ ~trials[Len(trials)].began OBVIOUS
  <2>1. trials # <<>> /\ ~trials[Len(trials)].began BY DEF EvidenceInv, AskFits
  <2> QED BY <1>0, <2>1
<1> DEFINE n == Len(trials)
<1> DEFINE m == Len(trials')
<1>a. n \in Nat /\ m \in Nat /\ m <= n /\ (stage = "asked" => m = n - 1) /\ (stage # "asked" => m = n)
  <2>1. stage = "asked" => m = n - 1 OBVIOUS
  <2>2. stage # "asked" => m = n OBVIOUS
  <2>3. n \in Nat /\ m \in Nat BY <1>0
  <2> HIDE DEF EvidenceInv, n, m
  <2> QED BY <2>1, <2>2, <2>3
<1>b. DOMAIN trials = 1..n /\ DOMAIN trials' = 1..m BY <1>0
<1>c. DOMAIN trials' \subseteq DOMAIN trials /\ (stage = "asked" => n \notin DOMAIN trials')
  <2> HIDE DEF EvidenceInv, n, m
  <2> QED BY <1>a, <1>b
<1>d. \A i \in DOMAIN trials : i # n \/ stage # "asked" => i \in DOMAIN trials'
  <2> HIDE DEF EvidenceInv, n, m
  <2> QED BY <1>a, <1>b
<1>2. DOMAIN trials' \subseteq DOMAIN trials /\ \A i \in DOMAIN trials' : EndUnknown(trials[i], trials'[i])
  BY <1>c DEF EndUnknown
<1>3. RowsFit'
  <2> SUFFICES ASSUME NEW i \in DOMAIN trials' PROVE RowFits(trials'[i]) BY DEF RowsFit
  <2>1. RowFits(trials[i]) /\ EndUnknown(trials[i], trials'[i]) BY <1>2, RowTyped
  <2> HIDE DEF EvidenceInv
  <2> QED BY <2>1, EvidenceShape DEF RowFits, EndUnknown
<1>4. \A i \in DOMAIN trials' : trials'[i].began
  <2> SUFFICES ASSUME NEW i \in DOMAIN trials' PROVE trials'[i].began OBVIOUS
  <2>1. i \in DOMAIN trials /\ EndUnknown(trials[i], trials'[i]) BY <1>2
  <2>2. ~trials[i].began => stage = "asked" /\ i = Len(trials) BY <2>1 DEF EvidenceInv, AskFits
  <2>3. trials[i].began BY <1>c, <2>2
  <2> QED BY <2>1, <2>3 DEF EndUnknown
<1>5. AskFits' BY <1>4 DEF AskFits
<1>6. EndsSeen'
  <2> SUFFICES ASSUME NEW i \in DOMAIN trials', trials'[i].managed, trials'[i].how # "none", trials'[i].changed = "unset"
               PROVE  stage' = "over" /\ trials'[i].how = "unknown"
    BY DEF EndsSeen
  <2>1. i \in DOMAIN trials BY <1>2
  <2>2. ~(trials[i].managed /\ trials[i].how # "none" /\ trials[i].changed = "unset") BY <2>1 DEF EvidenceInv, EndsSeen
  <2>3. trials'[i] # trials[i] BY <2>2
  <2> QED BY <2>3 DEF EndUnknown
<1>7. StampsFit(trials, task.version)'
  <2>1. \A i \in DOMAIN trials : trials[i].of \in Command /\ trials[i].began =>
          trials[i].stamp <= stamp /\ stamp + trials[i].version <= task.version + trials[i].stamp
    BY DEF EvidenceInv, StampsFit
  <2> HIDE DEF EvidenceInv
  <2>2. \A i \in DOMAIN trials' : i \in DOMAIN trials /\ trials'[i].of = trials[i].of /\ trials'[i].began = trials[i].began
                                  /\ trials'[i].stamp = trials[i].stamp /\ trials'[i].version = trials[i].version
    BY <1>2 DEF EndUnknown
  <2> QED BY <2>1, <2>2 DEF StampsFit
<1>8. \A i \in DOMAIN trials' :
        /\ i \in DOMAIN trials /\ trials'[i].of = trials[i].of /\ trials'[i].began = trials[i].began
        /\ trials'[i].guarded = trials[i].guarded /\ trials'[i].changed = trials[i].changed
        /\ trials'[i].base = trials[i].base /\ trials'[i].end = trials[i].end /\ trials'[i].kept = trials[i].kept
  BY <1>2 DEF EndUnknown
<1>9. \A i \in DOMAIN trials : trials[i].began => i \in DOMAIN trials'
  BY <1>1, <1>d
<1>10. IssueFits(trials, task.issue)'
  <2>1. IssueFits(trials, task.issue) BY DEF EvidenceInv
  <2> HIDE DEF EvidenceInv
  <2>2. CASE task.issue = "none" BY <1>8, <2>1, <2>2 DEF IssueFits
  <2>3. CASE task.issue # "none" BY <1>8, <1>9, <2>1, <2>3 DEF IssueFits
  <2> QED BY <2>2, <2>3
<1>11. UnsureFits'
  <2> SUFFICES ASSUME NEW f \in task'.unsure \cap File
               PROVE  \E i \in DOMAIN trials' : trials'[i].of = f /\ LastOf(trials', i) /\ ~trials'[i].kept
    BY DEF UnsureFits
  <2>1. PICK i \in DOMAIN trials : trials[i].of = f /\ LastOf(trials, i) /\ ~trials[i].kept
    BY DEF EvidenceInv, UnsureFits
  <2>2. trials[i].began BY <2>1, RowTyped DEF RowFits, Trials
  <2> HIDE DEF EvidenceInv
  <2>3. i \in DOMAIN trials' BY <1>9, <2>2
  <2>4. LastOf(trials', i) BY <1>8, <2>1, <2>3 DEF LastOf
  <2> QED BY <1>8, <2>1, <2>3, <2>4
<1> QED BY <1>3, <1>5, <1>6, <1>7, <1>10, <1>11 DEF RecordsFit

LEMMA EvidenceParts ==
  ASSUME EvidenceInv
  PROVE  /\ disk \in [File -> Contents] /\ task \in Tasks /\ trials \in Seq(Trials) /\ look \in Looks
         /\ changes \in Nat /\ stamp \in Nat /\ NoLook \in Looks
         /\ DOMAIN trials = 1..Len(trials) /\ Len(trials) \in Nat
<1>1. NoLook \in Looks
  <2>1. <<>> \in Seq(Trials) OBVIOUS
  <2> QED BY <2>1 DEF NoLook, Looks, Digest
<1>2. trials \in Seq(Trials) BY DEF EvidenceInv, EvidenceTypeOK
<1>3. DOMAIN trials = 1..Len(trials) /\ Len(trials) \in Nat BY <1>2
<1> QED BY <1>1, <1>2, <1>3 DEF EvidenceInv, EvidenceTypeOK

LEMMA AskedLast == ASSUME EvidenceInv, stage = "asked" PROVE trials # <<>> /\ ~trials[Len(trials)].began
BY DEF EvidenceInv, AskFits

LEMMA CancelKeeps == ASSUME EvidenceInv, Cancel PROVE EvidenceInv'
<1>1. stage # "over" /\ stage' = "over" /\ ruling' = "stopped" /\ stamp' = stamp /\ task' = task /\ disk' = disk
      /\ look' = NoLook /\ changes' = changes /\ trials' = IF stage = "asked" THEN Front(trials) ELSE trials
  BY DEF Cancel
<1>2. /\ trials' \in Seq(Trials) /\ Len(trials') = IF stage = "asked" THEN Len(trials) - 1 ELSE Len(trials)
      /\ \A i \in DOMAIN trials' : trials'[i] = trials[i]
  <2>1. CASE stage = "asked"
    <3>1. trials # <<>> /\ trials \in Seq(Trials) /\ trials' = Front(trials) BY <1>1, <2>1, AskedLast, EvidenceParts
    <3> HIDE DEF EvidenceInv
    <3>2. DOMAIN trials' = 1..Len(trials') BY <3>1, FrontRows
    <3> QED BY <2>1, <3>1, <3>2, FrontRows
  <2>2. CASE stage # "asked" BY <1>1, <2>2, EvidenceParts
  <2> QED BY <2>1, <2>2
<1>3. EvidenceTypeOK' BY <1>1, <1>2, EvidenceParts DEF EvidenceTypeOK
<1> HIDE DEF EvidenceInv
<1>4. RecordsFit' BY <1>1, <1>2, CutRecords
<1>5. LookFits' BY <1>1, NoneRead DEF Checking
<1>6. RulingFits' BY <1>1, NotAccepted
<1> QED BY <1>3, <1>4, <1>5, <1>6, KeptTogether

LEMMA UnknownRow ==
  ASSUME NEW t \in Trials, t.began, t.how = "none"
  PROVE  [t EXCEPT !.how = "unknown"] \in Trials /\ EndUnknown(t, [t EXCEPT !.how = "unknown"])
<1> DEFINE u == [t EXCEPT !.how = "unknown"]
<1>1. u \in Trials BY DEF Trials
<1>2. /\ u.how = "unknown" /\ u.of = t.of /\ u.was = t.was /\ u.began = t.began /\ u.base = t.base /\ u.changed = t.changed
      /\ u.version = t.version /\ u.managed = t.managed /\ u.guarded = t.guarded
      /\ u.kept = t.kept /\ u.end = t.end /\ u.stamp = t.stamp
  BY DEF Trials
<1> HIDE DEF u
<1>3. EndUnknown(t, u) BY <1>2 DEF EndUnknown
<1> QED BY <1>1, <1>3 DEF u

LEMMA RestartKeeps == ASSUME EvidenceInv, Restart PROVE EvidenceInv'
<1> DEFINE ts == IF stage = "asked" THEN Front(trials) ELSE trials
<1>1. /\ stage # "over" /\ stage' = "over" /\ ruling' = "stopped" /\ stamp' = stamp /\ task' = task /\ disk' = disk
      /\ look' = NoLook /\ changes' = changes
      /\ trials' = [i \in DOMAIN ts |-> IF ts[i].began /\ ts[i].how = "none" THEN [ts[i] EXCEPT !.how = "unknown"] ELSE ts[i]]
  BY DEF Restart
<1>2. /\ ts \in Seq(Trials) /\ Len(ts) = IF stage = "asked" THEN Len(trials) - 1 ELSE Len(trials)
      /\ \A i \in DOMAIN ts : ts[i] = trials[i]
  <2>1. CASE stage = "asked"
    <3>1. trials # <<>> /\ trials \in Seq(Trials) /\ ts = Front(trials) BY <2>1, AskedLast, EvidenceParts
    <3> HIDE DEF EvidenceInv, ts
    <3>2. DOMAIN ts = 1..Len(ts) BY <3>1, FrontRows
    <3> QED BY <2>1, <3>1, <3>2, FrontRows
  <2>2. CASE stage # "asked" BY <2>2, EvidenceParts
  <2> QED BY <2>1, <2>2
<1> HIDE DEF ts, EvidenceInv
<1>3. DOMAIN ts = 1..Len(ts) /\ Len(ts) \in Nat BY <1>2
<1>4. \A i \in DOMAIN ts : trials'[i] \in Trials /\ EndUnknown(trials[i], trials'[i])
  <2> SUFFICES ASSUME NEW i \in DOMAIN ts PROVE trials'[i] \in Trials /\ EndUnknown(trials[i], trials'[i]) OBVIOUS
  <2>1. ts[i] \in Trials /\ ts[i] = trials[i] BY <1>2
  <2>2. CASE ts[i].began /\ ts[i].how = "none"
    <3>1. trials'[i] = [ts[i] EXCEPT !.how = "unknown"] BY <1>1, <2>2
    <3> QED BY <2>1, <2>2, <3>1, UnknownRow
  <2>3. CASE ~(ts[i].began /\ ts[i].how = "none")
    <3>1. trials'[i] = ts[i] BY <1>1, <2>3
    <3> QED BY <2>1, <3>1 DEF EndUnknown
  <2> QED BY <2>2, <2>3
<1>5. trials' \in Seq(Trials) /\ Len(trials') = Len(ts) /\ DOMAIN trials' = DOMAIN ts
  <2>1. DOMAIN trials' = 1..Len(ts) BY <1>1, <1>3
  <2>2. trials' = [i \in 1..Len(ts) |-> trials'[i]] BY <1>1, <1>3
  <2>3. trials' \in Seq(Trials) BY <1>3, <1>4, <2>1, <2>2
  <2> QED BY <1>3, <2>1, <2>3
<1>6. EvidenceTypeOK' BY <1>1, <1>5, EvidenceParts DEF EvidenceTypeOK
<1>7. RecordsFit' BY <1>1, <1>2, <1>4, <1>5, CutRecords
<1>8. LookFits' BY <1>1, NoneRead DEF Checking
<1>9. RulingFits' BY <1>1, NotAccepted
<1> QED BY <1>6, <1>7, <1>8, <1>9, KeptTogether

-----------------------------------------------------------------------------
(* Steps that write no record. *)

LEMMA BoundedTyped ==
  ASSUME NEW t \in Tasks
  PROVE  LET u == [Bounded(t) EXCEPT !.seen = t.gen] IN
           /\ u \in Tasks /\ u.version = t.version /\ u.issue = t.issue /\ u.unsure = t.unsure
           /\ u.policy = t.due.policy /\ u.want = t.due.want /\ u.due = t.due /\ u.firm = t.firm
           /\ u.asked = t.asked /\ u.banned = t.banned /\ u.scoped = t.scoped
<1>1. t.due \in Terms BY DEF Tasks
<1>2. t.due.policy \in SUBSET Policies /\ t.due.want \in SUBSET Wanted /\ t.due.notes \in SUBSET File
  BY <1>1 DEF Terms
<1> QED BY <1>2 DEF Bounded, Tasks

\* Terms stay terms, whatever is dropped from them.
LEMMA SiftedTyped ==
  ASSUME NEW s \in BOOLEAN, NEW d \in Terms
  PROVE  /\ Sifted(s, d) \in Terms /\ Sifted(s, d).policy = d.policy
         /\ Sifted(s, d).want = {r \in d.want : ~RequirementBlocked(s, d.policy, r)}
<1> DEFINE kept == {r \in d.want : ~RequirementBlocked(s, d.policy, r)}
<1> DEFINE left == (d.notes \cup FilesOf(d.want \ kept)) \ FilesOf(kept)
<1>1. d.want \in SUBSET Wanted /\ d.notes \in SUBSET File /\ kept \in SUBSET Wanted BY DEF Terms
<1>2. \A R \in SUBSET Wanted : FilesOf(R) \in SUBSET File
  <2> SUFFICES ASSUME NEW R \in SUBSET Wanted, NEW w \in R, w.kind = "file_changed" PROVE w.on \in File
    BY DEF FilesOf
  <2>1. AnyTest.kind # "file_changed" BY DEF AnyTest
  <2>2. w \in [kind : {"file_changed"}, on : File] BY <2>1 DEF Wanted
  <2> QED BY <2>2
<1>3. left \in SUBSET File
  <2>1. d.want \ kept \in SUBSET Wanted BY <1>1
  <2>2. FilesOf(d.want \ kept) \in SUBSET File BY <1>2, <2>1
  <2> QED BY <1>1, <2>2
<1>4. Sifted(s, d) = [d EXCEPT !.want = kept, !.notes = left] BY DEF Sifted
<1> HIDE DEF kept, left
<1>5. Sifted(s, d) \in Terms /\ Sifted(s, d).policy = d.policy /\ Sifted(s, d).want = kept
  BY <1>1, <1>3, <1>4 DEF Terms
<1> QED BY <1>5 DEF kept

\* What a ban and its release do to the terms.
LEMMA MergedTyped ==
  ASSUME NEW t \in Tasks, NEW p \in Policies
  PROVE  /\ Banned(t, p) \in Terms /\ Banned(t, p).policy = t.due.policy \cup {p}
         /\ Banned(t, p).want = {r \in t.due.want : ~RequirementBlocked(t.scoped, t.due.policy \cup {p}, r)}
         /\ Released(t, p) \in Terms /\ Released(t, p).policy = t.due.policy \ {p}
         /\ Released(t, p).want = {r \in t.due.want \cup t.firm : ~RequirementBlocked(t.scoped, t.due.policy \ {p}, r)}
<1>1. t.due \in Terms /\ t.scoped \in BOOLEAN /\ t.firm \in SUBSET Wanted BY DEF Tasks
<1>2. t.due.policy \in SUBSET Policies /\ t.due.want \in SUBSET Wanted BY <1>1 DEF Terms
<1> DEFINE q == t.due.policy \cup {p}
<1> DEFINE b == [t.due EXCEPT !.policy = q]
<1>3. q \in SUBSET Policies BY <1>2
<1>4. b \in Terms /\ b.policy = q /\ b.want = t.due.want
  <2> HIDE DEF q
  <2> QED BY <1>1, <1>3 DEF Terms
<1>5. Banned(t, p) = Sifted(t.scoped, b)
  <2>1. b = [t.due EXCEPT !.policy = @ \cup {p}] BY <1>1 DEF Terms
  <2> HIDE DEF b
  <2> QED BY <2>1 DEF Banned
<1> DEFINE o == t.due.policy \ {p}
<1> DEFINE w == t.due.want \cup {r \in t.firm : ~RequirementBlocked(t.scoped, o, r)}
<1> DEFINE c == [t.due EXCEPT !.policy = o, !.want = w]
<1>6. o \in SUBSET Policies /\ w \in SUBSET Wanted BY <1>1, <1>2
<1>7. c \in Terms /\ c.policy = o /\ c.want = w
  <2> HIDE DEF o, w
  <2> QED BY <1>1, <1>6 DEF Terms
<1>8. Released(t, p) = Sifted(t.scoped, c)
  <2>1. c = [t.due EXCEPT !.policy = o, !.want = @ \cup {r \in t.firm : ~RequirementBlocked(t.scoped, o, r)}]
    BY <1>1 DEF Terms
  <2> HIDE DEF c
  <2> QED BY <2>1 DEF Released
<1>9. /\ Banned(t, p) \in Terms /\ Banned(t, p).policy = q
      /\ Banned(t, p).want = {r \in t.due.want : ~RequirementBlocked(t.scoped, q, r)}
  <2> HIDE DEF b, q
  <2> QED BY <1>1, <1>4, <1>5, SiftedTyped
<1>10. /\ Released(t, p) \in Terms /\ Released(t, p).policy = o
       /\ Released(t, p).want = {r \in w : ~RequirementBlocked(t.scoped, o, r)}
  <2> HIDE DEF c, o, w
  <2> QED BY <1>1, <1>7, <1>8, SiftedTyped
<1>11. {r \in w : ~RequirementBlocked(t.scoped, o, r)} = {r \in t.due.want \cup t.firm : ~RequirementBlocked(t.scoped, o, r)}
  OBVIOUS
<1> QED BY <1>9, <1>10, <1>11

LEMMA UserEditKeeps ==
  ASSUME EvidenceInv, NEW f \in File, NEW c \in Contents, UserEdit(f, c)
  PROVE  EvidenceInv'
<1>1. /\ task' = task /\ trials' = trials /\ stage' = stage /\ look' = look /\ ruling' = ruling /\ stamp' = stamp
      /\ disk' = [disk EXCEPT ![f] = c] /\ changes' = changes + 1 /\ ~(stage = "over" /\ ruling # "stopped")
  BY DEF UserEdit, TaskOver
<1>2. disk' \in [File -> Contents] /\ changes' \in Nat BY <1>1, EvidenceParts
<1>3. EvidenceTypeOK' BY <1>1, <1>2, EvidenceParts DEF EvidenceInv, EvidenceTypeOK
<1>4. ruling' \in {"none", "stopped"} /\ (stage' # "over" => ruling' = "none") BY <1>1, NoRuling
<1> HIDE DEF EvidenceInv
<1>5. RecordsFit' BY <1>1, SameRecords
<1>6. LookFits'
  <2>1. CASE stage \in Checking BY <1>1, <2>1, SameLook DEF EvidenceInv, LookFits
  <2>2. CASE stage \notin Checking BY <1>1, <2>2, NoneRead
  <2> QED BY <2>1, <2>2
<1>7. RulingFits' BY <1>4, NotAccepted
<1> QED BY <1>3, <1>5, <1>6, <1>7, KeptTogether

LEMMA EffectKeeps ==
  ASSUME EvidenceInv, NEW i \in Live, NEW f \in File, NEW c \in Contents, Effect(i, f, c)
  PROVE  EvidenceInv'
<1>1. /\ task' = task /\ trials' = trials /\ stage' = stage /\ look' = look /\ ruling' = ruling /\ stamp' = stamp
      /\ disk' = [disk EXCEPT ![f] = c] /\ changes' = changes + 1 /\ stage # "over"
  BY DEF Effect
<1>2. disk' \in [File -> Contents] /\ changes' \in Nat BY <1>1, EvidenceParts
<1>3. EvidenceTypeOK' BY <1>1, <1>2, EvidenceParts DEF EvidenceInv, EvidenceTypeOK
<1>4. ruling' = "none" BY <1>1, NoRuling
<1> HIDE DEF EvidenceInv
<1>5. RecordsFit' BY <1>1, SameRecords
<1>6. LookFits'
  <2>1. CASE stage \in Checking BY <1>1, <2>1, SameLook DEF EvidenceInv, LookFits
  <2>2. CASE stage \notin Checking BY <1>1, <2>2, NoneRead
  <2> QED BY <2>1, <2>2
<1>7. RulingFits' BY <1>4, NotAccepted
<1> QED BY <1>3, <1>5, <1>6, <1>7, KeptTogether

LEMMA SteerKeeps ==
  ASSUME EvidenceInv, NEW p \in Policies, NEW frees \in BOOLEAN, Steer(p, frees)
  PROVE  EvidenceInv'
<1>1. /\ trials' = trials /\ stage' = stage /\ look' = look /\ ruling' = ruling /\ stamp' = stamp /\ disk' = disk
      /\ changes' = changes /\ stage # "over"
      /\ task' = [task EXCEPT !.gen = @ + 1, !.due = IF frees THEN Released(task, p) ELSE Banned(task, p),
                             !.banned = IF frees THEN @ ELSE @ \cup {p}]
  BY DEF Steer
<1>2. task' \in Tasks /\ task'.version = task.version /\ task'.issue = task.issue /\ task'.unsure = task.unsure
  <2> DEFINE g == task.gen + 1
  <2> DEFINE d == IF frees THEN Released(task, p) ELSE Banned(task, p)
  <2> DEFINE q == IF frees THEN task.banned ELSE task.banned \cup {p}
  <2>1. task \in Tasks /\ task.gen \in Nat /\ task.banned \in SUBSET Policies BY EvidenceParts DEF Tasks
  <2>2. d \in Terms BY <2>1, MergedTyped
  <2>3. g \in Nat /\ q \in SUBSET Policies /\ task' = [task EXCEPT !.gen = g, !.due = d, !.banned = q] BY <1>1, <2>1
  <2> HIDE DEF EvidenceInv, g, q, d
  <2> QED BY <2>1, <2>2, <2>3 DEF Tasks
<1>3. EvidenceTypeOK' BY <1>1, <1>2, EvidenceParts DEF EvidenceInv, EvidenceTypeOK
<1>4. ruling' = "none" BY <1>1, NoRuling
<1>5. stage # "scanning" /\ stage \in Checking => look.stamp = stamp BY DEF EvidenceInv, LookFits
<1> HIDE DEF EvidenceInv
<1>6. RecordsFit' BY <1>1, <1>2, SameRecords
<1>7. LookFits'
  <2>1. CASE stage \in Checking BY <1>1, <1>5, <2>1, SameLook
  <2>2. CASE stage \notin Checking BY <1>1, <2>2, NoneRead
  <2> QED BY <2>1, <2>2
<1>8. RulingFits' BY <1>4, NotAccepted
<1> QED BY <1>3, <1>6, <1>7, <1>8, KeptTogether

LEMMA RespondKeeps == ASSUME EvidenceInv, Respond PROVE EvidenceInv'
<1>1. /\ trials' = trials /\ stage' = stage /\ look' = look /\ ruling' = ruling /\ stamp' = stamp /\ disk' = disk
      /\ changes' = changes /\ stage = "work" /\ task' = [Bounded(task) EXCEPT !.seen = task.gen]
  BY DEF Respond
<1>2. task' \in Tasks /\ task'.version = task.version /\ task'.issue = task.issue /\ task'.unsure = task.unsure
  BY <1>1, EvidenceParts, BoundedTyped
<1>3. EvidenceTypeOK' BY <1>1, <1>2, EvidenceParts DEF EvidenceInv, EvidenceTypeOK
<1>4. ruling' = "none" BY <1>1, NoRuling
<1> HIDE DEF EvidenceInv
<1>5. RecordsFit' BY <1>1, <1>2, SameRecords
<1>6. LookFits' BY <1>1, NoneRead DEF Checking
<1>7. RulingFits' BY <1>4, NotAccepted
<1> QED BY <1>3, <1>5, <1>6, <1>7, KeptTogether

\* The child of a stopped run begins with records that are all settled.
LEMMA ResumeTaskKeeps == ASSUME EvidenceInv, ResumeTask PROVE EvidenceInv'
<1>1. /\ trials' = trials /\ stage = "over" /\ stage' = "work" /\ look' = NoLook /\ ruling' = "none" /\ stamp' = stamp
      /\ disk' = disk /\ changes' = changes /\ task' = [Bounded(task) EXCEPT !.seen = task.gen]
      /\ \A i \in DOMAIN trials : trials[i].how # "unknown"
  BY DEF ResumeTask, Resumable
<1>2. task' \in Tasks /\ task'.version = task.version /\ task'.issue = task.issue /\ task'.unsure = task.unsure
  BY <1>1, EvidenceParts, BoundedTyped
<1>3. EvidenceTypeOK' BY <1>1, <1>2, EvidenceParts DEF EvidenceTypeOK
<1> HIDE DEF EvidenceInv
<1>4. RecordsFit' BY <1>1, <1>2, SameRecords
<1>5. LookFits' BY <1>1, NoneRead DEF Checking
<1>6. RulingFits' BY <1>1, NotAccepted
<1> QED BY <1>3, <1>4, <1>5, <1>6, KeptTogether

-----------------------------------------------------------------------------
(* The steps of the verifier. *)

LEMMA ReadsTyped ==
  ASSUME EvidenceInv, NEW again \in BOOLEAN
  PROVE  LET l == [Reads EXCEPT !.reviewed = again] IN
           /\ l \in Looks /\ l.trials = trials /\ l.version = task.version /\ l.issue = task.issue
           /\ l.policy = task.policy /\ l.want = task.want
           /\ Reads \in Looks /\ Reads.trials = trials /\ Reads.version = task.version /\ Reads.issue = task.issue
           /\ Reads.policy = task.policy /\ Reads.want = task.want
<1> DEFINE v == task.version
<1> DEFINE p == task.policy
<1> DEFINE w == task.want
<1> DEFINE m == task.notes
<1> DEFINE q == task.issue
<1>1. /\ v \in Nat /\ p \in SUBSET Policies /\ w \in SUBSET Wanted /\ m \in SUBSET File
      /\ q \in {"none", "unverified", "violated"}
  BY EvidenceParts DEF Tasks
<1>2. NoLook \in Looks /\ trials \in Seq(Trials) BY EvidenceParts
<1>3. Reads = [NoLook EXCEPT !.trials = trials, !.version = v, !.policy = p, !.want = w, !.notes = m, !.issue = q]
  BY DEF Reads
<1> HIDE DEF EvidenceInv, v, p, q, w, m
<1>4. /\ Reads \in Looks /\ Reads.trials = trials /\ Reads.version = v /\ Reads.issue = q
      /\ Reads.policy = p /\ Reads.want = w
  BY <1>1, <1>2, <1>3 DEF Looks
<1> DEFINE l == [Reads EXCEPT !.reviewed = again]
<1>5. /\ l \in Looks /\ l.trials = Reads.trials /\ l.version = Reads.version /\ l.issue = Reads.issue
      /\ l.policy = Reads.policy /\ l.want = Reads.want
  BY <1>4 DEF Looks
<1> QED BY <1>4, <1>5 DEF v, q, p, w

\* Once more, or not.
LEMMA CorrectKeeps ==
  ASSUME EvidenceInv, stage # "over", stage # "asked", NEW again \in BOOLEAN, Correct(again),
         UNCHANGED <<disk, trials, changes, stamp>>
  PROVE  EvidenceInv'
<1>1. /\ trials' = trials /\ look' = NoLook /\ stamp' = stamp /\ disk' = disk /\ changes' = changes
      /\ stage' \in {"work", "over"} /\ ruling' \in {"none", "refused"} /\ (stage' # "over" => ruling' = "none")
      /\ task' \in {task, [task EXCEPT !.retries = @ + 1]}
  BY NoRuling DEF Correct
<1>2. task' \in Tasks /\ task'.version = task.version /\ task'.issue = task.issue /\ task'.unsure = task.unsure
  <2>1. task \in Tasks BY EvidenceParts
  <2> HIDE DEF EvidenceInv
  <2> QED BY <1>1, <2>1 DEF Tasks
<1>3. EvidenceTypeOK' BY <1>1, <1>2, EvidenceParts DEF EvidenceTypeOK
<1> HIDE DEF EvidenceInv
<1>4. RecordsFit' BY <1>1, <1>2, SameRecords
<1>5. LookFits' BY <1>1, NoneRead DEF Checking
<1>6. RulingFits' BY <1>1, NotAccepted
<1> QED BY <1>3, <1>4, <1>5, <1>6, KeptTogether

LEMMA BeginCheckKeeps == ASSUME EvidenceInv, BeginCheck PROVE EvidenceInv'
<1>1. /\ trials' = trials /\ task' = task /\ look' = Reads /\ stamp' = stamp /\ disk' = disk /\ changes' = changes
      /\ ruling' = ruling /\ stage = "work" /\ stage' = "scanning"
  BY DEF BeginCheck
<1>2. look' \in Looks /\ look'.trials = trials /\ look'.version = task.version /\ look'.issue = task.issue
  BY <1>1, ReadsTyped
<1>3. EvidenceTypeOK' BY <1>1, <1>2, EvidenceParts DEF EvidenceInv, EvidenceTypeOK, Checking
<1>4. ruling' = "none" BY <1>1, NoRuling
<1> HIDE DEF EvidenceInv
<1>5. RecordsFit' BY <1>1, SameRecords
<1>6. LookFits' BY <1>1, <1>2, NewLook
<1>7. RulingFits' BY <1>4, NotAccepted
<1> QED BY <1>3, <1>5, <1>6, <1>7, KeptTogether

LEMMA ScanKeeps == ASSUME EvidenceInv, Scan PROVE EvidenceInv'
<1>1. /\ trials' = trials /\ task' = task /\ stamp' = stamp /\ disk' = disk /\ changes' = changes
      /\ ruling' = ruling /\ stage = "scanning" /\ stage' = "reading"
      /\ look' = [look EXCEPT !.scan = Scanned, !.stamp = stamp]
  BY DEF Scan
<1>2. /\ look' \in Looks /\ look'.trials = look.trials /\ look'.version = look.version /\ look'.issue = look.issue
      /\ look'.stamp = stamp
  <2>1. look \in Looks /\ Scanned \in Digest /\ stamp \in Nat BY EvidenceParts, ScannedTyped
  <2> DEFINE d == Scanned
  <2> HIDE DEF EvidenceInv, d
  <2>2. look' = [look EXCEPT !.scan = d, !.stamp = stamp] /\ d \in Digest BY <1>1, <2>1 DEF d
  <2> QED BY <2>1, <2>2 DEF Looks
<1>3. EvidenceTypeOK' BY <1>1, <1>2, EvidenceParts DEF EvidenceInv, EvidenceTypeOK, Checking
<1>4. ruling' = "none" BY <1>1, NoRuling
<1> HIDE DEF EvidenceInv
<1>5. RecordsFit' BY <1>1, SameRecords
<1>6. LookFits' BY <1>1, <1>2, SameLook DEF Checking
<1>7. RulingFits' BY <1>4, NotAccepted
<1> QED BY <1>3, <1>5, <1>6, <1>7, KeptTogether

LEMMA CheckFailsKeeps == ASSUME EvidenceInv, CheckFails PROVE EvidenceInv'
<1>1. /\ trials' = trials /\ task' = task /\ stamp' = stamp /\ disk' = disk /\ changes' = changes
      /\ ruling' = "refused" /\ stage \in {"scanning", "reading"} /\ stage' = "over" /\ look' = NoLook
  BY DEF CheckFails
<1>2. EvidenceTypeOK' BY <1>1, EvidenceParts DEF EvidenceTypeOK
<1> HIDE DEF EvidenceInv
<1>3. RecordsFit' BY <1>1, SameRecords
<1>4. LookFits' BY <1>1, NoneRead DEF Checking
<1>5. RulingFits' BY <1>1, NotAccepted
<1> QED BY <1>2, <1>3, <1>4, <1>5, KeptTogether

LEMMA AskReviewKeeps == ASSUME EvidenceInv, AskReview PROVE EvidenceInv'
<1>1. stage = "review" /\ UNCHANGED <<disk, trials, changes, stamp>> BY DEF AskReview
<1>2. \/ Correct(task.retries < MaxCorrect) \/ Correct(FALSE)
      \/ stage' = "reviewing" /\ look' = [look EXCEPT !.bind = Binding] /\ UNCHANGED <<task, ruling>>
  BY DEF AskReview, Superseded
<1>3. CASE Correct(task.retries < MaxCorrect)
  <2>1. (task.retries < MaxCorrect) \in BOOLEAN OBVIOUS
  <2> HIDE DEF EvidenceInv
  <2> QED BY <1>1, <1>3, <2>1, CorrectKeeps
<1>4. CASE Correct(FALSE)
  <2> HIDE DEF EvidenceInv
  <2> QED BY <1>1, <1>4, CorrectKeeps
<1>5. CASE stage' = "reviewing" /\ look' = [look EXCEPT !.bind = Binding] /\ UNCHANGED <<task, ruling>>
  <2>1. Binding \in Digest \X Nat \X Nat \X SUBSET Policies
    <3>1. Scanned \in Digest /\ task.version \in Nat /\ task.gen \in Nat /\ task.policy \in SUBSET Policies
      BY EvidenceParts, ScannedTyped DEF Tasks
    <3> HIDE DEF EvidenceInv
    <3> QED BY <3>1 DEF Binding
  <2>2. /\ look' \in Looks /\ look'.trials = look.trials /\ look'.version = look.version /\ look'.issue = look.issue
        /\ look'.stamp = look.stamp
    <3>1. look \in Looks BY EvidenceParts
    <3> DEFINE b == Binding
    <3> HIDE DEF EvidenceInv, b
    <3>2. look' = [look EXCEPT !.bind = b] /\ b \in {<<>>} \cup (Digest \X Nat \X Nat \X SUBSET Policies)
      BY <1>5, <2>1 DEF b
    <3> QED BY <3>1, <3>2 DEF Looks
  <2>3. EvidenceTypeOK' BY <1>1, <1>5, <2>2, EvidenceParts DEF EvidenceInv, EvidenceTypeOK, Checking
  <2>4. ruling' = "none" BY <1>1, <1>5, NoRuling
  <2>5. look.stamp = stamp BY <1>1 DEF EvidenceInv, LookFits, Checking
  <2> HIDE DEF EvidenceInv
  <2>6. RecordsFit' BY <1>1, <1>5, SameRecords
  <2>7. LookFits' BY <1>1, <1>5, <2>2, <2>5, SameLook DEF Checking
  <2>8. RulingFits' BY <2>4, NotAccepted
  <2> QED BY <2>3, <2>6, <2>7, <2>8, KeptTogether
<1> QED BY <1>2, <1>3, <1>4, <1>5

LEMMA ReviewedKeeps == ASSUME EvidenceInv, NEW opinion, Reviewed(opinion) PROVE EvidenceInv'
<1>1. stage = "reviewing" /\ UNCHANGED <<disk, trials, changes, stamp>> BY DEF Reviewed
<1>2. Correct(task.retries < MaxCorrect) \/ Correct(FALSE) \/ AfterReview BY DEF Reviewed, Superseded
<1>3. CASE Correct(task.retries < MaxCorrect)
  <2>1. (task.retries < MaxCorrect) \in BOOLEAN OBVIOUS
  <2> HIDE DEF EvidenceInv
  <2> QED BY <1>1, <1>3, <2>1, CorrectKeeps
<1>4. CASE Correct(FALSE)
  <2> HIDE DEF EvidenceInv
  <2> QED BY <1>1, <1>4, CorrectKeeps
<1>5. CASE AfterReview
  <2>1. stage' = "scanning" /\ look' = [Reads EXCEPT !.reviewed = TRUE] /\ task' = task /\ ruling' = ruling
    BY <1>5 DEF AfterReview
  <2>2. look' \in Looks /\ look'.trials = trials /\ look'.version = task.version /\ look'.issue = task.issue
    BY <2>1, ReadsTyped
  <2>3. EvidenceTypeOK' BY <1>1, <2>1, <2>2, EvidenceParts DEF EvidenceInv, EvidenceTypeOK, Checking
  <2>4. ruling' = "none" BY <1>1, <2>1, NoRuling
  <2> HIDE DEF EvidenceInv
  <2>5. RecordsFit' BY <1>1, <2>1, SameRecords
  <2>6. LookFits' BY <1>1, <2>1, <2>2, NewLook
  <2>7. RulingFits' BY <2>4, NotAccepted
  <2> QED BY <2>3, <2>5, <2>6, <2>7, KeptTogether
<1> QED BY <1>2, <1>3, <1>4, <1>5

LEMMA WeighSplits ==
  ASSUME Weigh
  PROVE  LET l == [look EXCEPT !.files = disk]  out == Outcome(l) IN
         /\ stage = "reading" /\ UNCHANGED <<disk, trials, changes, stamp>>
         /\ \/ Correct(task.retries < MaxCorrect) \/ Correct(out = "unmet" /\ task.retries < MaxCorrect)
            \/ stage' = "review" /\ look' = l /\ UNCHANGED <<ruling, task>>
            \/ Accepts(l) /\ \E how \in {"verified", "answered", "limited"} :
                 Accept(how, l) /\ (how = "verified" => out = "verified")
<1> DEFINE l == [look EXCEPT !.files = disk]
<1> DEFINE out == Outcome(l)
<1> DEFINE s == task.strict /\ ~l.reviewed /\ \E r \in Settled(l) : r.kind = "file_changed"
<1>1. stage = "reading" /\ UNCHANGED <<disk, trials, changes, stamp>> BY DEF Weigh
<1>2. IF task.seen # task.gen THEN Superseded
      ELSE IF out = "verified" /\ s
      THEN stage' = "review" /\ look' = l /\ UNCHANGED <<ruling, task>>
      ELSE IF out \in {"verified", "answered"} THEN Accept(out, l)
      ELSE IF Limited(l) THEN Accept("limited", l)
      ELSE Correct(out = "unmet" /\ task.retries < MaxCorrect)
  BY DEF Weigh
<1>3. (out \in {"verified", "answered"} \/ Limited(l)) => Accepts(l) BY DEF Accepts
<1> HIDE DEF s, l, out
<1>4. \/ Correct(task.retries < MaxCorrect) \/ Correct(out = "unmet" /\ task.retries < MaxCorrect)
      \/ stage' = "review" /\ look' = l /\ UNCHANGED <<ruling, task>>
      \/ Accepts(l) /\ \E how \in {"verified", "answered", "limited"} :
           Accept(how, l) /\ (how = "verified" => out = "verified")
  BY <1>2, <1>3 DEF Superseded
<1> QED BY <1>1, <1>4 DEF l, out

LEMMA WeighKeeps == ASSUME EvidenceInv, Weigh PROVE EvidenceInv'
<1> DEFINE l == [look EXCEPT !.files = disk]
<1> DEFINE out == Outcome(l)
<1>1. stage = "reading" /\ UNCHANGED <<disk, trials, changes, stamp>> BY WeighSplits
<1>2. \/ Correct(task.retries < MaxCorrect) \/ Correct(out = "unmet" /\ task.retries < MaxCorrect)
      \/ stage' = "review" /\ look' = l /\ UNCHANGED <<ruling, task>>
      \/ Accepts(l) /\ \E how \in {"verified", "answered", "limited"} : Accept(how, l)
  <2> HIDE DEF EvidenceInv
  <2> QED BY WeighSplits
<1>3. l \in Looks /\ l.trials = look.trials /\ l.version = look.version /\ l.issue = look.issue /\ l.stamp = stamp
  <2> HIDE DEF EvidenceInv
  <2> QED BY <1>1, Weighed
<1>4. CASE Correct(task.retries < MaxCorrect)
  <2>1. (task.retries < MaxCorrect) \in BOOLEAN OBVIOUS
  <2> HIDE DEF EvidenceInv
  <2> QED BY <1>1, <1>4, <2>1, CorrectKeeps
<1>5. CASE Correct(out = "unmet" /\ task.retries < MaxCorrect)
  <2>1. (out = "unmet" /\ task.retries < MaxCorrect) \in BOOLEAN OBVIOUS
  <2> HIDE DEF EvidenceInv
  <2> QED BY <1>1, <1>5, <2>1, CorrectKeeps
<1>6. CASE stage' = "review" /\ look' = l /\ UNCHANGED <<ruling, task>>
  <2>1. EvidenceTypeOK'
    <3> HIDE DEF l
    <3> QED BY <1>1, <1>3, <1>6, EvidenceParts DEF EvidenceInv, EvidenceTypeOK, Checking
  <2>2. ruling' = "none" BY <1>1, <1>6, NoRuling
  <2> HIDE DEF EvidenceInv, l
  <2>3. RecordsFit' BY <1>1, <1>6, SameRecords
  <2>4. LookFits' BY <1>1, <1>3, <1>6, SameLook DEF Checking
  <2>5. RulingFits' BY <2>2, NotAccepted
  <2> QED BY <2>1, <2>3, <2>4, <2>5, KeptTogether
<1>7. CASE Accepts(l) /\ \E how \in {"verified", "answered", "limited"} : Accept(how, l)
  <2>1. PICK how \in {"verified", "answered", "limited"} : Accept(how, l) BY <1>7
  <2>2. stage' = "over" /\ ruling' = how /\ look' = l /\ task' = task BY <2>1 DEF Accept
  <2>3. EvidenceTypeOK'
    <3> HIDE DEF l
    <3> QED BY <1>1, <1>3, <2>2, EvidenceParts DEF EvidenceTypeOK
  <2> HIDE DEF EvidenceInv
  <2>4. RecordsFit' BY <1>1, <2>2, SameRecords
  <2>5. LookFits' BY <2>2, NoneRead DEF Checking
  <2>6. WorkRests' BY <1>1, <1>7, <2>2, AcceptedRests
  <2>7. EffectsAreSettled' BY <1>1, <1>7, <2>2, AcceptedSettles
  <2>8. RulingFits' BY <2>2, <2>6, <2>7 DEF RulingFits
  <2> QED BY <2>3, <2>4, <2>5, <2>8, KeptTogether
<1> QED BY <1>2, <1>4, <1>5, <1>6, <1>7

-----------------------------------------------------------------------------
(* Steps that write a record. *)

LEMMA AppendRows ==
  ASSUME NEW ts \in Seq(Trials), NEW t \in Trials
  PROVE  /\ Append(ts, t) \in Seq(Trials) /\ Len(Append(ts, t)) = Len(ts) + 1 /\ Len(ts) \in Nat
         /\ DOMAIN ts = 1..Len(ts) /\ DOMAIN Append(ts, t) = DOMAIN ts \cup {Len(ts) + 1}
         /\ Len(ts) + 1 \notin DOMAIN ts
         /\ Append(ts, t)[Len(ts) + 1] = t /\ \A i \in DOMAIN ts : Append(ts, t)[i] = ts[i]
         /\ \A i \in DOMAIN Append(ts, t) : i <= Len(ts) + 1
<1>1. Append(ts, t) \in Seq(Trials) /\ Len(Append(ts, t)) = Len(ts) + 1 /\ Len(ts) \in Nat OBVIOUS
<1>2. DOMAIN ts = 1..Len(ts) /\ DOMAIN Append(ts, t) = 1..(Len(ts) + 1) BY <1>1
<1>3. Append(ts, t)[Len(ts) + 1] = t /\ \A i \in 1..Len(ts) : Append(ts, t)[i] = ts[i] OBVIOUS
<1> DEFINE u == Append(ts, t)
<1> DEFINE n == Len(ts)
<1> HIDE DEF u, n
<1>4. /\ DOMAIN u = DOMAIN ts \cup {n + 1} /\ n + 1 \notin DOMAIN ts /\ \A i \in DOMAIN u : i <= n + 1
  <2>1. n \in Nat /\ DOMAIN ts = 1..n /\ DOMAIN u = 1..(n + 1) BY <1>1, <1>2 DEF u, n
  <2> QED BY <2>1
<1> QED BY <1>1, <1>2, <1>3, <1>4 DEF u, n

LEMMA StampsAdd ==
  ASSUME NEW a \in Nat, NEW b \in Nat, NEW s1 \in Nat, NEW s2 \in Nat, NEW v1 \in Nat, NEW v2 \in Nat,
         a <= s1, s1 + b <= v1 + a, s1 <= s2, s2 + v1 <= v2 + s1
  PROVE  a <= s2 /\ s2 + b <= v2 + a
OBVIOUS

LEMMA StampsRise ==
  ASSUME NEW a \in Nat, NEW b \in Nat, NEW s \in Nat, NEW v \in Nat, a <= s, s + b <= v + a
  PROVE  a <= s + 1 /\ s + 1 + b <= v + 1 + a
OBVIOUS

\* The record that every record is made from.
LEMMA BlankTrial ==
  /\ Unread \in Digest
  /\ \E p \in Past : NewTrial = [of |-> p, began |-> FALSE, how |-> "none", says |-> "unknown", base |-> Unread,
                                 changed |-> "unset", version |-> 0, managed |-> FALSE, guarded |-> FALSE,
                                 was |-> p, new |-> p, kept |-> FALSE, end |-> Unread, stamp |-> 0]
<1>1. Unread \in Digest BY DEF Digest, Contents
<1>2. "" \in Past BY DEF Past
<1> QED BY <1>1, <1>2 DEF NewTrial

\* A record is added to those of a run that is at work.
LEMMA RecordAdded ==
  ASSUME EvidenceInv, stage = "work", NEW t \in Trials, RowFits(t), trials' = Append(trials, t), task' \in Tasks,
         task'.issue = task.issue, stage' \in {"work", "running", "asked"}, t.changed = "unset",
         t.managed => t.how = "none",
         t.began \/ (stage' = "asked" /\ t.stamp = stamp'), stage' = "asked" => ~t.began,
         stamp' \in Nat, stamp <= stamp', task.version \in Nat, stamp' + task.version <= task'.version + stamp,
         t.of \in Command /\ t.began => t.stamp = stamp' /\ t.version = task'.version,
         \A f \in task'.unsure \cap File : IF f \in task.unsure THEN t.of # f ELSE t.of = f /\ ~t.kept
  PROVE  RecordsFit'
<1>0. /\ trials \in Seq(Trials) /\ trials' \in Seq(Trials) /\ Len(trials') = Len(trials) + 1 /\ Len(trials) \in Nat
      /\ DOMAIN trials' = DOMAIN trials \cup {Len(trials) + 1} /\ Len(trials) + 1 \notin DOMAIN trials
      /\ trials'[Len(trials) + 1] = t /\ \A i \in DOMAIN trials : trials'[i] = trials[i]
      /\ \A i \in DOMAIN trials' : i <= Len(trials) + 1
  <2>1. trials \in Seq(Trials) BY EvidenceParts
  <2> HIDE DEF EvidenceInv
  <2> QED BY <2>1, AppendRows
<1> DEFINE n == Len(trials) + 1
<1> HIDE DEF n
<1>1. /\ n = Len(trials') /\ DOMAIN trials' = DOMAIN trials \cup {n} /\ n \notin DOMAIN trials
      /\ trials'[n] = t /\ \A i \in DOMAIN trials : trials'[i] = trials[i]
      /\ \A i \in DOMAIN trials' : i <= n
  BY <1>0 DEF n
<1>2. \A i \in DOMAIN trials : trials[i] \in Trials /\ RowFits(trials[i]) BY RowTyped
<1>3. \A i \in DOMAIN trials : trials[i].began BY DEF EvidenceInv, AskFits
<1>4. RowsFit'
  <2> SUFFICES ASSUME NEW i \in DOMAIN trials' PROVE RowFits(trials'[i]) BY DEF RowsFit
  <2> HIDE DEF EvidenceInv
  <2> QED BY <1>1, <1>2
<1>5. AskFits'
  <2>1. \A i \in DOMAIN trials' : ~trials'[i].began => stage' = "asked" /\ i = Len(trials') BY <1>1, <1>3
  <2>2. stage' = "asked" => trials' # <<>> /\ ~trials'[Len(trials')].began /\ trials'[Len(trials')].stamp = stamp'
    <3>1. trials' # <<>> BY <1>0, <1>1
    <3> HIDE DEF EvidenceInv
    <3> QED BY <1>1, <3>1
  <2> QED BY <2>1, <2>2 DEF AskFits
<1>6. EndsSeen'
  <2>1. \A i \in DOMAIN trials : ~(trials[i].managed /\ trials[i].how # "none" /\ trials[i].changed = "unset")
    BY DEF EvidenceInv, EndsSeen
  <2> HIDE DEF EvidenceInv
  <2> QED BY <1>1, <2>1 DEF EndsSeen
<1>7. StampsFit(trials, task.version)'
  <2> SUFFICES ASSUME NEW i \in DOMAIN trials', trials'[i].of \in Command, trials'[i].began
               PROVE  trials'[i].stamp <= stamp' /\ stamp' + trials'[i].version <= task'.version + trials'[i].stamp
    BY DEF StampsFit
  <2>1. CASE i = n
    <3>1. t.stamp = stamp' /\ t.version = task'.version BY <1>1, <2>1
    <3>2. t.stamp \in Nat /\ t.version \in Nat BY DEF Trials
    <3> HIDE DEF EvidenceInv
    <3> QED BY <1>1, <2>1, <3>1, <3>2
  <2>2. CASE i # n
    <3>1. i \in DOMAIN trials /\ trials'[i] = trials[i] BY <1>1, <2>2
    <3>2. trials[i].stamp <= stamp /\ stamp + trials[i].version <= task.version + trials[i].stamp
      BY <3>1 DEF EvidenceInv, StampsFit
    <3>3. trials[i].stamp \in Nat /\ trials[i].version \in Nat /\ stamp \in Nat /\ task'.version \in Nat
      BY <1>2, <3>1, EvidenceParts DEF Trials, Tasks
    <3> DEFINE p == trials[i].stamp
    <3> DEFINE q == trials[i].version
    <3> HIDE DEF EvidenceInv
    <3>4. trials[i].stamp <= stamp' /\ stamp' + trials[i].version <= task'.version + trials[i].stamp
      <4> DEFINE v1 == task.version
      <4> DEFINE v2 == task'.version
      <4> DEFINE s2 == stamp'
      <4>1. p \in Nat /\ q \in Nat /\ p <= stamp /\ stamp + q <= v1 + p BY <3>2, <3>3
      <4>2. stamp \in Nat /\ s2 \in Nat /\ v1 \in Nat /\ v2 \in Nat /\ stamp <= s2 /\ s2 + v1 <= v2 + stamp
        BY <1>2, <3>3
      <4> HIDE DEF p, q, v1, v2, s2
      <4>3. p <= s2 /\ s2 + q <= v2 + p BY <4>1, <4>2
      <4> QED BY <4>3 DEF p, q, v2, s2
    <3> QED BY <3>1, <3>4
  <2> QED BY <2>1, <2>2
<1>8. IssueFits(trials, task.issue)'
  <2>1. IssueFits(trials, task.issue) BY DEF EvidenceInv
  <2> HIDE DEF EvidenceInv
  <2>2. CASE task.issue = "none" BY <1>1, <2>1, <2>2 DEF IssueFits
  <2>3. CASE task.issue # "none" BY <1>1, <2>1, <2>3 DEF IssueFits
  <2> QED BY <2>2, <2>3
<1>9. UnsureFits'
  <2> SUFFICES ASSUME NEW f \in task'.unsure \cap File
               PROVE  \E i \in DOMAIN trials' : trials'[i].of = f /\ LastOf(trials', i) /\ ~trials'[i].kept
    BY DEF UnsureFits
  <2>1. CASE f \in task.unsure
    <3>1. PICK i \in DOMAIN trials : trials[i].of = f /\ LastOf(trials, i) /\ ~trials[i].kept
      BY <2>1 DEF EvidenceInv, UnsureFits
    <3>2. t.of # f BY <2>1
    <3> HIDE DEF EvidenceInv
    <3>3. LastOf(trials', i) BY <1>1, <3>1, <3>2 DEF LastOf
    <3> QED BY <1>1, <3>1, <3>3
  <2>2. CASE f \notin task.unsure
    <3>1. t.of = f /\ ~t.kept BY <2>2
    <3> HIDE DEF EvidenceInv
    <3>2. LastOf(trials', n) BY <1>1 DEF LastOf
    <3> QED BY <1>1, <3>1, <3>2
  <2> QED BY <2>1, <2>2
<1> QED BY <1>4, <1>5, <1>6, <1>7, <1>8, <1>9 DEF RecordsFit

LEMMA WriteKeeps ==
  ASSUME EvidenceInv, NEW f \in File, NEW c \in Content, NEW how \in {"applied", "conflicted", "unknown"}, Write(f, c, how)
  PROVE  EvidenceInv'
<1> DEFINE kept == how = "applied"
<1> DEFINE v == task.version + 1
<1> DEFINE w == disk[f]
<1> DEFINE t == [NewTrial EXCEPT !.of = f, !.began = TRUE, !.how = how, !.was = w, !.new = c, !.version = v,
                                 !.kept = kept]
<1> DEFINE u == IF how = "unknown" THEN task.unsure \cup {f} ELSE task.unsure
<1>1. /\ stage = "work" /\ stage' = stage /\ look' = look /\ ruling' = ruling /\ changes' = changes /\ stamp' = stamp + 1
      /\ trials' = Append(trials, t) /\ f \notin task.unsure
      /\ disk' \in {disk, [disk EXCEPT ![f] = c]} /\ task' = [task EXCEPT !.version = v, !.unsure = u]
  BY DEF Write, MayAct, MayWrite, Overlaps
<1>2. /\ disk \in [File -> Contents] /\ task \in Tasks /\ task.version \in Nat /\ v \in Nat /\ w \in Contents
      /\ u \in SUBSET (File \cup {"command"}) /\ kept \in BOOLEAN /\ stamp \in Nat /\ v = task.version + 1
      /\ trials \in Seq(Trials)
  BY EvidenceParts DEF Tasks
<1>3. disk' \in [File -> Contents] BY <1>1, <1>2 DEF Contents
<1>4. \A g \in u \cap File : IF g \in task.unsure THEN g # f ELSE g = f /\ how = "unknown"
  BY <1>1
<1>5. t \in Trials /\ t.of = f /\ t.began /\ ~t.managed /\ RowFits(t) /\ t.changed = "unset" /\ t.kept = kept
  <2>1. t.changed = "unset" BY DEF NewTrial
  <2> HIDE DEF EvidenceInv, kept, v, w
  <2>2. t \in Trials
    <3>1. c \in Past /\ w \in Past /\ v \in Nat /\ kept \in BOOLEAN BY <1>2 DEF Past, Contents
    <3>2. PICK p \in Past : NewTrial = [of |-> p, began |-> FALSE, how |-> "none", says |-> "unknown", base |-> Unread,
                                    changed |-> "unset", version |-> 0, managed |-> FALSE, guarded |-> FALSE,
                                    was |-> p, new |-> p, kept |-> FALSE, end |-> Unread, stamp |-> 0]
      BY BlankTrial
    <3> QED BY <3>1, <3>2, BlankTrial DEF Trials
  <2>3. t.of = f /\ t.began /\ t.how = how /\ ~t.managed /\ ~t.guarded /\ t.kept = kept /\ t.was = w
    BY DEF NewTrial
  <2> HIDE DEF t
  <2>4. RowFits(t) BY <1>2, <2>1, <2>3, EvidenceShape DEF RowFits
  <2> QED BY <2>1, <2>2, <2>3, <2>4
<1>6. how = "unknown" => ~kept OBVIOUS
<1> HIDE DEF t, v, u, kept
<1>7. /\ task' \in Tasks /\ task'.version = v /\ task'.unsure = u /\ task'.issue = task.issue
  BY <1>1, <1>2 DEF Tasks
<1>8. trials' \in Seq(Trials) BY <1>1, <1>2, <1>5, AppendRows
<1>9. stamp' \in Nat BY <1>1, <1>2
<1>10. EvidenceTypeOK' BY <1>1, <1>3, <1>7, <1>8, <1>9 DEF EvidenceInv, EvidenceTypeOK
<1>11. ruling' = "none" BY <1>1, NoRuling
<1> HIDE DEF EvidenceInv
<1>12. RecordsFit'
  <2>1. stamp <= stamp' /\ stamp' + task.version <= task'.version + stamp BY <1>1, <1>2, <1>7, <1>9
  <2>2. \A g \in task'.unsure \cap File : IF g \in task.unsure THEN t.of # g ELSE t.of = g /\ ~t.kept
    BY <1>4, <1>5, <1>6, <1>7
  <2>3. t.of \notin Command BY <1>5, EvidenceShape
  <2> QED BY <1>1, <1>2, <1>5, <1>7, <1>9, <2>1, <2>2, <2>3, RecordAdded
<1>13. LookFits' BY <1>1, NoneRead DEF Checking
<1>14. RulingFits' BY <1>11, NotAccepted
<1> QED BY <1>10, <1>12, <1>13, <1>14, KeptTogether

LEMMA RunCommandKeeps == ASSUME EvidenceInv, NEW c \in Command, RunCommand(c) PROVE EvidenceInv'
<1> DEFINE b == Scanned
<1> DEFINE g == task.scoped
<1> DEFINE v == task.version
<1> DEFINE t == [NewTrial EXCEPT !.of = c, !.began = TRUE, !.base = b, !.guarded = g, !.version = v, !.stamp = stamp]
<1>1. /\ stage = "work" /\ stage' = "running" /\ look' = look /\ ruling' = ruling /\ changes' = changes /\ stamp' = stamp
      /\ disk' = disk /\ task' = task /\ trials' = Append(trials, t) /\ v = task.version
  BY DEF RunCommand, MayAct
<1>2. /\ b \in Digest /\ g \in BOOLEAN /\ v \in Nat /\ stamp \in Nat /\ trials \in Seq(Trials) /\ task \in Tasks
  BY EvidenceParts, ScannedTyped DEF Tasks
<1> HIDE DEF b, g, v
<1>3. t \in Trials
  <2>1. PICK p \in Past : NewTrial = [of |-> p, began |-> FALSE, how |-> "none", says |-> "unknown", base |-> Unread,
                                  changed |-> "unset", version |-> 0, managed |-> FALSE, guarded |-> FALSE,
                                  was |-> p, new |-> p, kept |-> FALSE, end |-> Unread, stamp |-> 0]
    BY BlankTrial
  <2>2. b \in Digest /\ g \in BOOLEAN /\ v \in Nat /\ stamp \in Nat BY <1>2
  <2> QED BY <2>1, <2>2, BlankTrial DEF Trials
<1>4. /\ t.of = c /\ t.began /\ t.how = "none" /\ t.changed = "unset" /\ t.version = v /\ t.stamp = stamp /\ ~t.managed
  BY DEF NewTrial
<1> HIDE DEF t
<1>5. RowFits(t) BY <1>4, EvidenceShape DEF RowFits
<1>6. trials' \in Seq(Trials) BY <1>1, <1>2, <1>3, AppendRows
<1>7. EvidenceTypeOK' BY <1>1, <1>6 DEF EvidenceInv, EvidenceTypeOK
<1>8. ruling' = "none" BY <1>1, NoRuling
<1> HIDE DEF EvidenceInv
<1>9. RecordsFit'
  <2>1. stamp <= stamp' /\ stamp' + task.version <= task'.version + stamp /\ task.version \in Nat BY <1>1, <1>2 DEF Tasks
  <2>2. \A f \in task'.unsure \cap File : IF f \in task.unsure THEN t.of # f ELSE t.of = f /\ ~t.kept
    BY <1>1, <1>4, EvidenceShape
  <2>3. stage' \in {"work", "running", "asked"} /\ stamp' \in Nat /\ task' \in Tasks BY <1>1, <1>2
  <2>4. t.of \in Command /\ t.began => t.stamp = stamp' /\ t.version = task'.version BY <1>1, <1>4
  <2> QED BY <1>1, <1>2, <1>3, <1>4, <1>5, <2>1, <2>2, <2>3, <2>4, RecordAdded
<1>10. LookFits' BY <1>1, NoneRead DEF Checking
<1>11. RulingFits' BY <1>8, NotAccepted
<1> QED BY <1>7, <1>9, <1>10, <1>11, KeptTogether

LEMMA AskCommandKeeps == ASSUME EvidenceInv, NEW c \in Command, AskCommand(c) PROVE EvidenceInv'
<1> DEFINE g == task.scoped
<1> DEFINE t == [NewTrial EXCEPT !.of = c, !.managed = TRUE, !.base = disk, !.guarded = g, !.stamp = stamp]
<1>1. /\ stage = "work" /\ stage' = "asked" /\ look' = look /\ ruling' = ruling /\ changes' = changes /\ stamp' = stamp
      /\ disk' = disk /\ task' = task /\ trials' = Append(trials, t)
  BY DEF AskCommand, MayAct
<1>2. /\ disk \in Digest /\ g \in BOOLEAN /\ task.version \in Nat /\ stamp \in Nat /\ trials \in Seq(Trials) /\ task \in Tasks
  BY EvidenceParts, ScannedTyped DEF Tasks
<1> HIDE DEF g
<1>3. t \in Trials
  <2>1. PICK p \in Past : NewTrial = [of |-> p, began |-> FALSE, how |-> "none", says |-> "unknown", base |-> Unread,
                                  changed |-> "unset", version |-> 0, managed |-> FALSE, guarded |-> FALSE,
                                  was |-> p, new |-> p, kept |-> FALSE, end |-> Unread, stamp |-> 0]
    BY BlankTrial
  <2>2. disk \in Digest /\ g \in BOOLEAN /\ stamp \in Nat BY <1>2
  <2> QED BY <2>1, <2>2, BlankTrial DEF Trials
<1>4. /\ t.of = c /\ ~t.began /\ t.how = "none" /\ t.changed = "unset" /\ t.stamp = stamp
  BY DEF NewTrial
<1> HIDE DEF t
<1>5. RowFits(t) BY <1>4, EvidenceShape DEF RowFits
<1>6. trials' \in Seq(Trials) BY <1>1, <1>2, <1>3, AppendRows
<1>7. EvidenceTypeOK' BY <1>1, <1>6 DEF EvidenceInv, EvidenceTypeOK
<1>8. ruling' = "none" BY <1>1, NoRuling
<1> HIDE DEF EvidenceInv
<1>9. RecordsFit'
  <2>1. stamp <= stamp' /\ stamp' + task.version <= task'.version + stamp /\ task.version \in Nat BY <1>1, <1>2 DEF Tasks
  <2>2. \A f \in task'.unsure \cap File : IF f \in task.unsure THEN t.of # f ELSE t.of = f /\ ~t.kept
    BY <1>1, <1>4, EvidenceShape
  <2>3. stage' \in {"work", "running", "asked"} /\ stamp' \in Nat /\ task' \in Tasks BY <1>1, <1>2
  <2>4. t.of \in Command /\ t.began => t.stamp = stamp' /\ t.version = task'.version BY <1>1, <1>4
  <2> QED BY <1>1, <1>2, <1>3, <1>4, <1>5, <2>1, <2>2, <2>3, <2>4, RecordAdded
<1>10. LookFits' BY <1>1, NoneRead DEF Checking
<1>11. RulingFits' BY <1>8, NotAccepted
<1> QED BY <1>7, <1>9, <1>10, <1>11, KeptTogether

LEMMA RowReplaced ==
  ASSUME NEW ts \in Seq(Trials), NEW n \in DOMAIN ts, NEW u \in Trials
  PROVE  /\ [ts EXCEPT ![n] = u] \in Seq(Trials) /\ DOMAIN [ts EXCEPT ![n] = u] = DOMAIN ts
         /\ Len([ts EXCEPT ![n] = u]) = Len(ts)
         /\ [ts EXCEPT ![n] = u][n] = u /\ \A i \in DOMAIN ts : i # n => [ts EXCEPT ![n] = u][i] = ts[i]
OBVIOUS

LEMMA LastRow ==
  ASSUME EvidenceInv, trials # <<>>
  PROVE  Len(trials) \in DOMAIN trials /\ Last(trials) = trials[Len(trials)] /\ \A i \in DOMAIN trials : i <= Len(trials)
<1>1. trials \in Seq(Trials) /\ DOMAIN trials = 1..Len(trials) /\ Len(trials) \in Nat BY EvidenceParts
<1> HIDE DEF EvidenceInv
<1>2. Len(trials) # 0 BY <1>1
<1> QED BY <1>1, <1>2 DEF Last

\* The command that was asked about is started, and its record is the last one.
LEMMA StartedKeeps ==
  ASSUME EvidenceInv, stage = "asked", stage' = "work", UNCHANGED <<disk, task, look, ruling, changes, stamp>>,
         trials' = [trials EXCEPT ![Len(trials)].began = TRUE, ![Len(trials)].version = task.version]
  PROVE  EvidenceInv'
<1> DEFINE n == Len(trials)
<1> DEFINE v == task.version
<1>1. n \in DOMAIN trials /\ ~trials[n].began /\ trials[n].stamp = stamp /\ trials[n] \in Trials /\ RowFits(trials[n])
  <2>1. trials # <<>> /\ ~trials[n].began /\ trials[n].stamp = stamp BY DEF EvidenceInv, AskFits
  <2>2. n \in DOMAIN trials BY <2>1, LastRow
  <2> QED BY <2>1, <2>2, RowTyped
<1>2. v \in Nat /\ stamp \in Nat /\ trials \in Seq(Trials) /\ v = task.version BY EvidenceParts DEF Tasks
<1>3. trials' = [trials EXCEPT ![n].began = TRUE, ![n].version = v] OBVIOUS
<1>4. \A i \in DOMAIN trials : i # n => trials[i].began BY DEF EvidenceInv, AskFits
<1> HIDE DEF n, v
<1> DEFINE r == trials[n]
<1> DEFINE r1 == [r EXCEPT !.began = TRUE]
<1> DEFINE ts == [trials EXCEPT ![n] = r1]
<1> DEFINE u == [r1 EXCEPT !.version = v]
<1>a. r \in Trials /\ r1 \in Trials /\ u \in Trials BY <1>1, <1>2 DEF Trials
<1>b. /\ u.began /\ u.version = v /\ u.of = r.of /\ u.how = r.how /\ u.was = r.was
      /\ u.changed = r.changed /\ u.stamp = r.stamp /\ u.kept = r.kept /\ u.guarded = r.guarded /\ u.managed = r.managed
      /\ u.base = r.base /\ u.end = r.end
  BY <1>a DEF Trials
<1>c. /\ ts \in Seq(Trials) /\ DOMAIN ts = DOMAIN trials /\ ts[n] = r1
      /\ \A i \in DOMAIN trials : i # n => ts[i] = trials[i]
  <2> HIDE DEF r1, EvidenceInv
  <2> QED BY <1>1, <1>2, <1>a, RowReplaced
<1>d. trials' = [ts EXCEPT ![n] = u]
  <2>1. trials' = [ts EXCEPT ![n].version = v] BY <1>3
  <2> HIDE DEF r1, ts, EvidenceInv
  <2> QED BY <1>c, <2>1
<1> HIDE DEF u
<1>5. /\ trials' \in Seq(Trials) /\ DOMAIN trials' = DOMAIN trials /\ trials'[n] = u
      /\ \A i \in DOMAIN trials : i # n => trials'[i] = trials[i]
  <2> HIDE DEF r1, ts, EvidenceInv
  <2>1. n \in DOMAIN ts /\ ts \in Seq(Trials) /\ u \in Trials BY <1>1, <1>a, <1>c
  <2>2. /\ [ts EXCEPT ![n] = u] \in Seq(Trials) /\ DOMAIN [ts EXCEPT ![n] = u] = DOMAIN ts
        /\ [ts EXCEPT ![n] = u][n] = u /\ \A i \in DOMAIN ts : i # n => [ts EXCEPT ![n] = u][i] = ts[i]
    BY <2>1, RowReplaced
  <2> QED BY <1>c, <1>d, <2>2
<1>6. /\ trials'[n].began /\ trials'[n].version = v /\ trials'[n].of = trials[n].of /\ trials'[n].how = trials[n].how
      /\ trials'[n].was = trials[n].was
      /\ trials'[n].changed = trials[n].changed /\ trials'[n].stamp = trials[n].stamp /\ trials'[n].kept = trials[n].kept
      /\ trials'[n].guarded = trials[n].guarded /\ trials'[n].managed = trials[n].managed
      /\ trials'[n].base = trials[n].base /\ trials'[n].end = trials[n].end
  BY <1>5, <1>b
<1> HIDE DEF r, r1, ts
<1>7. trials[n].of \in Command /\ trials[n].how = "none" /\ trials[n].changed = "unset" BY <1>1 DEF RowFits
<1>8. EvidenceTypeOK' BY <1>5 DEF EvidenceInv, EvidenceTypeOK
<1>9. RowsFit'
  <2>1. RowFits(trials'[n]) BY <1>6, <1>7, EvidenceShape DEF RowFits
  <2> QED BY <1>5, <2>1, RowTyped DEF RowsFit
<1>10. AskFits' BY <1>4, <1>5, <1>6 DEF AskFits
<1>11. EndsSeen'
  <2>1. \A i \in DOMAIN trials : ~(trials[i].managed /\ trials[i].how # "none" /\ trials[i].changed = "unset")
    BY DEF EvidenceInv, EndsSeen
  <2> HIDE DEF EvidenceInv
  <2> QED BY <1>5, <1>6, <1>7, <2>1 DEF EndsSeen
<1>12. StampsFit(trials, task.version)'
  <2>1. StampsFit(trials, task.version) BY DEF EvidenceInv
  <2> HIDE DEF EvidenceInv
  <2> SUFFICES ASSUME NEW i \in DOMAIN trials, trials'[i].of \in Command, trials'[i].began
               PROVE  trials'[i].stamp <= stamp /\ stamp + trials'[i].version <= task.version + trials'[i].stamp
    BY <1>5 DEF StampsFit
  <2>2. CASE i = n
    <3>1. trials'[i].stamp = stamp /\ trials'[i].version = task.version BY <1>1, <1>2, <1>6, <2>2
    <3> QED BY <1>2, <3>1
  <2>3. CASE i # n BY <1>5, <2>1, <2>3 DEF StampsFit
  <2> QED BY <2>2, <2>3
<1>13. IssueFits(trials, task.issue)'
  <2>1. IssueFits(trials, task.issue) BY DEF EvidenceInv
  <2> HIDE DEF EvidenceInv
  <2>2. CASE task.issue = "none" BY <1>5, <1>6, <1>7, <2>1, <2>2 DEF IssueFits
  <2>3. CASE task.issue # "none" BY <1>1, <1>5, <2>1, <2>3 DEF IssueFits
  <2> QED BY <2>2, <2>3
<1>14. UnsureFits'
  <2>1. UnsureFits BY DEF EvidenceInv
  <2>2. \A i \in DOMAIN trials : trials'[i].of = trials[i].of /\ trials'[i].kept = trials[i].kept BY <1>5, <1>6
  <2> HIDE DEF EvidenceInv
  <2>3. \A i \in DOMAIN trials : LastOf(trials, i) => LastOf(trials', i) BY <1>5, <2>2 DEF LastOf
  <2>4. task'.unsure = task.unsure OBVIOUS
  <2> SUFFICES ASSUME NEW f \in task'.unsure \cap File
               PROVE  \E i \in DOMAIN trials' : trials'[i].of = f /\ LastOf(trials', i) /\ ~trials'[i].kept
    BY DEF UnsureFits
  <2>5. PICK i \in DOMAIN trials : trials[i].of = f /\ LastOf(trials, i) /\ ~trials[i].kept BY <2>1, <2>4 DEF UnsureFits
  <2> QED BY <1>5, <2>2, <2>3, <2>5
<1>15. ruling' = "none" BY NoRuling
<1> HIDE DEF EvidenceInv
<1>16. RecordsFit' BY <1>9, <1>10, <1>11, <1>12, <1>13, <1>14 DEF RecordsFit
<1>17. LookFits' BY NoneRead DEF Checking
<1>18. RulingFits' BY <1>15, NotAccepted
<1> QED BY <1>8, <1>16, <1>17, <1>18, KeptTogether

LEMMA StartCommandKeeps == ASSUME EvidenceInv, StartCommand PROVE EvidenceInv'
<1>1. /\ stage = "asked" /\ stage' = "work" /\ UNCHANGED <<disk, task, look, ruling, changes, stamp>>
      /\ \/ trials' = [trials EXCEPT ![Len(trials)].began = TRUE, ![Len(trials)].version = task.version]
         \/ trials' = Front(trials)
  BY DEF StartCommand
<1>2. CASE trials' = [trials EXCEPT ![Len(trials)].began = TRUE, ![Len(trials)].version = task.version]
  <2> HIDE DEF EvidenceInv
  <2> QED BY <1>1, <1>2, StartedKeeps
<1>3. CASE trials' = Front(trials)
  <2>1. trials # <<>> /\ trials \in Seq(Trials) BY <1>1, AskedLast, EvidenceParts
  <2>2. /\ trials' \in Seq(Trials) /\ Len(trials') = Len(trials) - 1
        /\ \A i \in DOMAIN trials' : trials'[i] = trials[i]
    <3> HIDE DEF EvidenceInv
    <3>1. trials' \in Seq(Trials) /\ Len(trials') = Len(trials) - 1 BY <1>3, <2>1, FrontRows
    <3>2. DOMAIN trials' = 1..(Len(trials) - 1) BY <3>1
    <3> QED BY <1>3, <2>1, <3>1, <3>2, FrontRows
  <2>3. EvidenceTypeOK' BY <1>1, <2>2 DEF EvidenceInv, EvidenceTypeOK
  <2>4. ruling' = "none" BY <1>1, NoRuling
  <2> HIDE DEF EvidenceInv
  <2>5. RecordsFit' BY <1>1, <2>2, CutRecords
  <2>6. LookFits' BY <1>1, NoneRead DEF Checking
  <2>7. RulingFits' BY <2>4, NotAccepted
  <2> QED BY <2>3, <2>5, <2>6, <2>7, KeptTogether
<1> QED BY <1>1, <1>2, <1>3

\* A rollback raises the version, and the write that is taken back stays the last.
LEMMA RollbackKeeps == ASSUME EvidenceInv, Rollback PROVE EvidenceInv'
<1> DEFINE n == Len(trials)
<1> DEFINE v == task.version + 1
<1>1. /\ stage = "over" /\ stage' = "over" /\ ruling = "stopped" /\ ruling' = "stopped" /\ look' = look
      /\ changes' = changes /\ stamp' = stamp + 1 /\ trials # <<>>
      /\ disk' = [disk EXCEPT ![Last(trials).of] = Last(trials).was]
      /\ trials' = [trials EXCEPT ![n].kept = FALSE] /\ task' = [task EXCEPT !.version = v]
      /\ Last(trials).kept
  BY DEF Rollback
<1>2. n \in DOMAIN trials /\ Last(trials) = trials[n] /\ trials[n] \in Trials BY <1>1, LastRow, RowTyped
<1>3. /\ disk \in [File -> Contents] /\ task \in Tasks /\ task.version \in Nat /\ v \in Nat /\ stamp \in Nat
      /\ trials \in Seq(Trials) /\ v = task.version + 1
  BY EvidenceParts DEF Tasks
<1> HIDE DEF n, v
<1> DEFINE r == trials[n]
<1> DEFINE u == [r EXCEPT !.kept = FALSE]
<1>a. r \in Trials /\ u \in Trials BY <1>2 DEF Trials
<1>b. /\ ~u.kept /\ u.began = r.began /\ u.version = r.version /\ u.of = r.of /\ u.how = r.how /\ u.was = r.was
      /\ u.changed = r.changed /\ u.stamp = r.stamp /\ u.guarded = r.guarded /\ u.managed = r.managed
      /\ u.base = r.base /\ u.end = r.end
  BY <1>a DEF Trials
<1>c. trials' = [trials EXCEPT ![n] = u] BY <1>1
<1> HIDE DEF u
<1>4. /\ trials' \in Seq(Trials) /\ DOMAIN trials' = DOMAIN trials /\ trials'[n] = u
      /\ \A i \in DOMAIN trials : i # n => trials'[i] = trials[i]
  <2> HIDE DEF EvidenceInv
  <2> QED BY <1>2, <1>3, <1>a, <1>c, RowReplaced
<1>5. \A i \in DOMAIN trials :
        /\ trials'[i].began = trials[i].began /\ trials'[i].version = trials[i].version /\ trials'[i].of = trials[i].of
        /\ trials'[i].how = trials[i].how /\ trials'[i].was = trials[i].was /\ trials'[i].changed = trials[i].changed
        /\ trials'[i].stamp = trials[i].stamp /\ trials'[i].guarded = trials[i].guarded
        /\ trials'[i].managed = trials[i].managed /\ trials'[i].base = trials[i].base /\ trials'[i].end = trials[i].end
        /\ ~trials[i].kept => trials'[i].kept = trials[i].kept
  <2> SUFFICES ASSUME NEW i \in DOMAIN trials
      PROVE /\ trials'[i].began = trials[i].began /\ trials'[i].version = trials[i].version /\ trials'[i].of = trials[i].of
            /\ trials'[i].how = trials[i].how /\ trials'[i].was = trials[i].was /\ trials'[i].changed = trials[i].changed
            /\ trials'[i].stamp = trials[i].stamp /\ trials'[i].guarded = trials[i].guarded
            /\ trials'[i].managed = trials[i].managed /\ trials'[i].base = trials[i].base /\ trials'[i].end = trials[i].end
            /\ ~trials[i].kept => trials'[i].kept = trials[i].kept
    OBVIOUS
  <2>1. CASE i = n
    <3>1. trials[n].kept BY <1>1, <1>2
    <3> QED BY <1>4, <1>b, <2>1, <3>1
  <2>2. CASE i # n
    <3>1. trials'[i] = trials[i] BY <1>4, <2>2
    <3> QED BY <3>1
  <2> QED BY <2>1, <2>2
<1>6. disk' \in [File -> Contents]
  <2>1. CASE trials[n].of \in File
    <3>1. RowFits(trials[n]) BY <1>2, RowTyped
    <3>2. trials[n].was \in Contents BY <2>1, <3>1 DEF RowFits
    <3> HIDE DEF EvidenceInv
    <3> QED BY <1>1, <1>2, <1>3, <3>2
  <2>2. CASE trials[n].of \notin File
    <3> HIDE DEF EvidenceInv
    <3>1. disk' = disk BY <1>1, <1>2, <1>3, <2>2
    <3> QED BY <1>3, <3>1
  <2> QED BY <2>1, <2>2
<1>7. task' \in Tasks /\ task'.version = v /\ task'.issue = task.issue /\ task'.unsure = task.unsure
  BY <1>1, <1>3 DEF Tasks
<1>8. EvidenceTypeOK'
  <2>1. stamp' \in Nat BY <1>1, <1>3
  <2> QED BY <1>1, <1>4, <1>6, <1>7, <2>1 DEF EvidenceInv, EvidenceTypeOK
<1>9. RowsFit'
  <2> SUFFICES ASSUME NEW i \in DOMAIN trials PROVE RowFits(trials'[i]) BY <1>4 DEF RowsFit
  <2>1. RowFits(trials[i]) BY RowTyped
  <2> HIDE DEF EvidenceInv
  <2> QED BY <1>5, <2>1 DEF RowFits
<1>10. AskFits'
  <2>1. \A i \in DOMAIN trials : trials[i].began BY <1>1 DEF EvidenceInv, AskFits
  <2> HIDE DEF EvidenceInv
  <2> QED BY <1>1, <1>4, <1>5, <2>1 DEF AskFits
<1>11. EndsSeen' BY <1>1, <1>4, <1>5 DEF EvidenceInv, EndsSeen
<1>12. StampsFit(trials, task.version)'
  <2> SUFFICES ASSUME NEW i \in DOMAIN trials, trials'[i].of \in Command, trials'[i].began
               PROVE  trials'[i].stamp <= stamp' /\ stamp' + trials'[i].version <= task'.version + trials'[i].stamp
    BY <1>4 DEF StampsFit
  <2>1. trials[i].stamp <= stamp /\ stamp + trials[i].version <= task.version + trials[i].stamp
    BY <1>5 DEF EvidenceInv, StampsFit
  <2>2. trials[i] \in Trials BY RowTyped
  <2> HIDE DEF EvidenceInv
  <2>3. trials[i].stamp \in Nat /\ trials[i].version \in Nat BY <2>2 DEF Trials
  <2>4. trials[i].stamp <= stamp + 1 /\ stamp + 1 + trials[i].version <= task.version + 1 + trials[i].stamp
    BY <1>3, <2>1, <2>3, StampsRise
  <2> QED BY <1>1, <1>3, <1>5, <1>7, <2>4
<1>13. IssueFits(trials, task.issue)'
  <2>1. IssueFits(trials, task.issue) BY DEF EvidenceInv
  <2> HIDE DEF EvidenceInv
  <2>2. CASE task.issue = "none" BY <1>4, <1>5, <1>7, <2>1, <2>2 DEF IssueFits
  <2>3. CASE task.issue # "none" BY <1>4, <1>5, <1>7, <2>1, <2>3 DEF IssueFits
  <2> QED BY <2>2, <2>3
<1>14. UnsureFits'
  <2>1. UnsureFits BY DEF EvidenceInv
  <2> HIDE DEF EvidenceInv
  <2>2. \A i \in DOMAIN trials : LastOf(trials, i) => LastOf(trials', i) BY <1>4, <1>5 DEF LastOf
  <2> QED BY <1>4, <1>5, <1>7, <2>1, <2>2 DEF UnsureFits
<1> HIDE DEF EvidenceInv
<1>15. RecordsFit' BY <1>9, <1>10, <1>11, <1>12, <1>13, <1>14 DEF RecordsFit
<1>16. LookFits' BY <1>1, NoneRead DEF Checking
<1>17. RulingFits' BY <1>1, NotAccepted
<1> QED BY <1>8, <1>15, <1>16, <1>17, KeptTogether

LEMMA LiveRow ==
  ASSUME EvidenceInv, NEW i \in Live
  PROVE  /\ i \in DOMAIN trials /\ trials[i] \in Trials /\ RowFits(trials[i]) /\ trials[i].began /\ trials[i].how = "none"
         /\ trials[i].changed = "unset" /\ trials[i].of \in Command
<1>1. i \in DOMAIN trials /\ trials[i].began /\ trials[i].how = "none" BY DEF Live
<1>2. trials[i] \in Trials /\ RowFits(trials[i]) BY <1>1, RowTyped
<1> HIDE DEF EvidenceInv
<1>3. trials[i].of \in Command BY <1>1, <1>2 DEF RowFits, Trials
<1> QED BY <1>1, <1>2, <1>3 DEF RowFits

\* The end of a command gives its record a result, and the task what follows from it.
LEMMA EndedRow ==
  ASSUME EvidenceInv, NEW i \in Live, NEW how \in {"exited", "stopped", "unknown"},
         NEW says \in {"succeeded", "failed", "unknown"}, Ended(i, how, says)
  PROVE  /\ trials' \in Seq(Trials) /\ DOMAIN trials' = DOMAIN trials /\ Len(trials') = Len(trials)
         /\ \A k \in DOMAIN trials : k # i => trials'[k] = trials[k]
         /\ trials'[i].of = trials[i].of /\ trials'[i].began /\ trials'[i].how = how /\ trials'[i].base = trials[i].base
         /\ trials'[i].version = trials[i].version /\ trials'[i].stamp = trials[i].stamp
         /\ trials'[i].managed = trials[i].managed /\ trials'[i].guarded = trials[i].guarded
         /\ trials'[i].kept = trials[i].kept /\ trials'[i].was = trials[i].was
         /\ trials'[i].end = disk
         /\ trials'[i].changed = IF ~LooksAfter(trials[i], how) THEN "unset"
                                 ELSE IF Changed(trials[i], Scanned) THEN "yes" ELSE "no"
         /\ task' \in Tasks /\ task.version <= task'.version /\ task'.unsure \cap File = task.unsure \cap File
         /\ task'.issue = IF LooksAfter(trials[i], how) /\ ScopeCheck(trials[i], Scanned) # "none"
                          THEN ScopeCheck(trials[i], Scanned) ELSE task.issue
<1> DEFINE t == trials[i]
<1> DEFINE looks == LooksAfter(t, how)
<1> DEFINE breach == ScopeCheck(t, Scanned)
<1> DEFINE g == IF ~looks THEN "unset" ELSE IF Changed(t, Scanned) THEN "yes" ELSE "no"
<1> DEFINE u == [t EXCEPT !.how = how, !.says = says, !.end = disk, !.changed = g]
<1> DEFINE v == IF looks /\ Changed(t, Scanned) THEN task.version + 1 ELSE task.version
<1> DEFINE q == IF looks /\ breach # "none" THEN breach ELSE task.issue
<1> DEFINE x == IF how = "unknown" THEN task.unsure \cup {"command"} ELSE task.unsure
<1>1. trials' = [trials EXCEPT ![i] = u] /\ task' = [task EXCEPT !.version = v, !.issue = q, !.unsure = x]
  BY DEF Ended
<1>2. /\ t \in Trials /\ t.began /\ i \in DOMAIN trials /\ trials \in Seq(Trials) /\ task \in Tasks /\ disk \in Digest
  BY LiveRow, EvidenceParts, ScannedTyped
<1>3. g \in {"unset", "yes", "no"} OBVIOUS
<1>4. task.version \in Nat /\ task.issue \in {"none", "unverified", "violated"} /\ task.unsure \subseteq File \cup {"command"}
  BY <1>2 DEF Tasks
<1>5. v \in Nat /\ task.version <= v BY <1>4
<1>6. q \in {"none", "unverified", "violated"} BY <1>4 DEF ScopeCheck
<1>7. x \subseteq File \cup {"command"} /\ x \cap File = task.unsure \cap File BY <1>4, EvidenceShape
<1> HIDE DEF EvidenceInv
<1>8. u \in Trials /\ u.of = t.of /\ u.began = t.began /\ u.how = how /\ u.base = t.base /\ u.version = t.version
      /\ u.stamp = t.stamp /\ u.managed = t.managed /\ u.guarded = t.guarded /\ u.kept = t.kept /\ u.was = t.was
      /\ u.end = disk /\ u.changed = g
  <2> HIDE DEF g, t
  <2>0. t \in Trials /\ disk \in Digest BY <1>2
  <2>1. u \in Trials BY <1>3, <2>0 DEF Trials
  <2>2. /\ u.of = t.of /\ u.began = t.began /\ u.base = t.base /\ u.version = t.version
        /\ u.stamp = t.stamp /\ u.managed = t.managed /\ u.guarded = t.guarded /\ u.kept = t.kept /\ u.was = t.was
    BY <1>2 DEF Trials
  <2>3. u.how = how /\ u.end = disk /\ u.changed = g BY <1>2 DEF Trials
  <2> QED BY <2>1, <2>2, <2>3
<1>9. task' \in Tasks /\ task'.version = v /\ task'.issue = q /\ task'.unsure = x
  <2> HIDE DEF v, q, x
  <2> QED BY <1>1, <1>2, <1>5, <1>6, <1>7 DEF Tasks
<1>10. /\ trials' \in Seq(Trials) /\ DOMAIN trials' = DOMAIN trials /\ Len(trials') = Len(trials) /\ trials'[i] = u
       /\ \A k \in DOMAIN trials : k # i => trials'[k] = trials[k]
  <2> HIDE DEF u
  <2> QED BY <1>1, <1>2, <1>8, RowReplaced
<1> HIDE DEF u, v, x
<1> QED BY <1>2, <1>5, <1>7, <1>8, <1>9, <1>10

LEMMA EndCommandKeeps ==
  ASSUME EvidenceInv, NEW i \in Live, NEW how \in {"exited", "stopped", "unknown"},
         NEW says \in {"succeeded", "failed", "unknown"}, EndCommand(i, how, says)
  PROVE  EvidenceInv'
<1> DEFINE t == trials[i]
<1> DEFINE looks == LooksAfter(t, how)
<1>1. /\ stage # "over" /\ Ended(i, how, says) /\ disk' = disk /\ look' = look /\ ruling' = ruling /\ changes' = changes
      /\ stamp' = stamp /\ stage' \in {stage, "work"} /\ (stage' # stage => stage = "running")
  BY DEF EndCommand
<1>2. /\ i \in DOMAIN trials /\ t \in Trials /\ RowFits(t) /\ t.began /\ t.how = "none"
      /\ t.changed = "unset" /\ t.of \in Command
  BY LiveRow
<1>3. /\ trials' \in Seq(Trials) /\ DOMAIN trials' = DOMAIN trials /\ Len(trials') = Len(trials)
      /\ \A k \in DOMAIN trials : k # i => trials'[k] = trials[k]
      /\ trials'[i].of = t.of /\ trials'[i].began /\ trials'[i].how = how /\ trials'[i].base = t.base
      /\ trials'[i].version = t.version /\ trials'[i].stamp = t.stamp
      /\ trials'[i].managed = t.managed /\ trials'[i].guarded = t.guarded
      /\ trials'[i].kept = t.kept /\ trials'[i].was = t.was
      /\ trials'[i].end = disk
      /\ trials'[i].changed = IF ~looks THEN "unset" ELSE IF Changed(t, Scanned) THEN "yes" ELSE "no"
      /\ task' \in Tasks /\ task.version <= task'.version /\ task'.unsure \cap File = task.unsure \cap File
      /\ task'.issue = IF looks /\ ScopeCheck(t, Scanned) # "none" THEN ScopeCheck(t, Scanned) ELSE task.issue
  <2> HIDE DEF EvidenceInv
  <2> QED BY <1>1, EndedRow
<1>4. disk \in Digest /\ disk # Unread /\ (Scanned # Unread => Scanned = disk) BY EvidenceParts, ScannedTyped
<1>5. EvidenceTypeOK' BY <1>1, <1>3 DEF EvidenceInv, EvidenceTypeOK, Checking
<1>6. RowFits(trials'[i])
  <2>1. trials'[i].changed = "no" => trials'[i].base = trials'[i].end BY <1>3, <1>4 DEF Changed
  <2>2. how = "exited" => looks BY DEF LooksAfter
  <2> HIDE DEF EvidenceInv, looks
  <2> QED BY <1>2, <1>3, <2>1, <2>2, EvidenceShape DEF RowFits
<1>7. RowsFit'
  <2>1. \A k \in DOMAIN trials : RowFits(trials[k]) BY RowTyped
  <2> HIDE DEF EvidenceInv
  <2> QED BY <1>3, <1>6, <2>1 DEF RowsFit
<1>8. AskFits'
  <2>1. \A k \in DOMAIN trials : ~trials[k].began => stage = "asked" /\ k = Len(trials) BY DEF EvidenceInv, AskFits
  <2>2. stage = "asked" => trials # <<>> /\ ~trials[Len(trials)].began /\ trials[Len(trials)].stamp = stamp
    BY DEF EvidenceInv, AskFits
  <2>3. stage' = "asked" <=> stage = "asked" BY <1>1
  <2>4. ASSUME stage = "asked" PROVE trials' # <<>> /\ trials'[Len(trials')] = trials[Len(trials)]
    <3>1. Len(trials) \in DOMAIN trials BY <2>2, <2>4, LastRow
    <3>2. Len(trials) # i BY <1>2, <2>2, <2>4
    <3> HIDE DEF EvidenceInv
    <3>3. trials' # <<>> BY <1>3, <3>1
    <3> QED BY <1>3, <3>1, <3>2, <3>3
  <2> HIDE DEF EvidenceInv
  <2>5. \A k \in DOMAIN trials' : ~trials'[k].began => stage' = "asked" /\ k = Len(trials') BY <1>3, <2>1, <2>3
  <2> QED BY <1>1, <2>2, <2>3, <2>4, <2>5 DEF AskFits
<1>9. EndsSeen'
  <2>1. \A k \in DOMAIN trials : ~(trials[k].managed /\ trials[k].how # "none" /\ trials[k].changed = "unset")
    BY <1>1 DEF EvidenceInv, EndsSeen
  <2>2. ~(trials'[i].managed /\ trials'[i].changed = "unset") BY <1>3 DEF LooksAfter
  <2> HIDE DEF EvidenceInv
  <2> QED BY <1>3, <2>1, <2>2 DEF EndsSeen
<1>10. StampsFit(trials, task.version)'
  <2> SUFFICES ASSUME NEW k \in DOMAIN trials, trials'[k].of \in Command, trials'[k].began
               PROVE  trials'[k].stamp <= stamp' /\ stamp' + trials'[k].version <= task'.version + trials'[k].stamp
    BY <1>3 DEF StampsFit
  <2>1. /\ trials'[k].of = trials[k].of /\ trials'[k].stamp = trials[k].stamp /\ trials'[k].version = trials[k].version
        /\ trials[k].began
    BY <1>2, <1>3
  <2>2. trials[k].stamp <= stamp /\ stamp + trials[k].version <= task.version + trials[k].stamp
    BY <2>1 DEF EvidenceInv, StampsFit
  <2>3. trials[k].stamp \in Nat /\ trials[k].version \in Nat /\ stamp \in Nat /\ task.version \in Nat /\ task'.version \in Nat
    BY <1>3, RowTyped, EvidenceParts DEF Trials, Tasks
  <2> HIDE DEF EvidenceInv
  <2>4. stamp <= stamp /\ stamp + task.version <= task'.version + stamp
    <3>1. task.version <= task'.version BY <1>3
    <3> QED BY <2>3, <3>1
  <2>5. trials[k].stamp <= stamp /\ stamp + trials[k].version <= task'.version + trials[k].stamp
    BY <2>2, <2>3, <2>4, StampsAdd
  <2> QED BY <1>1, <2>1, <2>5
<1>11. looks /\ ScopeCheck(t, Scanned) # "none" => trials'[i].changed = "yes"
  BY <1>3 DEF ScopeCheck, Changed
<1>12. looks /\ ScopeCheck(t, Scanned) = "none" /\ t.guarded =>
         t.base # Unread /\ \A f \in File \ Allowed : t.base[f] = trials'[i].end[f]
  BY <1>3, <1>4 DEF ScopeCheck
<1>13. trials'[i].changed # "unset" => looks BY <1>3
<1>14. ScopeCheck(t, Scanned) \in {"none", "unverified", "violated"} BY DEF ScopeCheck
<1>15. IssueFits(trials, task.issue) BY DEF EvidenceInv
<1>16. UnsureFits BY DEF EvidenceInv
<1>17. ruling' = "none" BY <1>1, NoRuling
<1>18. stage' \in Checking => LookFits /\ stage' = stage BY <1>1 DEF EvidenceInv, Checking
<1> HIDE DEF EvidenceInv, t, looks
<1>19. IssueFits(trials, task.issue)'
  <2>1. CASE task'.issue = "none"
    <3>1. task.issue = "none" /\ (looks => ScopeCheck(t, Scanned) = "none") BY <1>3, <2>1
    <3>2. trials'[i].guarded /\ trials'[i].changed # "unset" =>
            trials'[i].base # Unread /\ \A f \in File \ Allowed : trials'[i].base[f] = trials'[i].end[f]
      BY <1>3, <1>12, <1>13, <3>1
    <3> QED BY <1>3, <1>15, <2>1, <3>1, <3>2 DEF IssueFits
  <2>2. CASE task'.issue # "none"
    <3>1. CASE looks /\ ScopeCheck(t, Scanned) # "none"
      <4>1. i \in DOMAIN trials' /\ trials'[i].of \in Command /\ trials'[i].began /\ trials'[i].changed = "yes"
        BY <1>2, <1>3, <1>11, <3>1
      <4> QED BY <2>2, <4>1 DEF IssueFits
    <3>2. CASE ~(looks /\ ScopeCheck(t, Scanned) # "none")
      <4>1. task.issue # "none" BY <1>3, <2>2, <3>2
      <4>2. PICK k \in DOMAIN trials : trials[k].of \in Command /\ trials[k].began /\ trials[k].changed = "yes"
        BY <1>15, <4>1 DEF IssueFits
      <4>3. k # i BY <1>2, <4>2 DEF t
      <4> QED BY <1>3, <2>2, <4>2, <4>3 DEF IssueFits
    <3> QED BY <3>1, <3>2
  <2> QED BY <2>1, <2>2
<1>20. \A k \in DOMAIN trials : trials'[k].of = trials[k].of /\ trials'[k].kept = trials[k].kept
  BY <1>2, <1>3 DEF t
<1>21. UnsureFits'
  <2> SUFFICES ASSUME NEW f \in task'.unsure \cap File
               PROVE  \E k \in DOMAIN trials' : trials'[k].of = f /\ LastOf(trials', k) /\ ~trials'[k].kept
    BY DEF UnsureFits
  <2>1. f \in task.unsure \cap File BY <1>3
  <2>2. PICK k \in DOMAIN trials : trials[k].of = f /\ LastOf(trials, k) /\ ~trials[k].kept BY <1>16, <2>1 DEF UnsureFits
  <2>3. LastOf(trials', k) BY <1>3, <1>20, <2>2 DEF LastOf
  <2> QED BY <1>3, <1>20, <2>2, <2>3
<1>22. RecordsFit' BY <1>7, <1>8, <1>9, <1>10, <1>19, <1>21 DEF RecordsFit
<1>23. LookFits'
  <2>1. CASE stage' \in Checking
    <3>1. LookFits /\ stage \in Checking /\ stage' = stage BY <1>18, <2>1
    <3>2. /\ DOMAIN look.trials = DOMAIN trials
          /\ \A k \in DOMAIN trials : RowFits(look.trials[k]) /\ Since(look.trials[k], trials[k])
          /\ StampsFit(look.trials, look.version) /\ IssueFits(look.trials, look.issue)
          /\ (stage # "scanning" => look.stamp = stamp)
      BY <3>1 DEF LookFits
    <3>3. \A k \in DOMAIN trials : Since(look.trials[k], trials'[k])
      <4> SUFFICES ASSUME NEW k \in DOMAIN trials PROVE Since(look.trials[k], trials'[k]) OBVIOUS
      <4>1. CASE k = i
        <5>1. look.trials[k].how = "none" /\ look.trials[k].of = t.of /\ look.trials[k].began = t.began
          BY <1>2, <3>2, <4>1 DEF Since, t
        <5> QED BY <1>2, <1>3, <4>1, <5>1 DEF Since
      <4>2. CASE k # i BY <1>3, <3>2, <4>2
      <4> QED BY <4>1, <4>2
    <3>4. StampsFit(look.trials, look.version)' BY <1>1, <3>2 DEF StampsFit
    <3>5. IssueFits(look.trials, look.issue)' BY <1>1, <3>2 DEF IssueFits
    <3>6. \A k \in DOMAIN trials' : RowFits(look'.trials[k]) /\ Since(look'.trials[k], trials'[k])
      BY <1>1, <1>3, <3>2, <3>3
    <3> QED BY <1>1, <1>3, <3>1, <3>2, <3>4, <3>5, <3>6 DEF LookFits
  <2>2. CASE stage' \notin Checking BY <2>2, NoneRead
  <2> QED BY <2>1, <2>2
<1>24. RulingFits' BY <1>17, NotAccepted
<1> QED BY <1>5, <1>22, <1>23, <1>24, KeptTogether

\* The terms a task begins with.
FirstTerms(s) == Sifted(s.scoped, [policy |-> {}, want |-> s.want, notes |-> {}])
FirstTask(s) ==
  LET d == FirstTerms(s) IN
  task = [version |-> 0, gen |-> 0, seen |-> 0, policy |-> d.policy, want |-> d.want, notes |-> d.notes,
          due |-> d, firm |-> s.firm, asked |-> s.want, banned |-> {}, retries |-> 0,
          issue |-> "none", unsure |-> {}, scoped |-> s.scoped, strict |-> s.strict]

LEMMA FirstTyped ==
  ASSUME NEW s \in Setting, FirstTask(s)
  PROVE  /\ task \in Tasks /\ task.version = 0 /\ task.issue = "none" /\ task.unsure = {}
         /\ task.policy = {} /\ task.due.policy = {} /\ task.banned = {} /\ task.due.want = task.want
         /\ task.want = {r \in task.asked : ~RequirementBlocked(task.scoped, {}, r)} /\ task.firm \subseteq task.asked
<1> DEFINE d == FirstTerms(s)
<1> DEFINE b == [policy |-> {}, want |-> s.want, notes |-> {}]
<1>1. /\ s.want \in SUBSET Wanted /\ s.firm \in SUBSET Wanted /\ s.firm \subseteq s.want
      /\ s.scoped \in BOOLEAN /\ s.strict \in BOOLEAN
  BY EvidenceShape
<1>2. b \in Terms /\ b.policy = {} /\ b.want = s.want BY <1>1 DEF Terms
<1>3. d = Sifted(s.scoped, b) BY DEF FirstTerms
<1> HIDE DEF b
<1>4. d \in Terms /\ d.policy = {} /\ d.want = {r \in s.want : ~RequirementBlocked(s.scoped, {}, r)}
  <2>1. d \in Terms /\ d.policy = b.policy /\ d.want = {r \in b.want : ~RequirementBlocked(s.scoped, b.policy, r)}
    <3> HIDE DEF d
    <3> QED BY <1>1, <1>2, <1>3, SiftedTyped
  <2> HIDE DEF d
  <2> QED BY <1>2, <2>1, Zenon
<1>5. d.want \in SUBSET Wanted /\ d.notes \in SUBSET File BY <1>4 DEF Terms
<1>6. task = [version |-> 0, gen |-> 0, seen |-> 0, policy |-> d.policy, want |-> d.want, notes |-> d.notes,
              due |-> d, firm |-> s.firm, asked |-> s.want, banned |-> {}, retries |-> 0,
              issue |-> "none", unsure |-> {}, scoped |-> s.scoped, strict |-> s.strict]
  BY DEF FirstTask
<1> HIDE DEF d
<1>7. task \in Tasks BY <1>1, <1>4, <1>5, <1>6 DEF Tasks
<1> QED BY <1>1, <1>4, <1>6, <1>7

LEMMA EvidenceBegins == ASSUME EvidenceInit PROVE EvidenceInv
<1>1. /\ disk = [f \in File |-> First] /\ trials = <<>> /\ stage = "work" /\ look = NoLook /\ ruling = "none"
      /\ changes = 0 /\ stamp = 0
  BY DEF EvidenceInit
<1>2. PICK s \in Setting : FirstTask(s) BY DEF EvidenceInit, FirstTask, FirstTerms
<1>4. task \in Tasks /\ task.version = 0 /\ task.issue = "none" /\ task.unsure = {} BY <1>2, FirstTyped
<1>5. trials \in Seq(Trials) /\ DOMAIN trials = {} BY <1>1
<1>6. look \in Looks
  <2>1. <<>> \in Seq(Trials) OBVIOUS
  <2> QED BY <1>1, <2>1 DEF NoLook, Looks, Digest
<1>7. disk \in [File -> Contents] BY <1>1, EvidenceShape DEF Contents
<1>8. EvidenceTypeOK BY <1>1, <1>4, <1>5, <1>6, <1>7 DEF EvidenceTypeOK
<1>9. RowsFit /\ AskFits /\ EndsSeen /\ StampsFit(trials, task.version) /\ IssueFits(trials, task.issue)
  BY <1>1, <1>4, <1>5 DEF RowsFit, AskFits, EndsSeen, StampsFit, IssueFits
<1>10. UnsureFits BY <1>4 DEF UnsureFits
<1>11. LookFits BY <1>1 DEF LookFits, Checking
<1>12. RulingFits
  <2>1. ~Accepted BY <1>1 DEF Accepted
  <2>2. WorkRests /\ EffectsAreSettled BY <2>1 DEF WorkRests, EffectsAreSettled
  <2> QED BY <1>1, <2>2 DEF RulingFits
<1> QED BY <1>8, <1>9, <1>10, <1>11, <1>12 DEF EvidenceInv

LEMMA EvidenceKeep == ASSUME EvidenceInv, [EvidenceNext]_evidenceVars PROVE EvidenceInv'
<1> HIDE DEF EvidenceInv
<1>1. CASE \E f \in File, c \in Content : \E how \in {"applied", "conflicted", "unknown"} : Write(f, c, how)
  BY <1>1, WriteKeeps
<1>2. CASE \E f \in File, c \in Content \cup {Link} : UserEdit(f, c) \/ \E i \in Live : Effect(i, f, c)
  BY <1>2, UserEditKeeps, EffectKeeps DEF Contents
<1>3. CASE \E p \in Policies, frees \in BOOLEAN : Steer(p, frees) BY <1>3, SteerKeeps
<1>4. CASE \E c \in Command : RunCommand(c) \/ AskCommand(c) BY <1>4, RunCommandKeeps, AskCommandKeeps
<1>5. CASE \E i \in Live, how \in {"exited", "stopped", "unknown"}, says \in {"succeeded", "failed", "unknown"} :
             EndCommand(i, how, says)
  BY <1>5, EndCommandKeeps
<1>6. CASE \E opinion \in {"pass", "revise", "none"} : Reviewed(opinion) BY <1>6, ReviewedKeeps
<1>7. CASE Respond BY <1>7, RespondKeeps
<1>8. CASE StartCommand BY <1>8, StartCommandKeeps
<1>9. CASE BeginCheck BY <1>9, BeginCheckKeeps
<1>10. CASE Scan BY <1>10, ScanKeeps
<1>11. CASE Weigh BY <1>11, WeighKeeps
<1>12. CASE CheckFails BY <1>12, CheckFailsKeeps
<1>13. CASE AskReview BY <1>13, AskReviewKeeps
<1>14. CASE Cancel BY <1>14, CancelKeeps
<1>15. CASE Restart BY <1>15, RestartKeeps
<1>16. CASE Rollback BY <1>16, RollbackKeeps
<1>17. CASE ResumeTask BY <1>17, ResumeTaskKeeps
<1>18. CASE UNCHANGED evidenceVars
  <2>1. /\ disk' = disk /\ task' = task /\ trials' = trials /\ stage' = stage /\ look' = look /\ ruling' = ruling
        /\ changes' = changes /\ stamp' = stamp
    BY <1>18 DEF evidenceVars
  <2>2. EvidenceTypeOK' BY <2>1 DEF EvidenceInv, EvidenceTypeOK
  <2>3. RecordsFit' BY <2>1, SameRecords
  <2>4. LookFits' BY <2>1 DEF EvidenceInv, LookFits, RowFits, Since, StampsFit, IssueFits
  <2>5. WorkRests'
    BY <2>1 DEF EvidenceInv, RulingFits, WorkRests, Accepted, Rests, LastTrial, LastOf
  <2>6. EffectsAreSettled'
    BY <2>1 DEF EvidenceInv, RulingFits, EffectsAreSettled, Accepted, Live, LastOf, LooksAfter
  <2>7. RulingFits' BY <2>1, <2>5, <2>6 DEF EvidenceInv, RulingFits
  <2> QED BY <2>2, <2>3, <2>4, <2>7, KeptTogether
<1> QED BY <1>1, <1>2, <1>3, <1>4, <1>5, <1>6, <1>7, <1>8, <1>9, <1>10, <1>11, <1>12, <1>13, <1>14, <1>15, <1>16, <1>17,
           <1>18 DEF EvidenceNext

LEMMA EvidenceHolds == EvidenceSpec => []EvidenceInv
<1>1. EvidenceInit => EvidenceInv BY EvidenceBegins
<1>2. EvidenceInv /\ [EvidenceNext]_evidenceVars => EvidenceInv' BY EvidenceKeep
<1> QED BY <1>1, <1>2, PTL DEF EvidenceSpec

\* The variables of the verifier and of the records it reads keep their types.
THEOREM EvidenceTypeCorrect == EvidenceSpec => []EvidenceTypeOK
<1>1. EvidenceInv => EvidenceTypeOK BY DEF EvidenceInv
<1> QED BY <1>1, EvidenceHolds, PTL

-----------------------------------------------------------------------------
(* The test that is owed. *)

\* What the caller demands is wanted or forbidden at present; what the user has
\* wanted is wanted unless he has forbidden it at some time.
TermsFit(policy, want) ==
  /\ policy \subseteq task.banned
  /\ \A r \in task.firm : r \in want \/ RequirementBlocked(task.scoped, policy, r)
  /\ AnyTest \in task.asked /\ task.banned \cap {"no_tests", "no_commands"} = {} => AnyTest \in want

\* The terms that hold and those that are due; the verifier works on the former.
OwedInv ==
  /\ TermsFit(task.policy, task.want) /\ TermsFit(task.due.policy, task.due.want)
  /\ stage \in Checking => look.policy = task.policy /\ look.want = task.want
  /\ TestRests

TermsStay ==
  /\ task'.policy = task.policy /\ task'.want = task.want /\ task'.due = task.due /\ task'.firm = task.firm
  /\ task'.asked = task.asked /\ task'.banned = task.banned /\ task'.scoped = task.scoped

LEMMA OwedStays ==
  ASSUME OwedInv, TermsStay, ruling' # "verified",
         stage' \in Checking => look'.policy = task.policy /\ look'.want = task.want
  PROVE  OwedInv'
<1>1. TermsFit(task.policy, task.want)' /\ TermsFit(task.due.policy, task.due.want)'
  BY DEF OwedInv, TermsStay, TermsFit
<1>2. (stage \in Checking => look.policy = task.policy /\ look.want = task.want)' BY DEF TermsStay
<1>3. TestRests' BY DEF TestRests
<1> QED BY <1>1, <1>2, <1>3 DEF OwedInv

LEMMA OwedBegins == ASSUME EvidenceInit PROVE OwedInv
<1>1. stage = "work" /\ ruling = "none" BY DEF EvidenceInit
<1>2. PICK s \in Setting : FirstTask(s) BY DEF EvidenceInit, FirstTask, FirstTerms
<1>3. /\ task.policy = {} /\ task.due.policy = {} /\ task.banned = {} /\ task.due.want = task.want
      /\ task.want = {r \in task.asked : ~RequirementBlocked(task.scoped, {}, r)} /\ task.firm \subseteq task.asked
  BY <1>2, FirstTyped
<1>4. ~RequirementBlocked(task.scoped, {}, AnyTest) BY DEF RequirementBlocked, AnyTest
<1>5. TermsFit({}, task.want) BY <1>3, <1>4 DEF TermsFit
<1> QED BY <1>1, <1>3, <1>5 DEF OwedInv, TestRests, Checking

LEMMA TestBlocked ==
  ASSUME NEW s, NEW q
  PROVE  RequirementBlocked(s, q, AnyTest) <=> q \cap {"no_tests", "no_commands"} # {}
BY DEF RequirementBlocked, AnyTest

LEMMA SteerOwes ==
  ASSUME EvidenceInv, OwedInv, NEW p \in Policies, NEW frees \in BOOLEAN, Steer(p, frees)
  PROVE  OwedInv'
<1>1. /\ task \in Tasks /\ stage # "over" /\ ruling' = ruling /\ stage' = stage /\ look' = look
      /\ task' = [task EXCEPT !.gen = @ + 1, !.due = IF frees THEN Released(task, p) ELSE Banned(task, p),
                             !.banned = IF frees THEN @ ELSE @ \cup {p}]
  BY EvidenceParts DEF Steer
<1>2. ruling' # "verified" BY <1>1, NoRuling
<1> HIDE DEF EvidenceInv
<1>3. /\ task'.policy = task.policy /\ task'.want = task.want /\ task'.firm = task.firm /\ task'.asked = task.asked
      /\ task'.scoped = task.scoped /\ task'.due = (IF frees THEN Released(task, p) ELSE Banned(task, p))
      /\ task'.banned = (IF frees THEN task.banned ELSE task.banned \cup {p})
  BY <1>1 DEF Tasks
<1>4. task.banned \subseteq task'.banned BY <1>3
<1>5. TermsFit(task.policy, task.want)' BY <1>3, <1>4 DEF OwedInv, TermsFit
<1> DEFINE q == task.due.policy
<1> DEFINE w == task.due.want
<1>6. /\ q \subseteq task.banned
      /\ \A r \in task.firm : r \in w \/ RequirementBlocked(task.scoped, q, r)
      /\ (AnyTest \in task.asked /\ task.banned \cap {"no_tests", "no_commands"} = {} => AnyTest \in w)
  BY DEF OwedInv, TermsFit
<1>7. TermsFit(task.due.policy, task.due.want)'
  <2> DEFINE q2 == task'.due.policy
  <2> DEFINE w2 == task'.due.want
  <2>1. CASE frees
    <3>0. task'.due = Released(task, p) BY <1>3, <2>1
    <3>1. q2 = q \ {p} /\ w2 = {r \in w \cup task.firm : ~RequirementBlocked(task.scoped, q \ {p}, r)}
      <4> HIDE DEF q, w
      <4>1. Released(task, p).policy = q \ {p} /\ Released(task, p).want = {r \in w \cup task.firm : ~RequirementBlocked(task.scoped, q \ {p}, r)}
        BY <1>1, MergedTyped DEF q, w
      <4> QED BY <3>0, <4>1, Zenon
    <3>2. task'.banned = task.banned BY <1>3, <2>1
    <3> HIDE DEF q, w, q2, w2
    <3>3. q2 \subseteq task'.banned BY <1>6, <3>1, <3>2
    <3>4. \A r \in task.firm : r \in w2 \/ RequirementBlocked(task.scoped, q2, r) BY <3>1
    <3>5. ASSUME AnyTest \in task.asked, task'.banned \cap {"no_tests", "no_commands"} = {} PROVE AnyTest \in w2
      <4>1. AnyTest \in w /\ q2 \cap {"no_tests", "no_commands"} = {} BY <1>6, <3>2, <3>3, <3>5
      <4>2. ~RequirementBlocked(task.scoped, q2, AnyTest) BY <4>1, TestBlocked
      <4> QED BY <3>1, <4>1, <4>2
    <3> QED BY <1>3, <3>3, <3>4, <3>5 DEF TermsFit, q2, w2
  <2>2. CASE ~frees
    <3>0. task'.due = Banned(task, p) BY <1>3, <2>2
    <3>1. q2 = q \cup {p} /\ w2 = {r \in w : ~RequirementBlocked(task.scoped, q \cup {p}, r)}
      <4> HIDE DEF q, w
      <4>1. Banned(task, p).policy = q \cup {p} /\ Banned(task, p).want = {r \in w : ~RequirementBlocked(task.scoped, q \cup {p}, r)}
        BY <1>1, MergedTyped DEF q, w
      <4> QED BY <3>0, <4>1, Zenon
    <3>2. task'.banned = task.banned \cup {p} BY <1>3, <2>2
    <3> HIDE DEF q, w, q2, w2
    <3>3. q2 \subseteq task'.banned BY <1>6, <3>1, <3>2
    <3>4. \A r \in task.firm : r \in w2 \/ RequirementBlocked(task.scoped, q2, r)
      <4>1. \A r : RequirementBlocked(task.scoped, q, r) => RequirementBlocked(task.scoped, q2, r)
        BY <3>1 DEF RequirementBlocked
      <4> QED BY <1>6, <3>1, <4>1
    <3>5. ASSUME AnyTest \in task.asked, task'.banned \cap {"no_tests", "no_commands"} = {} PROVE AnyTest \in w2
      <4>1. AnyTest \in w /\ q2 \cap {"no_tests", "no_commands"} = {} BY <1>6, <3>2, <3>3, <3>5
      <4>2. ~RequirementBlocked(task.scoped, q2, AnyTest) BY <4>1, TestBlocked
      <4> QED BY <3>1, <4>1, <4>2
    <3> QED BY <1>3, <3>3, <3>4, <3>5 DEF TermsFit, q2, w2
  <2> QED BY <2>1, <2>2
<1>8. (stage \in Checking => look.policy = task.policy /\ look.want = task.want)' BY <1>1, <1>3 DEF OwedInv
<1>9. TestRests' BY <1>2 DEF TestRests
<1> QED BY <1>5, <1>7, <1>8, <1>9 DEF OwedInv

\* What was said holds from now on.
LEMMA MergeOwes ==
  ASSUME EvidenceInv, OwedInv, task' = [Bounded(task) EXCEPT !.seen = task.gen], stage' = "work", ruling' = "none"
  PROVE  OwedInv'
<1>1. task \in Tasks BY EvidenceParts
<1> HIDE DEF EvidenceInv
<1>2. /\ task'.policy = task.due.policy /\ task'.want = task.due.want /\ task'.due = task.due /\ task'.firm = task.firm
      /\ task'.asked = task.asked /\ task'.banned = task.banned /\ task'.scoped = task.scoped
  BY <1>1, BoundedTyped
<1>3. TermsFit(task.policy, task.want)' /\ TermsFit(task.due.policy, task.due.want)' BY <1>2 DEF OwedInv, TermsFit
<1> QED BY <1>3 DEF OwedInv, TestRests, Checking

\* A verified answer has passed the test that is owed.
LEMMA VerifiedTested ==
  ASSUME EvidenceInv, OwedInv, stage = "reading", NEW l, l = [look EXCEPT !.files = disk], Accepts(l),
         Outcome(l) = "verified", look' = l, UNCHANGED <<trials, task>>
  PROVE  TestRests'
<1>0. /\ l.trials \in Seq(Trials) /\ trials \in Seq(Trials) /\ DOMAIN l.trials = DOMAIN trials
      /\ \A i \in DOMAIN trials : l.trials[i].of = trials[i].of
      /\ l.policy = look.policy /\ l.want = look.want
  <2> HIDE DEF EvidenceInv
  <2> QED BY Weighed
<1>1. l.policy = task.policy /\ l.want = task.want BY <1>0 DEF OwedInv, Checking
<1>2. Settled(l) # {} /\ Unperformed(l) = {}
  <2>1. Settled(l) # {} BY DEF Outcome
  <2> QED BY <2>1, AcceptedIssue
<1>3. ASSUME TestOwed
      PROVE  \E i \in DOMAIN trials : /\ trials[i].of \in Test /\ trials[i].how = "exited" /\ trials[i].says = "succeeded"
                                      /\ trials[i].base = l.scan /\ trials[i].end = l.scan /\ trials[i].stamp = l.stamp
  <2>1. task.policy \cap {"no_tests", "no_commands"} = {} BY <1>1, <1>2 DEF Unperformed
  <2>2. ~RequirementBlocked(task.scoped, task.policy, AnyTest) BY <2>1, TestBlocked
  <2>3. AnyTest \in task.want BY <1>3, <2>2 DEF OwedInv, TermsFit, TestOwed
  <2>4. AnyTest \in Settled(l) BY <1>1, <2>3 DEF Settled
  <2>5. Result(l, AnyTest) = "passed" BY <2>4, AcceptedResults
  <2>6. AnyTest.kind # "file_changed" BY DEF AnyTest
  <2>7. PICK i \in Matching(l, AnyTest) : i \in DOMAIN l.trials /\ CommandResult(l, l.trials[i]) = "passed"
    <3> HIDE DEF EvidenceInv
    <3>1. l.trials \in Seq(Trials) BY <1>0
    <3>2. \E i \in Matching(l, AnyTest) :
            /\ i \in DOMAIN l.trials /\ \A j \in Matching(l, AnyTest) : j <= i
            /\ IF AnyTest.kind = "file_changed" THEN FileResult(l, l.trials[i]) = "passed"
               ELSE CommandResult(l, l.trials[i]) = "passed"
      BY <2>5, <3>1, PassedLast
    <3> QED BY <2>6, <3>2
  <2>8. l.trials[i].of \in Test /\ i \in DOMAIN trials /\ trials[i].of = l.trials[i].of
    <3>1. l.trials[i].of \in Test BY <2>7 DEF Matching
    <3> QED BY <1>0, <2>7, <3>1
  <2>9. l.trials[i].of \in Command BY <2>8 DEF Command
  <2> QED BY <2>7, <2>8, <2>9, PassedRests
<1> QED BY <1>3 DEF TestRests, TestOwed, Rests

LEMMA CorrectOwes ==
  ASSUME OwedInv, task \in Tasks, ruling = "none", NEW again, Correct(again)
  PROVE  OwedInv'
<1>1. /\ stage' \in {"work", "over"} /\ ruling' \in {"none", "refused"}
      /\ task' \in {task, [task EXCEPT !.retries = @ + 1]}
  BY DEF Correct
<1>2. TermsStay BY <1>1 DEF TermsStay, Tasks
<1> QED BY <1>1, <1>2, OwedStays DEF Checking

LEMMA EndStays ==
  ASSUME task \in Tasks, NEW i \in Live, NEW how, NEW says, EndCommand(i, how, says)
  PROVE  TermsStay
<1> DEFINE t == trials[i]
<1> DEFINE looks == LooksAfter(t, how)
<1>1. task' = [task EXCEPT
       !.version = IF looks /\ Changed(t, Scanned) THEN @ + 1 ELSE @,
       !.issue = IF looks /\ ScopeCheck(t, Scanned) # "none" THEN ScopeCheck(t, Scanned) ELSE @,
       !.unsure = IF how = "unknown" THEN @ \cup {"command"} ELSE @]
  BY DEF EndCommand, Ended
<1> HIDE DEF t, looks
<1> QED BY <1>1 DEF TermsStay, Tasks

LEMMA WeighOwes == ASSUME EvidenceInv, OwedInv, Weigh PROVE OwedInv'
<1> DEFINE l == [look EXCEPT !.files = disk]
<1> DEFINE out == Outcome(l)
<1>1. /\ stage = "reading" /\ trials' = trials /\ task \in Tasks /\ ruling = "none"
  BY WeighSplits, EvidenceParts, NoRuling
<1> HIDE DEF EvidenceInv
<1>2. l.policy = task.policy /\ l.want = task.want
  <2>1. l.policy = look.policy /\ l.want = look.want BY <1>1, Weighed
  <2> QED BY <1>1, <2>1 DEF OwedInv, Checking
<1>3. ASSUME NEW again, Correct(again) PROVE OwedInv' BY <1>1, <1>3, CorrectOwes
<1>4. CASE stage' = "review" /\ look' = l /\ UNCHANGED <<ruling, task>>
  <2>1. TermsStay /\ ruling' # "verified" BY <1>1, <1>4 DEF TermsStay
  <2> HIDE DEF l
  <2> QED BY <1>2, <1>4, <2>1, OwedStays
<1>5. CASE Accepts(l) /\ \E how \in {"verified", "answered", "limited"} :
             Accept(how, l) /\ (how = "verified" => out = "verified")
  <2>1. PICK how \in {"verified", "answered", "limited"} : Accept(how, l) /\ (how = "verified" => out = "verified")
    BY <1>5
  <2>2. stage' = "over" /\ ruling' = how /\ look' = l /\ task' = task BY <2>1 DEF Accept
  <2>3. TestRests'
    <3>1. CASE how = "verified" BY <1>1, <1>5, <2>1, <2>2, <3>1, VerifiedTested
    <3>2. CASE how # "verified" BY <2>2, <3>2 DEF TestRests
    <3> QED BY <3>1, <3>2
  <2>4. TermsFit(task.policy, task.want)' /\ TermsFit(task.due.policy, task.due.want)' BY <2>2 DEF OwedInv, TermsFit
  <2> QED BY <2>2, <2>3, <2>4 DEF OwedInv, Checking
<1> QED BY WeighSplits, <1>3, <1>4, <1>5

LEMMA OwedKeep == ASSUME EvidenceInv, OwedInv, [EvidenceNext]_evidenceVars PROVE OwedInv'
<1>1. task \in Tasks /\ look \in Looks BY EvidenceParts
<1>2. stage # "over" => ruling = "none" BY NoRuling
<1> HIDE DEF EvidenceInv
<1>3. stage \in Checking => look.policy = task.policy /\ look.want = task.want BY DEF OwedInv
<1>4. ASSUME task' = task, ruling' # "verified", stage' \in Checking => stage \in Checking, look' = look PROVE OwedInv'
  BY <1>3, <1>4, OwedStays DEF TermsStay
<1>5. ASSUME task' = task, ruling' # "verified", stage' = "scanning", look' \in {Reads, [Reads EXCEPT !.reviewed = TRUE]}
      PROVE  OwedInv'
  <2>1. look'.policy = task.policy /\ look'.want = task.want BY <1>5, ReadsTyped
  <2> QED BY <1>5, <2>1, OwedStays DEF TermsStay
<1>6. ASSUME NEW again, Correct(again), stage # "over" PROVE OwedInv' BY <1>1, <1>2, <1>6, CorrectOwes
<1>7. CASE \E f \in File, c \in Content : \E how \in {"applied", "conflicted", "unknown"} : Write(f, c, how)
  <2>1. PICK f \in File, c \in Content, how \in {"applied", "conflicted", "unknown"} : Write(f, c, how) BY <1>7
  <2>2. /\ stage = "work" /\ stage' = "work" /\ ruling' = ruling
        /\ task' = [task EXCEPT !.version = @ + 1, !.unsure = IF how = "unknown" THEN @ \cup {f} ELSE @]
    BY <2>1 DEF Write, MayAct
  <2>3. TermsStay BY <1>1, <2>2 DEF TermsStay, Tasks
  <2> QED BY <1>2, <2>2, <2>3, OwedStays DEF Checking
<1>8. CASE \E f \in File, c \in Content \cup {Link} : UserEdit(f, c) \/ \E i \in Live : Effect(i, f, c)
  <2>1. task' = task /\ ruling' = ruling /\ stage' = stage /\ look' = look /\ (ruling # "verified" \/ stage # "over")
    BY <1>8 DEF UserEdit, Effect, TaskOver
  <2> QED BY <1>2, <1>4, <2>1
<1>9. CASE \E p \in Policies, frees \in BOOLEAN : Steer(p, frees) BY <1>9, SteerOwes
<1>10. CASE (\E c \in Command : RunCommand(c) \/ AskCommand(c)) \/ StartCommand
  <2>1. /\ task' = task /\ ruling' = ruling /\ stage \in {"work", "asked"} /\ look' = look
        /\ stage' \in {"running", "asked", "work"}
    <3>1. ASSUME NEW c \in Command, RunCommand(c)
          PROVE  task' = task /\ ruling' = ruling /\ stage = "work" /\ look' = look /\ stage' = "running"
      BY <3>1, Zenon DEF RunCommand, MayAct
    <3>2. ASSUME NEW c \in Command, AskCommand(c)
          PROVE  task' = task /\ ruling' = ruling /\ stage = "work" /\ look' = look /\ stage' = "asked"
      BY <3>2, Zenon DEF AskCommand, MayAct
    <3>3. StartCommand => task' = task /\ ruling' = ruling /\ stage = "asked" /\ look' = look /\ stage' = "work"
      BY Zenon DEF StartCommand
    <3> QED BY <1>10, <3>1, <3>2, <3>3
  <2> QED BY <1>2, <1>4, <2>1 DEF Checking
<1>11. CASE \E i \in Live, how \in {"exited", "stopped", "unknown"}, says \in {"succeeded", "failed", "unknown"} :
              EndCommand(i, how, says)
  <2>1. PICK i \in Live, how \in {"exited", "stopped", "unknown"}, says \in {"succeeded", "failed", "unknown"} :
          EndCommand(i, how, says)
    BY <1>11
  <2>2. stage # "over" /\ ruling' = ruling /\ look' = look /\ (stage' = "work" \/ stage' = stage) BY <2>1 DEF EndCommand
  <2>3. TermsStay BY <1>1, <2>1, EndStays
  <2>4. stage' \in Checking => stage \in Checking BY <2>2 DEF Checking
  <2> QED BY <1>2, <1>3, <2>2, <2>3, <2>4, OwedStays
<1>12. CASE \E opinion \in {"pass", "revise", "none"} : Reviewed(opinion)
  <2>1. PICK opinion \in {"pass", "revise", "none"} : Reviewed(opinion) BY <1>12
  <2>2. stage = "reviewing" /\ ((\E again : Correct(again)) \/ AfterReview) BY <2>1 DEF Reviewed, Superseded
  <2>3. CASE \E again : Correct(again) BY <1>6, <2>2, <2>3
  <2>4. CASE AfterReview BY <1>2, <1>5, <2>2, <2>4 DEF AfterReview
  <2> QED BY <2>2, <2>3, <2>4
<1>13. CASE Respond BY <1>2, <1>13, MergeOwes DEF Respond
<1>14. CASE BeginCheck BY <1>2, <1>5, <1>14 DEF BeginCheck
<1>15. CASE Scan
  <2>1. /\ task' = task /\ ruling' = ruling /\ stage = "scanning" /\ stage' = "reading"
        /\ look' = [look EXCEPT !.scan = Scanned, !.stamp = stamp]
    BY <1>15 DEF Scan
  <2>2. look'.policy = look.policy /\ look'.want = look.want BY <1>1, <2>1 DEF Looks
  <2> QED BY <1>2, <1>3, <2>1, <2>2, OwedStays DEF TermsStay, Checking
<1>16. CASE Weigh BY <1>16, WeighOwes
<1>17. CASE CheckFails \/ Cancel \/ Restart
  <2>1. task' = task /\ ruling' # "verified" /\ stage' = "over" BY <1>17 DEF CheckFails, Cancel, Restart
  <2> QED BY <2>1, OwedStays DEF TermsStay, Checking
<1>18. CASE AskReview
  <2>1. stage = "review" /\ \/ \E again : Correct(again)
                            \/ stage' = "reviewing" /\ look' = [look EXCEPT !.bind = Binding] /\ UNCHANGED <<task, ruling>>
    BY <1>18 DEF AskReview, Superseded
  <2>2. CASE \E again : Correct(again) BY <1>6, <2>1, <2>2
  <2>3. CASE stage' = "reviewing" /\ look' = [look EXCEPT !.bind = Binding] /\ UNCHANGED <<task, ruling>>
    <3>1. look'.policy = look.policy /\ look'.want = look.want BY <1>1, <2>3 DEF Looks
    <3> QED BY <1>2, <1>3, <2>1, <2>3, <3>1, OwedStays DEF TermsStay, Checking
  <2> QED BY <2>1, <2>2, <2>3
<1>19. CASE Rollback
  <2>1. /\ stage' = "over" /\ stage = "over" /\ ruling' = "stopped" /\ task' = [task EXCEPT !.version = @ + 1]
    BY <1>19 DEF Rollback
  <2>2. TermsStay BY <1>1, <2>1 DEF TermsStay, Tasks
  <2> QED BY <2>1, <2>2, OwedStays DEF Checking
<1>20. CASE ResumeTask BY <1>20, MergeOwes DEF ResumeTask
<1>21. CASE UNCHANGED evidenceVars
  <2>1. /\ task' = task /\ trials' = trials /\ stage' = stage /\ look' = look /\ ruling' = ruling
    BY <1>21 DEF evidenceVars
  <2> QED BY <2>1 DEF OwedInv, TermsFit, TestRests, TestOwed, Rests
<1> QED BY <1>7, <1>8, <1>9, <1>10, <1>11, <1>12, <1>13, <1>14, <1>15, <1>16, <1>17, <1>18, <1>19, <1>20, <1>21
        DEF EvidenceNext

LEMMA OwedHolds == EvidenceSpec => []OwedInv
<1>1. EvidenceInit => OwedInv BY OwedBegins
<1>2. EvidenceInv /\ OwedInv /\ [EvidenceNext]_evidenceVars => OwedInv' BY OwedKeep
<1> QED BY <1>1, <1>2, EvidenceHolds, PTL DEF EvidenceSpec

\* VerifiedRests: a command that has changed the disk has passed once more on the
\* disk the verifier has scanned, after the last write of the task's tools, and so
\* has a test that the caller demands, or that the user wants and never forbade,
\* whoever edits, forbids, allows, stops or restarts in between
\* (completion.py:349-489, task_intent.py:541-612).
THEOREM VerifiedIsRested == EvidenceSpec => []VerifiedRests
<1>1. EvidenceInv /\ OwedInv => VerifiedRests BY DEF EvidenceInv, RulingFits, OwedInv, VerifiedRests
<1> QED BY <1>1, EvidenceHolds, OwedHolds, PTL

\* EffectsAreSettled: work is accepted with no file write of unknown outcome, no
\* command still at work that was not run again, and no excluded file changed by a
\* command whose end was looked at; what a command of unknown end has done may stay
\* open (completion.py:310-345, 472-489, task_constraints.py:180-206).
THEOREM SettledEffects == EvidenceSpec => []EffectsAreSettled
<1>1. EvidenceInv => EffectsAreSettled BY DEF EvidenceInv, RulingFits
<1> QED BY <1>1, EvidenceHolds, PTL

-----------------------------------------------------------------------------
(* What the task learns from its failures. *)

Places == {"ask", "model", "tool", "result", "verify", "weigh", "review", "binding", "opinion", "over"}
Jobs == [run : Nat, gen : Nat, asked : Nat, seen : Nat, version : Nat, said : BOOLEAN, retries : Nat, changed : BOOLEAN,
         checks : SUBSET Check, forbids : SUBSET Check]
Notes(E) == [goal : Nat, version : Nat, entries : E, count : Nat, review : BOOLEAN, seen : SUBSET Managed]
EndKinds == {"passed", "failed", "cancelled", "unknown"}
ManagedRows == [run : Nat, target : Target \cup {CHOOSE t \in Target : TRUE}, how : {"none", "running"} \cup EndKinds]
ToolCalls ==
  [kind : {"start"}, on : Managed, target : Target] \cup [kind : {"read"}, on : Managed]
  \cup [kind : {"other"}, target : Target, code : Code] \cup [kind : {"patch"}, target : Target]
Bindings == {<<>>} \cup (Nat \X Nat \X Nat)

\* The variables hold what they are meant to (reflection.py, observer.py).
ReflectionTypeOK ==
  /\ job \in Jobs /\ job.run \in 1..MaxRun /\ goals \in [1..MaxRun -> Nat]
  /\ notes \in Notes({notes.entries})
  /\ commands \in [Managed -> ManagedRows]
  /\ place \in Places /\ call \in ToolCalls \cup {NoCall}
  /\ usage \in [rounds : Nat, calls : Nat, known : BOOLEAN]
  /\ review \in [attempts : Nat, of : Bindings, passed : BOOLEAN]
  /\ settings \in [version : Nat, checks : SUBSET Check]
  /\ report \in [Check -> Status \cup {"pending", "skipped"}]
  /\ finding \in {"none", "answered", "verified", "refused", "limits", "failed", "stopped"}
  /\ bound \subseteq Check
  /\ faults \in [commands : SUBSET Managed, others : Nat]
  /\ owed \in {"clear", "open", "lost"}

\* What was read and failed is what has been counted; nobody reads a command
\* before it has ended, and its end is final.
FaultsFit ==
  /\ notes.goal = Goal
  /\ IsFiniteSet(faults.commands)
  /\ notes.count = Cardinality(faults.commands) + faults.others
  /\ faults.commands = {e \in notes.seen : commands[e].how = "failed"}
  /\ \A e \in notes.seen : commands[e].how \in EndKinds

\* A call that waits for its tool or its result is one, and starts what was not started.
CallFits ==
  /\ place \in {"tool", "result"} => call # NoCall
  /\ place = "tool" /\ call.kind = "start" => commands[call.on].how = "none"

\* A response belongs to the generation it was asked in.
TurnFits == job.seen <= job.gen /\ job.asked <= job.gen

\* Two failures of the goal, and only they, call for a review.
CallsForReview == notes.review <=> notes.count >= ReviewAt

\* An opinion that counts is about the state as it is, until the user speaks.
OpinionFits ==
  /\ place = "opinion" /\ ~Stale => review.of = ReviewBinding
  /\ review.passed => place = "weigh" \/ (place = "over" /\ finding # "stopped")
  /\ review.passed /\ place = "weigh" /\ ~Stale => review.of = ReviewBinding
  /\ finding = "verified" => place = "over" /\ ReviewBeforeDelivery

ReflectionInv == ReflectionTypeOK /\ FaultsFit /\ CallFits /\ TurnFits /\ CallsForReview /\ OpinionFits

-----------------------------------------------------------------------------
(* The failures of a goal. *)

LEMMA LearnerTyped ==
  ASSUME ReflectionInv
  PROVE  /\ job \in Jobs /\ job.run \in 1..MaxRun /\ goals \in [1..MaxRun -> Nat] /\ Goal \in Nat
         /\ notes \in Notes({notes.entries}) /\ commands \in [Managed -> ManagedRows]
         /\ usage \in [rounds : Nat, calls : Nat, known : BOOLEAN]
         /\ review \in [attempts : Nat, of : Bindings, passed : BOOLEAN]
         /\ faults \in [commands : SUBSET Managed, others : Nat]
         /\ job.version \in Nat /\ job.gen \in Nat /\ job.seen \in Nat /\ job.asked \in Nat
         /\ notes.count \in Nat /\ notes.seen \subseteq Managed /\ faults.others \in Nat /\ faults.commands \subseteq Managed
         /\ ReviewAt \in Nat \ {0} /\ MaxRun \in Nat
<1>1. /\ job \in Jobs /\ job.run \in 1..MaxRun /\ goals \in [1..MaxRun -> Nat]
      /\ notes \in Notes({notes.entries}) /\ commands \in [Managed -> ManagedRows]
      /\ usage \in [rounds : Nat, calls : Nat, known : BOOLEAN]
      /\ review \in [attempts : Nat, of : Bindings, passed : BOOLEAN]
      /\ faults \in [commands : SUBSET Managed, others : Nat]
  BY DEF ReflectionInv, ReflectionTypeOK
<1> HIDE DEF ReflectionInv
<1>2. Goal \in Nat BY <1>1 DEF Goal
<1>3. job.version \in Nat /\ job.gen \in Nat /\ job.seen \in Nat /\ job.asked \in Nat BY <1>1 DEF Jobs
<1>4. notes.count \in Nat /\ notes.seen \subseteq Managed /\ faults.others \in Nat /\ faults.commands \subseteq Managed
  BY <1>1 DEF Notes
<1>5. ReviewAt \in Nat \ {0} /\ MaxRun \in Nat BY ReflectionShape
<1> QED BY <1>1, <1>2, <1>3, <1>4, <1>5

LEMMA RefreshKeeps ==
  ASSUME ReflectionInv
  PROVE  /\ Refresh(notes) \in Notes({Refresh(notes).entries}) /\ Refresh(notes).goal = notes.goal
         /\ Refresh(notes).count = notes.count /\ Refresh(notes).review = notes.review /\ Refresh(notes).seen = notes.seen
<1> DEFINE v == job.version
<1> DEFINE x == [i \in DOMAIN notes.entries |-> [notes.entries[i] EXCEPT !.open = FALSE]]
<1> DEFINE m == [notes EXCEPT !.version = v, !.entries = x]
<1>1. notes \in Notes({notes.entries}) /\ v \in Nat /\ notes.goal = Goal
  BY LearnerTyped DEF ReflectionInv, FaultsFit
<1>2. Refresh(notes) = IF notes.version = job.version THEN notes ELSE m BY <1>1 DEF Refresh
<1> HIDE DEF v, x, ReflectionInv
<1>3. /\ m \in Notes({m.entries}) /\ m.goal = notes.goal /\ m.count = notes.count /\ m.review = notes.review
      /\ m.seen = notes.seen
  BY <1>1 DEF Notes
<1> HIDE DEF m
<1> QED BY <1>1, <1>2, <1>3

LEMMA FailureCounted ==
  ASSUME NEW n, n \in Notes({n.entries}), NEW kind, NEW target, NEW cat, cat \in Correctable
  PROVE  /\ Failed(n, kind, target, cat) \in Notes({Failed(n, kind, target, cat).entries})
         /\ Failed(n, kind, target, cat).goal = n.goal /\ Failed(n, kind, target, cat).seen = n.seen
         /\ Failed(n, kind, target, cat).count = n.count + 1
         /\ (Failed(n, kind, target, cat).review <=> n.count + 1 >= ReviewAt)
<1> DEFINE x == AfterFailure(n.entries, kind, target, cat)
<1> DEFINE k == n.count + 1
<1> DEFINE w == k >= ReviewAt
<1> DEFINE m == [n EXCEPT !.entries = x, !.count = k, !.review = w]
<1>1. Failed(n, kind, target, cat) = m BY DEF Failed
<1>2. k \in Nat /\ w \in BOOLEAN BY DEF Notes
<1> HIDE DEF x, k, w
<1>3. m \in Notes({m.entries}) /\ m.goal = n.goal /\ m.seen = n.seen /\ m.count = k /\ (m.review <=> w)
  BY <1>2 DEF Notes
<1> HIDE DEF m
<1> QED BY <1>1, <1>3 DEF k, w

LEMMA OtherFailure ==
  ASSUME NEW n, n \in Notes({n.entries}), NEW kind, NEW target, NEW cat, cat \notin Correctable
  PROVE  /\ Failed(n, kind, target, cat) \in Notes({Failed(n, kind, target, cat).entries})
         /\ Failed(n, kind, target, cat).goal = n.goal /\ Failed(n, kind, target, cat).seen = n.seen
         /\ Failed(n, kind, target, cat).count = n.count /\ Failed(n, kind, target, cat).review = n.review
<1> DEFINE x == AfterFailure(n.entries, kind, target, cat)
<1> DEFINE k == n.count
<1> DEFINE w == n.review
<1> DEFINE m == [n EXCEPT !.entries = x, !.count = k, !.review = w]
<1>1. Failed(n, kind, target, cat) = m BY DEF Failed
<1>2. k \in Nat /\ w \in BOOLEAN BY DEF Notes
<1> HIDE DEF x, k, w
<1>3. m \in Notes({m.entries}) /\ m.goal = n.goal /\ m.seen = n.seen /\ m.count = k /\ m.review = w
  BY <1>2 DEF Notes
<1> HIDE DEF m
<1> QED BY <1>1, <1>3 DEF k, w

LEMMA ResolvedKeeps ==
  ASSUME NEW n, n \in Notes({n.entries}), NEW kind, NEW target
  PROVE  /\ Resolved(n, kind, target) \in Notes({Resolved(n, kind, target).entries})
         /\ Resolved(n, kind, target).goal = n.goal /\ Resolved(n, kind, target).seen = n.seen
         /\ Resolved(n, kind, target).count = n.count /\ Resolved(n, kind, target).review = n.review
<1> DEFINE x == [i \in DOMAIN n.entries |->
                  IF n.entries[i].kind = kind /\ n.entries[i].target = target THEN [n.entries[i] EXCEPT !.open = FALSE]
                  ELSE n.entries[i]]
<1> DEFINE m == [n EXCEPT !.entries = x]
<1>1. Resolved(n, kind, target) = m BY DEF Resolved
<1> HIDE DEF x
<1>2. m \in Notes({m.entries}) /\ m.goal = n.goal /\ m.seen = n.seen /\ m.count = n.count /\ m.review = n.review
  BY DEF Notes
<1> HIDE DEF m
<1> QED BY <1>1, <1>2

LEMMA SeenMarked ==
  ASSUME NEW n, n \in Notes({n.entries}), NEW e \in Managed
  PROVE  /\ [n EXCEPT !.seen = @ \cup {e}] \in Notes({[n EXCEPT !.seen = @ \cup {e}].entries})
         /\ [n EXCEPT !.seen = @ \cup {e}].goal = n.goal /\ [n EXCEPT !.seen = @ \cup {e}].count = n.count
         /\ [n EXCEPT !.seen = @ \cup {e}].review = n.review /\ [n EXCEPT !.seen = @ \cup {e}].seen = n.seen \cup {e}
<1> DEFINE s == n.seen \cup {e}
<1> DEFINE m == [n EXCEPT !.seen = s]
<1>1. s \in SUBSET Managed BY DEF Notes
<1> HIDE DEF s
<1>2. m \in Notes({m.entries}) /\ m.goal = n.goal /\ m.seen = s /\ m.count = n.count /\ m.review = n.review
  BY <1>1 DEF Notes
<1> QED BY <1>2 DEF s

\* What the records of failures promise together with the counts.
Counted(n, counts) ==
  /\ n \in Notes({n.entries}) /\ n.goal = Goal
  /\ counts \in [commands : SUBSET Managed, others : Nat] /\ IsFiniteSet(counts.commands)
  /\ n.count = Cardinality(counts.commands) + counts.others
  /\ counts.commands = {e \in n.seen : commands[e].how = "failed"}
  /\ \A e \in n.seen : commands[e].how \in EndKinds
  /\ n.review <=> n.count >= ReviewAt

LEMMA CountedNow ==
  ASSUME ReflectionInv
  PROVE  Counted(notes, faults) /\ Counted(Refresh(notes), faults)
<1>1. Counted(notes, faults) BY LearnerTyped DEF ReflectionInv, FaultsFit, CallsForReview, Counted
<1>2. Counted(Refresh(notes), faults)
  <2>1. /\ Refresh(notes) \in Notes({Refresh(notes).entries}) /\ Refresh(notes).goal = notes.goal
        /\ Refresh(notes).count = notes.count /\ Refresh(notes).review = notes.review /\ Refresh(notes).seen = notes.seen
    BY RefreshKeeps
  <2> HIDE DEF ReflectionInv
  <2> QED BY <1>1, <2>1 DEF Counted
<1> QED BY <1>1, <1>2

\* A command that is read, for the first time or again.
LEMMA CommandCounted ==
  ASSUME ReflectionInv, NEW n, NEW counts, Counted(n, counts), NEW e \in Managed,
         NEW next, next = IF Fact(e) /\ commands[e].how = "failed" THEN [counts EXCEPT !.commands = @ \cup {e}] ELSE counts
  PROVE  Counted(ObserveCommand(n, e), next)
<1> DEFINE m == [n EXCEPT !.seen = @ \cup {e}]
<1> DEFINE how == commands[e].how
<1>1. n \in Notes({n.entries}) /\ n.seen \subseteq Managed /\ n.count \in Nat /\ counts.others \in Nat
      /\ counts \in [commands : SUBSET Managed, others : Nat] /\ how \in {"none", "running"} \cup EndKinds
      /\ counts.commands \subseteq Managed
  BY LearnerTyped DEF Counted, Notes, ManagedRows
<1>2. m \in Notes({m.entries}) /\ m.goal = n.goal /\ m.count = n.count /\ m.review = n.review /\ m.seen = n.seen \cup {e}
  BY <1>1, SeenMarked
<1> HIDE DEF m, ReflectionInv
<1>3. CASE ~Fact(e) BY <1>3 DEF ObserveCommand
<1>4. CASE Fact(e) /\ Seen(n, e)
  <2>1. ObserveCommand(n, e) = n BY <1>4 DEF ObserveCommand
  <2>2. how = "failed" => e \in counts.commands BY <1>4 DEF Counted, Seen
  <2> DEFINE c == counts.commands \cup {e}
  <2>3. next = IF how = "failed" THEN [counts EXCEPT !.commands = c] ELSE counts BY <1>4
  <2>4. how = "failed" => c = counts.commands BY <2>2
  <2>5. next = counts BY <1>1, <2>3, <2>4
  <2> QED BY <2>1, <2>5
<1>5. CASE Fact(e) /\ ~Seen(n, e)
  <2>0. e \notin n.seen /\ e \notin counts.commands /\ how \in EndKinds BY <1>1, <1>5 DEF Fact, Seen, Counted
  <2>1. CASE how = "failed"
    <3> DEFINE c == counts.commands \cup {e}
    <3>1. next = [counts EXCEPT !.commands = c] BY <1>5, <2>1
    <3>2. IsFiniteSet(c) /\ Cardinality(c) = Cardinality(counts.commands) + 1 /\ Cardinality(counts.commands) \in Nat
      BY <2>0, FS_AddElement, FS_CardinalityType DEF Counted
    <3>3. c \in SUBSET Managed BY <1>1
    <3>4. next \in [commands : SUBSET Managed, others : Nat] /\ next.commands = c /\ next.others = counts.others
      <4> HIDE DEF c
      <4> QED BY <1>1, <3>1, <3>3
    <3> DEFINE o == Failed(m, "tool", commands[e].target, "execution")
    <3>5. ObserveCommand(n, e) = o BY <1>5, <2>1 DEF ObserveCommand, m
    <3>6. /\ o \in Notes({o.entries}) /\ o.goal = n.goal /\ o.seen = n.seen \cup {e} /\ o.count = n.count + 1
          /\ (o.review <=> n.count + 1 >= ReviewAt)
      <4>1. /\ o \in Notes({o.entries}) /\ o.goal = m.goal /\ o.seen = m.seen /\ o.count = m.count + 1
            /\ (o.review <=> m.count + 1 >= ReviewAt)
        <5>1. m \in Notes({m.entries}) BY <1>2
        <5>2. "execution" \in Correctable BY DEF Correctable
        <5> QED BY <5>1, <5>2, FailureCounted
      <4> HIDE DEF o
      <4> QED BY <1>2, <4>1
    <3> HIDE DEF o
    <3>a. n.count = Cardinality(counts.commands) + counts.others BY DEF Counted
    <3>b. Cardinality(next.commands) = Cardinality(counts.commands) + 1 /\ next.others = counts.others BY <3>2, <3>4
    <3>7. o.count = Cardinality(next.commands) + next.others BY <1>1, <3>2, <3>6, <3>a, <3>b
    <3>8. next.commands = {d \in o.seen : commands[d].how = "failed"} BY <2>1, <3>4, <3>6 DEF Counted
    <3>9. \A d \in o.seen : commands[d].how \in EndKinds BY <2>0, <3>6 DEF Counted
    <3>10. o.goal = Goal BY <3>6 DEF Counted
    <3>11. o.review <=> o.count >= ReviewAt BY <3>6
    <3> QED BY <3>2, <3>4, <3>5, <3>6, <3>7, <3>8, <3>9, <3>10, <3>11 DEF Counted
  <2>2. CASE how # "failed"
    <3>1. next = counts BY <2>2
    <3> DEFINE o == ObserveCommand(n, e)
    <3>2. /\ o \in Notes({o.entries}) /\ o.goal = n.goal /\ o.seen = n.seen \cup {e} /\ o.count = n.count
          /\ o.review = n.review
      <4>1. CASE how = "cancelled"
        <5>1. o = m BY <1>5, <4>1 DEF ObserveCommand, m
        <5> HIDE DEF o
        <5> QED BY <1>2, <5>1
      <4>2. CASE how = "unknown"
        <5>1. o = Failed(m, "tool", commands[e].target, "unknown") BY <1>5, <4>2 DEF ObserveCommand, m
        <5> DEFINE p == Failed(m, "tool", commands[e].target, "unknown")
        <5>2. /\ p \in Notes({p.entries}) /\ p.goal = m.goal /\ p.seen = m.seen /\ p.count = m.count
              /\ p.review = m.review
          <6>1. m \in Notes({m.entries}) BY <1>2
          <6>2. "unknown" \notin Correctable BY DEF Correctable
          <6> QED BY <6>1, <6>2, OtherFailure
        <5> HIDE DEF o, p
        <5> QED BY <1>2, <5>1, <5>2 DEF p
      <4>3. CASE how = "passed"
        <5>1. o = Resolved(m, "tool", commands[e].target) BY <1>5, <4>3 DEF ObserveCommand, m
        <5> HIDE DEF o
        <5> QED BY <1>2, <5>1, ResolvedKeeps
      <4> QED BY <2>0, <2>2, <4>1, <4>2, <4>3 DEF EndKinds
    <3> HIDE DEF o
    <3>3. next.commands = {d \in o.seen : commands[d].how = "failed"} BY <2>2, <3>1, <3>2 DEF Counted
    <3>4. \A d \in o.seen : commands[d].how \in EndKinds BY <2>0, <3>2 DEF Counted
    <3> QED BY <3>1, <3>2, <3>3, <3>4 DEF Counted, o
  <2> QED BY <2>1, <2>2
<1> QED BY <1>3, <1>4, <1>5

\* What is observed of a result, and what the model is told of it.
LEMMA ResultCounted ==
  ASSUME ReflectionInv, place = "result"
  PROVE  Counted(Observed(Refresh(notes)), NowFaults)
<1> DEFINE n == Refresh(notes)
<1>1. Counted(notes, faults) /\ Counted(n, faults) BY CountedNow
<1>2. call \in ToolCalls BY DEF ReflectionInv, ReflectionTypeOK, CallFits
<1> HIDE DEF n
<1>3. CASE call.kind \in {"start", "read"}
  <2>1. call.on \in Managed BY <1>2, <1>3 DEF ToolCalls
  <2>2. Observed(n) = ObserveCommand(n, call.on) BY <1>3 DEF Observed
  <2>3. NowFaults = IF Fact(call.on) /\ commands[call.on].how = "failed"
                    THEN [faults EXCEPT !.commands = @ \cup {call.on}] ELSE faults
    BY <1>3 DEF NowFaults
  <2> DEFINE e == call.on
  <2> HIDE DEF ReflectionInv
  <2> QED BY <1>1, <2>1, <2>2, <2>3, CommandCounted DEF n
<1>4. CASE call.kind = "other"
  <2>1. CASE call.code \in Correctable
    <3> DEFINE o == Failed(n, "tool", call.target, call.code)
    <3> DEFINE k == faults.others + 1
    <3>1. Observed(n) = o BY <1>4, <2>1 DEF Observed, Correctable
    <3>2. NowFaults = [faults EXCEPT !.others = k] BY <1>4, <2>1 DEF NowFaults
    <3>3. /\ o \in Notes({o.entries}) /\ o.goal = n.goal /\ o.seen = n.seen /\ o.count = n.count + 1
          /\ (o.review <=> n.count + 1 >= ReviewAt)
      <4>1. n \in Notes({n.entries}) BY <1>1 DEF Counted
      <4> QED BY <2>1, <4>1, FailureCounted
    <3>4. k \in Nat /\ faults \in [commands : SUBSET Managed, others : Nat] /\ n.count \in Nat BY <1>1 DEF Counted, Notes
    <3>5. NowFaults.commands = faults.commands /\ NowFaults.others = k
          /\ NowFaults \in [commands : SUBSET Managed, others : Nat]
      <4> HIDE DEF k
      <4> QED BY <3>2, <3>4
    <3>6. Cardinality(faults.commands) \in Nat /\ faults.others \in Nat BY <1>1, FS_CardinalityType DEF Counted
    <3> HIDE DEF o, ReflectionInv
    <3>a. n.count = Cardinality(faults.commands) + faults.others BY <1>1 DEF Counted
    <3>b. k = faults.others + 1 OBVIOUS
    <3>c. Cardinality(NowFaults.commands) = Cardinality(faults.commands) /\ NowFaults.others = k BY <3>5
    <3> HIDE DEF k
    <3>7. o.count = Cardinality(NowFaults.commands) + NowFaults.others BY <3>3, <3>6, <3>a, <3>b, <3>c
    <3>8. o.review <=> o.count >= ReviewAt BY <3>3
    <3> QED BY <1>1, <3>1, <3>3, <3>5, <3>7, <3>8 DEF Counted, n
  <2>2. CASE call.code = "ignored"
    <3>1. Observed(n) = notes /\ NowFaults = faults BY <1>4, <2>2 DEF Observed, NowFaults, Correctable
    <3> QED BY <1>1, <3>1 DEF n
  <2>3. CASE call.code \notin Correctable /\ call.code # "ignored"
    <3> DEFINE o == Failed(n, "tool", call.target, call.code)
    <3>1. Observed(n) = o /\ NowFaults = faults BY <1>4, <2>3 DEF Observed, NowFaults
    <3>2. o \in Notes({o.entries}) /\ o.goal = n.goal /\ o.seen = n.seen /\ o.count = n.count /\ o.review = n.review
      <4>1. n \in Notes({n.entries}) BY <1>1 DEF Counted
      <4> QED BY <2>3, <4>1, OtherFailure
    <3> HIDE DEF o, ReflectionInv
    <3> QED BY <1>1, <3>1, <3>2 DEF Counted, n
  <2> QED BY <2>1, <2>2, <2>3
<1>5. CASE call.kind = "patch"
  <2> DEFINE o == Resolved(n, "tool", call.target)
  <2>1. Observed(n) = o /\ NowFaults = faults BY <1>5 DEF Observed, NowFaults
  <2>2. o \in Notes({o.entries}) /\ o.goal = n.goal /\ o.seen = n.seen /\ o.count = n.count /\ o.review = n.review
    BY <1>1, ResolvedKeeps DEF Counted
  <2> HIDE DEF o, ReflectionInv
  <2> QED BY <1>1, <2>1, <2>2 DEF Counted, n
<1>6. call.kind \in {"start", "read", "other", "patch"} BY <1>2 DEF ToolCalls
<1> QED BY <1>3, <1>4, <1>5, <1>6


\* A verification with failures counts once, however many checks failed.
LEMMA ResultsCounted ==
  ASSUME ReflectionInv, NEW result, NEW next,
         next = IF Fails(result) THEN [faults EXCEPT !.others = @ + 1] ELSE faults
  PROVE  Counted(Verified(Refresh(notes), result), next)
<1> DEFINE n == Refresh(notes)
<1> DEFINE v == Verified(n, result)
<1> DEFINE x == AfterResults(n, result)
<1> DEFINE k == n.count + IF Fails(result) THEN 1 ELSE 0
<1> DEFINE w == n.review \/ k >= ReviewAt
<1> DEFINE m == [n EXCEPT !.entries = x, !.count = k, !.review = w]
<1>1. Counted(n, faults) BY CountedNow
<1>2. v = m BY DEF Verified
<1>3. n \in Notes({n.entries}) /\ n.count \in Nat /\ n.review \in BOOLEAN BY <1>1 DEF Counted, Notes
<1>a. faults \in [commands : SUBSET Managed, others : Nat] /\ Cardinality(faults.commands) \in Nat /\ faults.others \in Nat
  BY <1>1, FS_CardinalityType DEF Counted
<1>b. n.count = Cardinality(faults.commands) + faults.others /\ (n.review <=> n.count >= ReviewAt) BY <1>1 DEF Counted
<1>r. ReviewAt \in Nat BY ReflectionShape
<1> HIDE DEF n, ReflectionInv
<1>4. k \in Nat /\ k >= n.count /\ w \in BOOLEAN BY <1>3, <1>r
<1>5. w <=> k >= ReviewAt BY <1>3, <1>b, <1>r, <1>4
<1>6. /\ next \in [commands : SUBSET Managed, others : Nat] /\ next.commands = faults.commands
      /\ k = Cardinality(next.commands) + next.others
  <2>1. CASE Fails(result)
    <3> DEFINE o == faults.others + 1
    <3>1. next = [faults EXCEPT !.others = o] BY <2>1
    <3>2. o \in Nat BY <1>a
    <3> HIDE DEF o
    <3>3. next \in [commands : SUBSET Managed, others : Nat] /\ next.commands = faults.commands /\ next.others = o
      BY <1>a, <3>1, <3>2
    <3>4. k = n.count + 1 /\ o = faults.others + 1 BY <2>1 DEF o
    <3> HIDE DEF k
    <3>5. Cardinality(next.commands) = Cardinality(faults.commands) BY <3>3
    <3> QED BY <1>a, <1>b, <3>3, <3>4, <3>5
  <2>2. CASE ~Fails(result)
    <3>1. next = faults /\ k = n.count BY <2>2, <1>3
    <3> QED BY <1>a, <1>b, <3>1
  <2> QED BY <2>1, <2>2
<1> HIDE DEF x, k, w
<1>7. m \in Notes({m.entries}) /\ m.goal = n.goal /\ m.seen = n.seen /\ m.count = k /\ (m.review <=> w)
  BY <1>3, <1>4 DEF Notes
<1> HIDE DEF m, v
<1>8. Counted(v, next)
  <2>1. v.goal = Goal /\ IsFiniteSet(next.commands) BY <1>1, <1>2, <1>6, <1>7 DEF Counted
  <2>2. v.count = Cardinality(next.commands) + next.others BY <1>2, <1>6, <1>7
  <2>3. next.commands = {e \in v.seen : commands[e].how = "failed"} /\ \A e \in v.seen : commands[e].how \in EndKinds
    BY <1>1, <1>2, <1>6, <1>7 DEF Counted
  <2>4. v.review <=> v.count >= ReviewAt BY <1>2, <1>5, <1>7
  <2> QED BY <1>2, <1>6, <1>7, <2>1, <2>2, <2>3, <2>4 DEF Counted
<1> QED BY <1>8 DEF v, n

-----------------------------------------------------------------------------
(* What an action leaves as it was. *)

\* The record is replaced by one that counts as it should.
LEMMA NewNotes ==
  ASSUME NEW n, NEW counts, Counted(n, counts), notes' = n, faults' = counts, Goal' = Goal, commands' = commands
  PROVE  FaultsFit' /\ CallsForReview' /\ notes' \in Notes({notes'.entries})
         /\ faults' \in [commands : SUBSET Managed, others : Nat]
BY DEF Counted, FaultsFit, CallsForReview

\* The record stays, and no command that was read ends anew.
LEMMA SameNotes ==
  ASSUME ReflectionInv, notes' = notes, faults' = faults, Goal' = Goal,
         \A e \in notes.seen : commands'[e].how = commands[e].how
  PROVE  FaultsFit' /\ CallsForReview'
<1>1. FaultsFit /\ CallsForReview BY DEF ReflectionInv
<1> HIDE DEF ReflectionInv
<1>2. CallsForReview' BY <1>1 DEF CallsForReview
<1>3. {e \in notes'.seen : commands'[e].how = "failed"} = {e \in notes.seen : commands[e].how = "failed"} OBVIOUS
<1>4. FaultsFit' BY <1>1, <1>3 DEF FaultsFit
<1> QED BY <1>2, <1>4

\* No opinion counts where none was given.
LEMMA NoOpinion ==
  ASSUME place' # "opinion", ~review'.passed, finding' # "verified"
  PROVE  OpinionFits'
BY DEF OpinionFits

\* Before the verifier weighs the results there is no opinion, and no end.
LEMMA NotYetRead ==
  ASSUME ReflectionInv
  PROVE  /\ place # "over" => finding # "verified"
         /\ place \notin {"weigh", "over"} => ~review.passed
         /\ finding = "stopped" => ~review.passed \/ place = "weigh"
BY DEF ReflectionInv, OpinionFits

-----------------------------------------------------------------------------
(* The user. *)

LEMMA ReceiveKeeps ==
  ASSUME ReflectionInv, NEW word \in BOOLEAN, Receive(word)
  PROVE  ReflectionInv'
<1> DEFINE g == job.gen + 1
<1> DEFINE s == job.said \/ word
<1>1. ReflectionTypeOK /\ CallFits /\ TurnFits /\ OpinionFits BY DEF ReflectionInv
<1>2. job' = [job EXCEPT !.gen = g, !.said = s] BY DEF Receive
<1>3. g \in Nat /\ s \in BOOLEAN /\ job.seen <= g /\ job.asked <= g /\ job.seen # g
  <2>1. job \in Jobs /\ job.gen \in Nat /\ job.seen \in Nat /\ job.asked \in Nat BY LearnerTyped
  <2> HIDE DEF ReflectionInv
  <2>2. job.said \in BOOLEAN BY <2>1 DEF Jobs
  <2> QED BY <1>1, <2>1, <2>2 DEF TurnFits
<1>4. job \in Jobs /\ job.run \in 1..MaxRun BY LearnerTyped
<1>5. /\ notes' = notes /\ faults' = faults /\ goals' = goals /\ commands' = commands
      /\ place' = place /\ place # "over" /\ call' = call /\ review' = review /\ finding' = finding
  BY DEF Receive
<1> HIDE DEF g, s
<1>6. job' \in Jobs /\ job'.run = job.run /\ job'.gen = g /\ job'.seen = job.seen /\ job'.asked = job.asked
  BY <1>2, <1>3, <1>4 DEF Jobs
<1>7. ReflectionTypeOK'
  <2>1. report' \in [Check -> Status \cup {"pending", "skipped"}] BY DEF Receive, Outdated
  <2> HIDE DEF ReflectionInv
  <2> QED BY <1>1, <1>4, <1>6, <2>1 DEF ReflectionTypeOK, Receive
<1>8. FaultsFit' /\ CallsForReview'
  <2>1. Goal' = Goal BY <1>5, <1>6 DEF Goal
  <2> QED BY <1>5, <2>1, SameNotes
<1>9. CallFits' BY <1>1, <1>5 DEF CallFits
<1>10. TurnFits' BY <1>3, <1>6 DEF TurnFits
<1>11. OpinionFits'
  <2>1. Stale' BY <1>3, <1>6 DEF Stale
  <2> QED BY <1>1, <1>5, <2>1 DEF OpinionFits
<1> QED BY <1>7, <1>8, <1>9, <1>10, <1>11 DEF ReflectionInv

LEMMA SaveSettingsKeeps ==
  ASSUME ReflectionInv, NEW read, NEW c \in SUBSET Check, SaveSettings(read, c)
  PROVE  ReflectionInv'
<1>1. ReflectionTypeOK /\ CallFits /\ TurnFits /\ OpinionFits BY DEF ReflectionInv
<1>2. /\ notes' = notes /\ faults' = faults /\ goals' = goals /\ commands' = commands /\ job' = job
      /\ place' = place /\ call' = call /\ review' = review /\ finding' = finding
  BY DEF SaveSettings
<1>3. ReflectionTypeOK'
  <2> DEFINE r == read + 1
  <2>1. r \in Nat BY <1>1 DEF SaveSettings, ReflectionTypeOK
  <2>2. settings' = [version |-> r, checks |-> c] BY DEF SaveSettings
  <2> HIDE DEF ReflectionInv, r
  <2>3. settings' \in [version : Nat, checks : SUBSET Check] BY <2>1, <2>2
  <2> QED BY <1>1, <2>3 DEF ReflectionTypeOK, SaveSettings
<1>4. FaultsFit' /\ CallsForReview'
  <2>1. Goal' = Goal BY <1>2 DEF Goal
  <2> QED BY <1>2, <2>1, SameNotes
<1>5. CallFits' BY <1>1, <1>2 DEF CallFits
<1>6. TurnFits' BY <1>1, <1>2 DEF TurnFits
<1>7. OpinionFits'
  BY <1>1, <1>2 DEF OpinionFits, Stale, ReviewBinding, Now, Goal, ReviewBeforeDelivery, Faults
<1> QED BY <1>3, <1>4, <1>5, <1>6, <1>7 DEF ReflectionInv

\* Another goal begins with nothing counted.
LEMMA ApplySteerKeeps ==
  ASSUME ReflectionInv, NEW c \in SUBSET Check, ApplySteer(c)
  PROVE  ReflectionInv'
<1> DEFINE f == job.forbids \cup c
<1> DEFINE g == Goal + 1
<1>1. ReflectionTypeOK /\ CallFits /\ TurnFits /\ OpinionFits BY DEF ReflectionInv
<1>2. job \in Jobs /\ job.run \in 1..MaxRun /\ g \in Nat /\ f \in SUBSET Check /\ job.version \in Nat
      /\ goals \in [1..MaxRun -> Nat]
  <2>1. job \in Jobs /\ job.run \in 1..MaxRun /\ job.version \in Nat /\ goals \in [1..MaxRun -> Nat] /\ Goal \in Nat
    BY LearnerTyped
  <2> HIDE DEF ReflectionInv
  <2> QED BY <2>1 DEF Jobs
<1>3. /\ job' = [job EXCEPT !.said = FALSE, !.forbids = f] /\ goals' = [goals EXCEPT ![job.run] = g]
      /\ notes' = Fresh(g, job.version) /\ faults' = NoFaults
  BY DEF ApplySteer, Boundary, Goal
<1>4. /\ commands' = commands /\ place' = place /\ call' = call /\ review' = review /\ finding' = finding
      /\ place \in {"ask", "result", "verify", "review", "binding"}
  BY DEF ApplySteer
<1> HIDE DEF f, g
<1>5. job' \in Jobs /\ job'.run = job.run /\ job'.gen = job.gen /\ job'.seen = job.seen /\ job'.asked = job.asked
  BY <1>2, <1>3 DEF Jobs
<1>6. goals' \in [1..MaxRun -> Nat] /\ Goal' = g BY <1>2, <1>3, <1>5 DEF Goal
<1>7. /\ notes' \in Notes({notes'.entries}) /\ notes'.goal = g /\ notes'.count = 0 /\ ~notes'.review
      /\ notes'.seen = {}
  BY <1>2, <1>3 DEF Fresh, Notes
<1>8. faults'.commands = {} /\ faults'.others = 0 /\ faults' \in [commands : SUBSET Managed, others : Nat]
  BY <1>3 DEF NoFaults
<1>9. ReflectionTypeOK'
  <2>1. report' \in [Check -> Status \cup {"pending", "skipped"}] BY DEF ApplySteer, Outdated
  <2> HIDE DEF ReflectionInv
  <2> QED BY <1>1, <1>2, <1>5, <1>6, <1>7, <1>8, <2>1 DEF ReflectionTypeOK, ApplySteer
<1>10. FaultsFit'
  <2>1. IsFiniteSet({}) /\ Cardinality({}) = 0 BY FS_EmptySet
  <2>2. faults'.commands = {e \in notes'.seen : commands'[e].how = "failed"} BY <1>7, <1>8
  <2>3. notes'.count = Cardinality(faults'.commands) + faults'.others BY <1>7, <1>8, <2>1
  <2> QED BY <1>6, <1>7, <1>8, <2>1, <2>2, <2>3 DEF FaultsFit
<1>11. CallsForReview' BY <1>7, ReflectionShape DEF CallsForReview
<1>12. CallFits' BY <1>1, <1>4 DEF CallFits
<1>13. TurnFits' BY <1>1, <1>5 DEF TurnFits
<1>14. OpinionFits' BY <1>4, NotYetRead, NoOpinion
<1> QED BY <1>9, <1>10, <1>11, <1>12, <1>13, <1>14 DEF ReflectionInv


-----------------------------------------------------------------------------
(* Model and tools. *)

\* What most steps leave as it was.
LearnsNothing == notes' = notes /\ faults' = faults /\ goals' = goals /\ job'.run = job.run

LEMMA NothingLearnt ==
  ASSUME ReflectionInv, LearnsNothing, commands' = commands
  PROVE  FaultsFit' /\ CallsForReview'
<1>1. Goal' = Goal BY DEF LearnsNothing, Goal
<1> QED BY <1>1, SameNotes DEF LearnsNothing

LEMMA NextRequestKeeps ==
  ASSUME ReflectionInv, NextRequest
  PROVE  ReflectionInv'
<1> DEFINE r == usage.rounds + 1
<1> DEFINE g == job.gen
<1>1. ReflectionTypeOK /\ CallFits /\ TurnFits /\ OpinionFits BY DEF ReflectionInv
<1>2. /\ job \in Jobs /\ job.run \in 1..MaxRun /\ g \in Nat /\ r \in Nat
      /\ usage \in [rounds : Nat, calls : Nat, known : BOOLEAN]
  <2>1. /\ job \in Jobs /\ job.run \in 1..MaxRun /\ job.gen \in Nat
        /\ usage \in [rounds : Nat, calls : Nat, known : BOOLEAN]
    BY LearnerTyped
  <2> HIDE DEF ReflectionInv
  <2> QED BY <2>1
<1>3. /\ place = "ask" /\ place' \in {"model", "over"} /\ finding' \in {finding, "limits"}
      /\ usage' = usage \/ usage' = [usage EXCEPT !.rounds = r]
      /\ job' = job \/ job' = [job EXCEPT !.asked = g]
      /\ notes' = notes /\ faults' = faults /\ goals' = goals /\ commands' = commands /\ call' = call /\ review' = review
  BY DEF NextRequest, Ends
<1> HIDE DEF r, g
<1>4. /\ job' \in Jobs /\ job'.run = job.run /\ job'.gen = job.gen /\ job'.seen = job.seen
      /\ job'.asked \in {job.asked, g}
  BY <1>2, <1>3 DEF Jobs
<1>5. usage' \in [rounds : Nat, calls : Nat, known : BOOLEAN] BY <1>2, <1>3
<1>6. ReflectionTypeOK'
  <2>1. place' \in Places /\ finding' \in {finding, "limits"} BY <1>3 DEF Places
  <2> HIDE DEF ReflectionInv
  <2> QED BY <1>1, <1>2, <1>3, <1>4, <1>5, <2>1 DEF ReflectionTypeOK, NextRequest
<1>7. FaultsFit' /\ CallsForReview' BY <1>3, <1>4, NothingLearnt DEF LearnsNothing
<1>8. CallFits' BY <1>3 DEF CallFits
<1>9. TurnFits' BY <1>1, <1>2, <1>4 DEF TurnFits, g
<1>10. OpinionFits' BY <1>3, NotYetRead, NoOpinion
<1> QED BY <1>6, <1>7, <1>8, <1>9, <1>10 DEF ReflectionInv

\* The price of a request.
LEMMA PriceTyped ==
  ASSUME ReflectionInv, NEW complete \in BOOLEAN, NEW spent \in Nat, Accounted(complete, spent) \/ Unaccounted
  PROVE  usage' \in [rounds : Nat, calls : Nat, known : BOOLEAN] /\ owed' \in {"clear", "open", "lost"}
<1> DEFINE k == usage.known /\ complete
<1> DEFINE c == usage.calls + spent
<1>1. usage \in [rounds : Nat, calls : Nat, known : BOOLEAN] /\ owed \in {"clear", "open", "lost"}
  BY LearnerTyped DEF ReflectionInv, ReflectionTypeOK
<1> HIDE DEF ReflectionInv
<1>2. k \in BOOLEAN /\ c \in Nat BY <1>1
<1>3. usage' \in {[usage EXCEPT !.known = k, !.calls = c], [usage EXCEPT !.known = FALSE]}
  BY DEF Accounted, Unaccounted
<1>4. owed' \in {"clear", "open", "lost"} BY <1>1 DEF Accounted, Unaccounted
<1> HIDE DEF k, c
<1>5. usage' \in [rounds : Nat, calls : Nat, known : BOOLEAN] BY <1>1, <1>2, <1>3
<1> QED BY <1>4, <1>5

\* What the model asks for is a call, and starts a command that was not started.
LEMMA OffersFit ==
  ASSUME NEW c \in Offers
  PROVE  c \in ToolCalls /\ c # NoCall /\ (c.kind = "start" => commands[c.on].how = "none")
BY DEF Offers, ToolCalls, NoCall

LEMMA ModelAnswersKeeps ==
  ASSUME ReflectionInv, NEW c \in Offers \cup {NoCall}, NEW complete \in BOOLEAN, ModelAnswers(c, complete)
  PROVE  ReflectionInv'
<1> DEFINE s == job.asked
<1>1. ReflectionTypeOK /\ CallFits /\ TurnFits /\ OpinionFits BY DEF ReflectionInv
<1>2. job \in Jobs /\ job.run \in 1..MaxRun /\ s \in Nat BY LearnerTyped
<1>3. /\ place = "model" /\ place' \in {"ask", "verify", "tool"} /\ finding' = finding
      /\ job' = job \/ job' = [job EXCEPT !.seen = s]
      /\ notes' = notes /\ faults' = faults /\ goals' = goals /\ commands' = commands /\ review' = review
      /\ (place' = "tool" => call' = c /\ c # NoCall) /\ call' \in {call, c}
  BY DEF ModelAnswers
<1> HIDE DEF s
<1>4. /\ job' \in Jobs /\ job'.run = job.run /\ job'.gen = job.gen /\ job'.seen \in {job.seen, s}
      /\ job'.asked = job.asked
  BY <1>2, <1>3 DEF Jobs
<1>5. usage' \in [rounds : Nat, calls : Nat, known : BOOLEAN] /\ owed' \in {"clear", "open", "lost"}
  BY PriceTyped DEF ModelAnswers
<1>6. ReflectionTypeOK'
  <2>1. place' \in Places BY <1>3 DEF Places
  <2>2. call' \in ToolCalls \cup {NoCall} BY <1>1, <1>3, OffersFit DEF ReflectionTypeOK
  <2> HIDE DEF ReflectionInv
  <2> QED BY <1>1, <1>2, <1>3, <1>4, <1>5, <2>1, <2>2 DEF ReflectionTypeOK, ModelAnswers
<1>7. FaultsFit' /\ CallsForReview' BY <1>3, <1>4, NothingLearnt DEF LearnsNothing
<1>8. CallFits' BY <1>3, OffersFit DEF CallFits
<1>9. TurnFits' BY <1>1, <1>4 DEF TurnFits, s
<1>10. OpinionFits' BY <1>3, NotYetRead, NoOpinion
<1> QED BY <1>6, <1>7, <1>8, <1>9, <1>10 DEF ReflectionInv

LEMMA ModelCutKeeps ==
  ASSUME ReflectionInv, ModelCut
  PROVE  ReflectionInv'
<1>1. ReflectionTypeOK /\ CallFits /\ TurnFits /\ OpinionFits BY DEF ReflectionInv
<1>2. /\ place = "model" /\ place' \in {"ask", "over"} /\ finding' \in {finding, "failed"} /\ job' = job
      /\ notes' = notes /\ faults' = faults /\ goals' = goals /\ commands' = commands /\ review' = review /\ call' = call
  BY DEF ModelCut, Ends
<1>3. usage' \in [rounds : Nat, calls : Nat, known : BOOLEAN] /\ owed' \in {"clear", "open", "lost"}
  BY PriceTyped DEF ModelCut
<1>4. ReflectionTypeOK'
  <2>1. place' \in Places BY <1>2 DEF Places
  <2> HIDE DEF ReflectionInv
  <2> QED BY <1>1, <1>2, <1>3, <2>1 DEF ReflectionTypeOK, ModelCut
<1>5. FaultsFit' /\ CallsForReview' BY <1>2, NothingLearnt DEF LearnsNothing
<1>6. CallFits' BY <1>2 DEF CallFits
<1>7. TurnFits' BY <1>1, <1>2 DEF TurnFits
<1>8. OpinionFits' BY <1>2, NotYetRead, NoOpinion
<1> QED BY <1>4, <1>5, <1>6, <1>7, <1>8 DEF ReflectionInv


\* A command that was read has ended, and stays as it ended.
LEMMA CommandsMove ==
  ASSUME ReflectionInv, place = "tool", NEW how \in Outcomes \cup {"none", "cancelled"}, PerformCall(how)
  PROVE  commands' \in [Managed -> ManagedRows] /\ \A e \in notes.seen : commands'[e].how = commands[e].how
<1>1. /\ commands \in [Managed -> ManagedRows] /\ notes.seen \subseteq Managed /\ job.run \in Nat
      /\ \A e \in notes.seen : commands[e].how \in EndKinds
  <2>1. commands \in [Managed -> ManagedRows] /\ notes.seen \subseteq Managed /\ job \in Jobs BY LearnerTyped
  <2>2. \A e \in notes.seen : commands[e].how \in EndKinds BY DEF ReflectionInv, FaultsFit
  <2> HIDE DEF ReflectionInv
  <2> QED BY <2>1, <2>2 DEF Jobs
<1>2. call \in ToolCalls /\ (call.kind = "start" => commands[call.on].how = "none")
  BY DEF ReflectionInv, ReflectionTypeOK, CallFits
<1>3. how \in {"none", "running"} \cup EndKinds BY DEF Outcomes, EndKinds
<1> HIDE DEF ReflectionInv
<1>4. CASE commands' = commands BY <1>1, <1>4
<1>5. CASE /\ job.seen = job.gen /\ call.kind = "start"
           /\ commands' = [commands EXCEPT ![call.on] = [run |-> job.run, target |-> call.target, how |-> how]]
  <2> DEFINE e == call.on
  <2> DEFINE w == [run |-> job.run, target |-> call.target, how |-> how]
  <2>1. e \in Managed /\ call.target \in Target BY <1>2, <1>5 DEF ToolCalls
  <2>2. w \in ManagedRows BY <1>1, <1>3, <2>1 DEF ManagedRows
  <2>3. commands' = [commands EXCEPT ![e] = w] BY <1>5
  <2>4. e \notin notes.seen BY <1>1, <1>2, <1>5 DEF EndKinds
  <2> HIDE DEF w, e
  <2> QED BY <1>1, <2>1, <2>2, <2>3, <2>4
<1>6. CASE /\ call.kind = "read" /\ Found(call.on, how)
           /\ commands' = [commands EXCEPT ![call.on].how = how]
  <2> DEFINE e == call.on
  <2> DEFINE w == [commands[e] EXCEPT !.how = how]
  <2>1. e \in Managed BY <1>2, <1>6 DEF ToolCalls
  <2>2. w \in ManagedRows /\ w.how = how
    <3>1. commands[e] \in ManagedRows BY <1>1, <2>1
    <3> HIDE DEF e
    <3> QED BY <1>3, <3>1 DEF ManagedRows
  <2>3. commands' = [commands EXCEPT ![e] = w] BY <1>6
  <2>4. e \in notes.seen => how = commands[e].how BY <1>1, <1>6 DEF Found, EndKinds
  <2> HIDE DEF w, e
  <2> QED BY <1>1, <2>1, <2>2, <2>3, <2>4
<1> QED
  <2>1. call.kind \in {"start", "read", "patch", "other"} BY <1>2 DEF ToolCalls
  <2> QED BY <1>4, <1>5, <1>6, <2>1 DEF PerformCall

LEMMA PerformCallKeeps ==
  ASSUME ReflectionInv, NEW how \in Outcomes \cup {"none", "cancelled"}, PerformCall(how)
  PROVE  ReflectionInv'
<1> DEFINE v == job.version + 1
<1>1. ReflectionTypeOK /\ CallFits /\ TurnFits /\ OpinionFits BY DEF ReflectionInv
<1>2. job \in Jobs /\ job.run \in 1..MaxRun /\ v \in Nat
  <2>1. job \in Jobs /\ job.run \in 1..MaxRun /\ job.version \in Nat BY LearnerTyped
  <2> HIDE DEF ReflectionInv
  <2> QED BY <2>1
<1>c. call \in ToolCalls BY DEF ReflectionInv, ReflectionTypeOK, CallFits, PerformCall
<1>3. /\ place = "tool" /\ place' = "result" /\ finding' = finding
      /\ notes' = notes /\ faults' = faults /\ goals' = goals /\ review' = review /\ call' = call
  BY DEF PerformCall
<1>4. job' = job \/ job' = [job EXCEPT !.version = v, !.changed = TRUE]
  <2>1. call.kind \in {"start", "read", "patch", "other"} BY <1>c DEF ToolCalls
  <2> HIDE DEF ReflectionInv
  <2> QED BY <2>1 DEF PerformCall
<1> HIDE DEF v
<1>5. /\ job' \in Jobs /\ job'.run = job.run /\ job'.gen = job.gen /\ job'.seen = job.seen /\ job'.asked = job.asked
  BY <1>2, <1>4 DEF Jobs
<1>6. commands' \in [Managed -> ManagedRows] /\ \A e \in notes.seen : commands'[e].how = commands[e].how
  BY <1>3, CommandsMove
<1>7. ReflectionTypeOK'
  <2>1. place' \in Places BY <1>3 DEF Places
  <2>2. report' \in [Check -> Status \cup {"pending", "skipped"}]
    BY <1>1 DEF ReflectionTypeOK, PerformCall, Outdated
  <2> HIDE DEF ReflectionInv
  <2> QED BY <1>1, <1>2, <1>3, <1>5, <1>6, <2>1, <2>2 DEF ReflectionTypeOK, PerformCall
<1>8. FaultsFit' /\ CallsForReview'
  <2>1. Goal' = Goal BY <1>3, <1>5 DEF Goal
  <2> QED BY <1>3, <1>6, <2>1, SameNotes
<1>9. CallFits' BY <1>1, <1>3 DEF CallFits
<1>10. TurnFits' BY <1>1, <1>5 DEF TurnFits
<1>11. OpinionFits' BY <1>3, NotYetRead, NoOpinion
<1> QED BY <1>7, <1>8, <1>9, <1>10, <1>11 DEF ReflectionInv

LEMMA FinalizeResultKeeps ==
  ASSUME ReflectionInv, NEW next \in Offers \cup {NoCall}, FinalizeResult(next)
  PROVE  ReflectionInv'
<1> DEFINE k == usage.calls + 1
<1>1. ReflectionTypeOK /\ CallFits /\ TurnFits /\ OpinionFits BY DEF ReflectionInv
<1>2. usage \in [rounds : Nat, calls : Nat, known : BOOLEAN] BY LearnerTyped
<1>3. k \in Nat BY <1>2
<1>4. /\ place = "result" /\ place' = (IF next = NoCall THEN "ask" ELSE "tool") /\ finding' = finding /\ job' = job
      /\ goals' = goals /\ commands' = commands /\ review' = review /\ call' = next
      /\ usage' \in {usage, [usage EXCEPT !.calls = k]}
  BY DEF FinalizeResult
<1> HIDE DEF k
<1>5. usage' \in [rounds : Nat, calls : Nat, known : BOOLEAN] BY <1>2, <1>3, <1>4
<1>6. FaultsFit' /\ CallsForReview' /\ notes' \in Notes({notes'.entries})
      /\ faults' \in [commands : SUBSET Managed, others : Nat]
  <2> DEFINE n == Observed(Refresh(notes))
  <2> DEFINE c == NowFaults
  <2>1. Counted(notes, faults) BY CountedNow
  <2>2. Counted(n, c) BY <1>4, ResultCounted
  <2>3. (notes' = notes /\ faults' = faults) \/ (notes' = n /\ faults' = c) BY DEF FinalizeResult
  <2>4. Goal' = Goal BY <1>4 DEF Goal
  <2> HIDE DEF n, c, ReflectionInv
  <2> QED BY <1>4, <2>1, <2>2, <2>3, <2>4, NewNotes
<1>7. ReflectionTypeOK'
  <2>1. place' \in Places BY <1>4 DEF Places
  <2>2. call' \in ToolCalls \cup {NoCall} BY <1>4, OffersFit
  <2> HIDE DEF ReflectionInv
  <2> QED BY <1>1, <1>4, <1>5, <1>6, <2>1, <2>2 DEF ReflectionTypeOK, FinalizeResult
<1>8. CallFits' BY <1>4, OffersFit DEF CallFits
<1>9. TurnFits' BY <1>1, <1>4 DEF TurnFits
<1>10. OpinionFits' BY <1>4, NotYetRead, NoOpinion
<1> QED BY <1>6, <1>7, <1>8, <1>9, <1>10 DEF ReflectionInv


-----------------------------------------------------------------------------
(* The verifier and the review. *)

\* Another round with the correction, or the end: no opinion counts any more.
LEMMA ReworkFits ==
  ASSUME ReflectionInv, NEW again \in BOOLEAN, Rework(again)
  PROVE  /\ place' \in {"ask", "over"} /\ (place' = "over" => finding' = "refused") /\ finding' \in {finding, "refused"}
         /\ job' \in Jobs /\ job'.run = job.run /\ job'.gen = job.gen /\ job'.seen = job.seen
         /\ job'.asked = job.asked /\ job'.version = job.version
<1> DEFINE r == job.retries + 1
<1>1. job \in Jobs BY LearnerTyped
<1> HIDE DEF ReflectionInv
<1>2. r \in Nat BY <1>1 DEF Jobs
<1>3. job' = job \/ job' = [job EXCEPT !.retries = r] BY DEF Rework
<1> HIDE DEF r
<1>4. /\ job' \in Jobs /\ job'.run = job.run /\ job'.gen = job.gen /\ job'.seen = job.seen
      /\ job'.asked = job.asked /\ job'.version = job.version
  BY <1>1, <1>2, <1>3 DEF Jobs
<1> QED BY <1>4 DEF Rework, Ends

LEMMA BeginVerifyKeeps ==
  ASSUME ReflectionInv, BeginVerify
  PROVE  ReflectionInv'
<1>1. ReflectionTypeOK /\ CallFits /\ TurnFits /\ OpinionFits BY DEF ReflectionInv
<1>2. /\ place = "verify" /\ place' \in {"ask", "over", "weigh"} /\ finding' \in {finding, "refused"}
      /\ job' \in Jobs /\ job'.run = job.run /\ job'.gen = job.gen /\ job'.seen = job.seen /\ job'.asked = job.asked
  BY ReworkFits, LearnerTyped DEF BeginVerify, Discarded
<1>3. /\ notes' = notes /\ faults' = faults /\ goals' = goals /\ commands' = commands /\ review' = review /\ call' = call
  BY DEF BeginVerify
<1>4. ReflectionTypeOK'
  <2>1. place' \in Places BY <1>2 DEF Places
  <2> HIDE DEF ReflectionInv
  <2> QED BY <1>1, <1>2, <1>3, <2>1 DEF ReflectionTypeOK, BeginVerify
<1>5. FaultsFit' /\ CallsForReview' BY <1>2, <1>3, NothingLearnt DEF LearnsNothing
<1>6. CallFits' BY <1>2 DEF CallFits
<1>7. TurnFits' BY <1>1, <1>2 DEF TurnFits
<1>8. OpinionFits' BY <1>2, <1>3, NotYetRead, NoOpinion
<1> QED BY <1>4, <1>5, <1>6, <1>7, <1>8 DEF ReflectionInv

LEMMA NoReviewTyped ==
  ASSUME ReflectionInv
  PROVE  NoReview \in [attempts : Nat, of : Bindings, passed : BOOLEAN] /\ ~NoReview.passed
<1>1. review \in [attempts : Nat, of : Bindings, passed : BOOLEAN] BY LearnerTyped
<1> HIDE DEF ReflectionInv
<1> QED BY <1>1 DEF NoReview, Bindings

\* The state an opinion is about.
LEMMA BindingTyped ==
  ASSUME ReflectionInv
  PROVE  ReviewBinding \in Bindings
<1>1. Goal \in Nat /\ job.version \in Nat /\ job.gen \in Nat BY LearnerTyped
<1> HIDE DEF ReflectionInv
<1> QED BY <1>1 DEF ReviewBinding, Now, Bindings

\* The run asks for a review, sends it or reads it.
LEMMA ReviewStepKeeps ==
  ASSUME ReflectionInv, place' \in Places, place' \notin {"tool", "result"}, finding' \in {finding, "refused"},
         job' \in Jobs, job'.run = job.run, job'.gen = job.gen, job'.seen = job.seen, job'.asked = job.asked,
         usage' \in [rounds : Nat, calls : Nat, known : BOOLEAN], owed' \in {"clear", "open", "lost"},
         review' \in [attempts : Nat, of : Bindings, passed : BOOLEAN], OpinionFits',
         LearnsNothing, commands' = commands, call' = call, settings' = settings, report' = report, bound' = bound
  PROVE  ReflectionInv'
<1>1. ReflectionTypeOK /\ CallFits /\ TurnFits BY DEF ReflectionInv
<1>2. notes' = notes /\ faults' = faults /\ goals' = goals BY DEF LearnsNothing
<1>3. FaultsFit' /\ CallsForReview' BY NothingLearnt
<1>4. ReflectionTypeOK'
  <2> HIDE DEF ReflectionInv
  <2> QED BY <1>1, <1>2 DEF ReflectionTypeOK
<1>5. CallFits' BY DEF CallFits
<1>6. TurnFits' BY <1>1 DEF TurnFits
<1> QED BY <1>3, <1>4, <1>5, <1>6 DEF ReflectionInv

LEMMA RequestReviewKeeps ==
  ASSUME ReflectionInv, NEW available \in BOOLEAN, RequestReview(available)
  PROVE  ReflectionInv'
<1> DEFINE b == ReviewBinding
<1>1. /\ place = "review" /\ place' \in {"ask", "over", "binding"} /\ finding' \in {finding, "refused"}
      /\ job' \in Jobs /\ job'.run = job.run /\ job'.gen = job.gen /\ job'.seen = job.seen /\ job'.asked = job.asked
  BY ReworkFits, LearnerTyped DEF RequestReview, Discarded, Unavailable
<1>2. review' = review \/ review' = [review EXCEPT !.of = b] BY DEF RequestReview
<1>3. b \in Bindings BY BindingTyped
<1>4. ~review.passed /\ finding # "verified" BY <1>1, NotYetRead
<1>5. review \in [attempts : Nat, of : Bindings, passed : BOOLEAN] BY LearnerTyped
<1>6. /\ LearnsNothing /\ commands' = commands /\ call' = call /\ settings' = settings /\ report' = report /\ bound' = bound
      /\ usage' = usage /\ owed' = owed
  BY <1>1 DEF RequestReview, LearnsNothing
<1>7. usage \in [rounds : Nat, calls : Nat, known : BOOLEAN] /\ owed \in {"clear", "open", "lost"}
  BY DEF ReflectionInv, ReflectionTypeOK
<1> HIDE DEF b
<1>8. review' \in [attempts : Nat, of : Bindings, passed : BOOLEAN] /\ ~review'.passed BY <1>2, <1>3, <1>4, <1>5
<1>9. OpinionFits' BY <1>1, <1>4, <1>8, NoOpinion
<1>10. place' \in Places /\ place' \notin {"tool", "result"} BY <1>1 DEF Places
<1> HIDE DEF ReflectionInv
<1> QED BY <1>1, <1>6, <1>7, <1>8, <1>9, <1>10, ReviewStepKeeps

LEMMA SendReviewKeeps ==
  ASSUME ReflectionInv, SendReview
  PROVE  ReflectionInv'
<1> DEFINE r == usage.rounds + 1
<1> DEFINE a == review.attempts + 1
<1>1. /\ place = "binding" /\ place' \in {"ask", "over", "opinion"} /\ finding' \in {finding, "refused"}
      /\ job' \in Jobs /\ job'.run = job.run /\ job'.gen = job.gen /\ job'.seen = job.seen /\ job'.asked = job.asked
      /\ job'.version = job.version
  BY ReworkFits, LearnerTyped DEF SendReview, Discarded, Unavailable
<1>2. review' \in {NoReview, [review EXCEPT !.attempts = a]} /\ usage' \in {usage, [usage EXCEPT !.rounds = r]}
  BY DEF SendReview
<1>3. place' = "opinion" => review.of = ReviewBinding /\ review' = [review EXCEPT !.attempts = a]
  BY ReworkFits DEF SendReview, Discarded, Unavailable
<1>4. ~review.passed /\ finding # "verified" BY <1>1, NotYetRead
<1>5. /\ review \in [attempts : Nat, of : Bindings, passed : BOOLEAN]
      /\ usage \in [rounds : Nat, calls : Nat, known : BOOLEAN] /\ a \in Nat /\ r \in Nat
  <2>1. /\ review \in [attempts : Nat, of : Bindings, passed : BOOLEAN]
        /\ usage \in [rounds : Nat, calls : Nat, known : BOOLEAN]
    BY LearnerTyped
  <2> HIDE DEF ReflectionInv
  <2> QED BY <2>1
<1>6. NoReview \in [attempts : Nat, of : Bindings, passed : BOOLEAN] /\ ~NoReview.passed BY NoReviewTyped
<1>7. /\ LearnsNothing /\ commands' = commands /\ call' = call /\ settings' = settings /\ report' = report /\ bound' = bound
      /\ owed' = owed
  BY <1>1 DEF SendReview, LearnsNothing
<1>8. owed \in {"clear", "open", "lost"} BY DEF ReflectionInv, ReflectionTypeOK
<1> HIDE DEF a, r, ReflectionInv
<1>9. review' \in [attempts : Nat, of : Bindings, passed : BOOLEAN] /\ ~review'.passed BY <1>2, <1>4, <1>5, <1>6
<1>10. usage' \in [rounds : Nat, calls : Nat, known : BOOLEAN] BY <1>2, <1>5
<1>11. ReviewBinding' = ReviewBinding
  BY <1>1, <1>7 DEF ReviewBinding, Now, Goal, LearnsNothing
<1>12. place' = "opinion" => review'.of = ReviewBinding' BY <1>3, <1>5, <1>11
<1>13. OpinionFits' BY <1>1, <1>4, <1>9, <1>12 DEF OpinionFits
<1>14. place' \in Places /\ place' \notin {"tool", "result"} BY <1>1 DEF Places
<1> QED BY <1>1, <1>7, <1>8, <1>9, <1>10, <1>13, <1>14, ReviewStepKeeps

LEMMA OpinionKeeps ==
  ASSUME ReflectionInv, NEW says \in {"pass", "revise", "invalid", "changed"}, NEW complete \in BOOLEAN,
         Opinion(says, complete)
  PROVE  ReflectionInv'
<1>1. /\ place = "opinion" /\ place' \in {"ask", "over", "weigh"} /\ finding' \in {finding, "refused"}
      /\ job' \in Jobs /\ job'.run = job.run /\ job'.gen = job.gen /\ job'.seen = job.seen /\ job'.asked = job.asked
      /\ job'.version = job.version
  BY ReworkFits, LearnerTyped DEF Opinion, Discarded, Unavailable
<1>2. /\ review' = NoReview
      \/ /\ ~Stale /\ place' = "weigh" /\ review' = [review EXCEPT !.passed = TRUE]
  BY DEF Opinion
<1>3. finding # "verified" /\ (~Stale => review.of = ReviewBinding)
  BY <1>1, NotYetRead DEF ReflectionInv, OpinionFits
<1>4. review \in [attempts : Nat, of : Bindings, passed : BOOLEAN] BY LearnerTyped
<1>5. NoReview \in [attempts : Nat, of : Bindings, passed : BOOLEAN] /\ ~NoReview.passed BY NoReviewTyped
<1>6. /\ LearnsNothing /\ commands' = commands /\ call' = call /\ settings' = settings /\ report' = report /\ bound' = bound
  BY <1>1 DEF Opinion, LearnsNothing
<1>7. usage' \in [rounds : Nat, calls : Nat, known : BOOLEAN] /\ owed' \in {"clear", "open", "lost"}
  BY PriceTyped DEF Opinion
<1> HIDE DEF ReflectionInv
<1>8. review' \in [attempts : Nat, of : Bindings, passed : BOOLEAN] BY <1>2, <1>4, <1>5
<1>9. ReviewBinding' = ReviewBinding /\ (Stale' <=> Stale)
  BY <1>1, <1>6 DEF ReviewBinding, Now, Goal, LearnsNothing, Stale
<1>10. review'.passed => place' = "weigh" /\ review'.of = ReviewBinding' BY <1>2, <1>3, <1>4, <1>5, <1>9
<1>11. OpinionFits' BY <1>1, <1>3, <1>10 DEF OpinionFits
<1>12. place' \in Places /\ place' \notin {"tool", "result"} BY <1>1 DEF Places
<1> QED BY <1>1, <1>6, <1>7, <1>8, <1>11, <1>12, ReviewStepKeeps

LEMMA ReviewCutKeeps ==
  ASSUME ReflectionInv, ReviewCut
  PROVE  ReflectionInv'
<1>1. /\ place = "opinion" /\ place' \in {"ask", "over"} /\ finding' \in {finding, "refused"}
      /\ job' \in Jobs /\ job'.run = job.run /\ job'.gen = job.gen /\ job'.seen = job.seen /\ job'.asked = job.asked
  BY ReworkFits DEF ReviewCut, Discarded, Unavailable
<1>2. review' = NoReview BY DEF ReviewCut
<1>3. finding # "verified" BY <1>1, NotYetRead
<1>4. NoReview \in [attempts : Nat, of : Bindings, passed : BOOLEAN] /\ ~NoReview.passed BY NoReviewTyped
<1>5. /\ LearnsNothing /\ commands' = commands /\ call' = call /\ settings' = settings /\ report' = report /\ bound' = bound
  BY <1>1 DEF ReviewCut, LearnsNothing
<1>6. usage' \in [rounds : Nat, calls : Nat, known : BOOLEAN] /\ owed' \in {"clear", "open", "lost"}
  BY PriceTyped DEF ReviewCut
<1>7. OpinionFits' BY <1>1, <1>2, <1>3, <1>4, NoOpinion
<1>8. place' \in Places /\ place' \notin {"tool", "result"} BY <1>1 DEF Places
<1> HIDE DEF ReflectionInv
<1> QED BY <1>1, <1>2, <1>4, <1>5, <1>6, <1>7, <1>8, ReviewStepKeeps


\* What the results say ends the run, or sends it back.
LEMMA DecideFits ==
  ASSUME ReflectionInv, NEW result, Decide(result)
  PROVE  /\ place' \in {"ask", "over"} /\ finding' \in {finding, "refused", "answered", "verified"}
         /\ job' \in Jobs /\ job'.run = job.run /\ job'.gen = job.gen /\ job'.seen = job.seen
         /\ job'.asked = job.asked /\ job'.version = job.version
         /\ (finding' = "verified" /\ finding # "verified" =>
               place' = "over" /\ Demands # {} /\ \A d \in Demands : result[d] = "passed")
<1> DEFINE all == {result[d] : d \in Demands}
<1> DEFINE again == "blocked" \notin all /\ "failed" \in all
<1>1. CASE all \subseteq {"passed"}
  <2>1. Ends(IF Demands = {} THEN "answered" ELSE "verified") /\ UNCHANGED job BY <1>1 DEF Decide
  <2>2. \A d \in Demands : result[d] = "passed" BY <1>1
  <2>3. job \in Jobs BY LearnerTyped
  <2> HIDE DEF ReflectionInv
  <2> QED BY <2>1, <2>2, <2>3 DEF Ends
<1>2. CASE ~(all \subseteq {"passed"})
  <2>1. Rework(again) BY <1>2 DEF Decide
  <2>2. again \in BOOLEAN OBVIOUS
  <2> HIDE DEF again
  <2> QED BY <2>1, <2>2, ReworkFits
<1> QED BY <1>1, <1>2

LEMMA WeighResultsKeeps ==
  ASSUME ReflectionInv, NEW result \in [Check \cup {"change"} -> Status], WeighResults(result)
  PROVE  ReflectionInv'
<1> DEFINE n == Verified(Refresh(notes), result)
<1> DEFINE f == IF Fails(result) THEN [faults EXCEPT !.others = @ + 1] ELSE faults
<1> DEFINE proved == Demands # {} /\ (\A d \in Demands : result[d] = "passed")
<1>1. ReflectionTypeOK /\ CallFits /\ TurnFits /\ OpinionFits BY DEF ReflectionInv
<1>2. /\ place = "weigh" /\ goals' = goals /\ commands' = commands /\ call' = call
      /\ review' = (IF place' = "ask" THEN NoReview ELSE review)
  BY DEF WeighResults
<1>3. finding # "verified" BY <1>2, NotYetRead
<1>4. \/ Discarded /\ notes' = notes /\ faults' = faults
      \/ place' = "review" /\ NeedsReview /\ job' = job /\ finding' = finding /\ notes' = notes /\ faults' = faults
      \/ ~Stale /\ ~(proved /\ NeedsReview) /\ notes' = n /\ faults' = f /\ Decide(result)
  BY DEF WeighResults
<1>5. /\ place' \in {"ask", "over", "review"} /\ finding' \in {finding, "refused", "answered", "verified"}
      /\ job' \in Jobs /\ job'.run = job.run /\ job'.gen = job.gen /\ job'.seen = job.seen
      /\ job'.asked = job.asked /\ job'.version = job.version
  BY <1>4, ReworkFits, DecideFits, LearnerTyped DEF Discarded
<1>6. FaultsFit' /\ CallsForReview' /\ notes' \in Notes({notes'.entries})
      /\ faults' \in [commands : SUBSET Managed, others : Nat]
  <2>1. Counted(notes, faults) BY CountedNow
  <2>2. Counted(n, f) BY ResultsCounted
  <2>3. (notes' = notes /\ faults' = faults) \/ (notes' = n /\ faults' = f) BY <1>4
  <2>4. Goal' = Goal BY <1>2, <1>5 DEF Goal
  <2> HIDE DEF n, f, ReflectionInv
  <2> QED BY <1>2, <2>1, <2>2, <2>3, <2>4, NewNotes
<1>7. review' \in [attempts : Nat, of : Bindings, passed : BOOLEAN] /\ (place' = "ask" => ~review'.passed)
  BY <1>2, NoReviewTyped, LearnerTyped
<1>8. ReflectionTypeOK'
  <2>1. place' \in Places BY <1>5 DEF Places
  <2>2. report' \in [Check -> Status \cup {"pending", "skipped"}] BY DEF WeighResults, Recorded
  <2> HIDE DEF ReflectionInv
  <2> QED BY <1>1, <1>2, <1>5, <1>6, <1>7, <2>1, <2>2 DEF ReflectionTypeOK, WeighResults
<1>9. CallFits' BY <1>5 DEF CallFits
<1>10. TurnFits' BY <1>1, <1>5 DEF TurnFits
<1>11. OpinionFits'
  <2>1. place' = "review" => ~review'.passed BY <1>2, <1>4, ReworkFits, DecideFits DEF NeedsReview, Discarded
  <2>2. place' = "over" => finding' \in {"refused", "answered", "verified"}
    BY <1>4, ReworkFits, DecideFits DEF Discarded, Decide, Ends, Rework
  <2>3. finding' = "verified" => place' = "over" /\ ReviewBeforeDelivery'
    <3>1. SUFFICES ASSUME finding' = "verified" PROVE place' = "over" /\ ReviewBeforeDelivery' OBVIOUS
    <3>2. ~Stale /\ ~(proved /\ NeedsReview) /\ notes' = n /\ faults' = f /\ Decide(result)
      BY <1>3, <1>4, <3>1, ReworkFits DEF Discarded
    <3>3. place' = "over" /\ Demands # {} /\ \A d \in Demands : result[d] = "passed"
      BY <1>3, <3>1, <3>2, DecideFits
    <3>4. job.changed BY <3>3 DEF Demands
    <3>5. ~Refresh(notes).review \/ review.passed BY <3>2, <3>3, <3>4 DEF NeedsReview
    <3>6. faults' = faults
      <4>1. ~Fails(result) BY <3>3 DEF Fails
      <4> QED BY <3>2, <4>1
    <3>7. Refresh(notes).review <=> Faults >= ReviewAt
      <4>1. Refresh(notes).count = Faults /\ (Refresh(notes).review <=> Refresh(notes).count >= ReviewAt)
        BY CountedNow DEF Counted, Faults
      <4> QED BY <4>1
    <3>8. Faults' = Faults BY <3>6 DEF Faults
    <3>9. review' = review BY <1>2, <3>3
    <3>10. ReviewBinding' = ReviewBinding BY <1>2, <1>5 DEF ReviewBinding, Now, Goal
    <3>11. review.passed => review.of = ReviewBinding BY <1>1, <1>2, <3>2 DEF OpinionFits
    <3> HIDE DEF ReflectionInv
    <3> QED BY <3>3, <3>5, <3>7, <3>8, <3>9, <3>10, <3>11 DEF ReviewBeforeDelivery
  <2> QED BY <1>5, <1>7, <2>1, <2>2, <2>3 DEF OpinionFits
<1> QED BY <1>6, <1>8, <1>9, <1>10, <1>11 DEF ReflectionInv

-----------------------------------------------------------------------------
(* The end of a run, and the next. *)

\* A run that is stopped ends what still ran.
LEMMA StoppedKeeps ==
  ASSUME ReflectionInv, place # "over", place' = "over", finding' = "stopped", call' = NoCall, review' = NoReview,
         commands' \in [Managed -> ManagedRows], \A e \in Managed : commands[e].how # "running" => commands'[e] = commands[e],
         usage' \in [rounds : Nat, calls : Nat, known : BOOLEAN], owed' \in {"clear", "open", "lost"},
         UNCHANGED <<job, goals, notes, settings, report, bound, faults>>
  PROVE  ReflectionInv'
<1>1. ReflectionTypeOK /\ TurnFits BY DEF ReflectionInv
<1>2. notes.seen \subseteq Managed /\ \A e \in notes.seen : commands[e].how \in EndKinds
  BY LearnerTyped DEF ReflectionInv, FaultsFit
<1>3. NoReview \in [attempts : Nat, of : Bindings, passed : BOOLEAN] /\ ~NoReview.passed BY NoReviewTyped
<1>4. FaultsFit' /\ CallsForReview'
  <2>1. Goal' = Goal BY DEF Goal
  <2>2. \A e \in notes.seen : commands'[e].how = commands[e].how BY <1>2 DEF EndKinds
  <2> QED BY <2>1, <2>2, SameNotes
<1>5. ReflectionTypeOK'
  <2>1. place' \in Places BY DEF Places
  <2> HIDE DEF ReflectionInv
  <2> QED BY <1>1, <1>3, <2>1 DEF ReflectionTypeOK
<1>6. CallFits' BY DEF CallFits
<1>7. TurnFits' BY <1>1 DEF TurnFits
<1>8. OpinionFits' BY <1>3, NoOpinion
<1> QED BY <1>4, <1>5, <1>6, <1>7, <1>8 DEF ReflectionInv

LEMMA StopRunKeeps ==
  ASSUME ReflectionInv, StopRun
  PROVE  ReflectionInv'
<1>1. /\ place # "over" /\ place' = "over" /\ finding' = "stopped" /\ call' = NoCall /\ review' = NoReview
      /\ UNCHANGED <<job, goals, notes, settings, report, bound, faults>>
  BY DEF StopRun, Ends
<1>2. usage' \in [rounds : Nat, calls : Nat, known : BOOLEAN] /\ owed' \in {"clear", "open", "lost"}
  <2>1. usage \in [rounds : Nat, calls : Nat, known : BOOLEAN] /\ owed \in {"clear", "open", "lost"}
    BY DEF ReflectionInv, ReflectionTypeOK
  <2> QED BY <2>1, PriceTyped DEF StopRun
<1>3. commands \in [Managed -> ManagedRows] BY LearnerTyped
<1>4. PICK last \in [Managed -> {"cancelled", "passed", "failed"}] :
        commands' = [e \in Managed |-> IF commands[e].how = "running" THEN [commands[e] EXCEPT !.how = last[e]] ELSE commands[e]]
  BY DEF StopRun
<1> HIDE DEF ReflectionInv
<1>5. \A e \in Managed : commands'[e] \in ManagedRows /\ (commands[e].how # "running" => commands'[e] = commands[e])
  <2> TAKE e \in Managed
  <2> DEFINE h == last[e]
  <2> DEFINE row == commands[e]
  <2> DEFINE w == [row EXCEPT !.how = h]
  <2>1. row \in ManagedRows /\ h \in EndKinds BY <1>3 DEF EndKinds
  <2>2. commands'[e] = IF row.how = "running" THEN w ELSE row BY <1>4
  <2> HIDE DEF h, row
  <2>3. w \in ManagedRows BY <2>1 DEF ManagedRows
  <2> HIDE DEF w
  <2> QED BY <2>1, <2>2, <2>3 DEF row
<1>6. commands' \in [Managed -> ManagedRows] BY <1>4, <1>5
<1> QED BY <1>1, <1>2, <1>5, <1>6, StoppedKeeps

LEMMA CrashRunKeeps ==
  ASSUME ReflectionInv, CrashRun
  PROVE  ReflectionInv'
<1>1. /\ place # "over" /\ place' = "over" /\ finding' = "stopped" /\ call' = NoCall /\ review' = NoReview
      /\ UNCHANGED <<job, goals, notes, settings, report, bound, faults>>
  BY DEF CrashRun, Ends
<1>2. usage' \in [rounds : Nat, calls : Nat, known : BOOLEAN] /\ owed' \in {"clear", "open", "lost"}
  BY DEF CrashRun, ReflectionInv, ReflectionTypeOK
<1>3. commands \in [Managed -> ManagedRows] BY LearnerTyped
<1>4. commands' = [e \in Managed |-> IF commands[e].how = "running" THEN [commands[e] EXCEPT !.how = "unknown"] ELSE commands[e]]
  BY DEF CrashRun
<1> HIDE DEF ReflectionInv
<1>5. \A e \in Managed : commands'[e] \in ManagedRows /\ (commands[e].how # "running" => commands'[e] = commands[e])
  <2> TAKE e \in Managed
  <2> DEFINE row == commands[e]
  <2> DEFINE w == [row EXCEPT !.how = "unknown"]
  <2>1. row \in ManagedRows BY <1>3
  <2>2. commands'[e] = IF row.how = "running" THEN w ELSE row BY <1>4
  <2> HIDE DEF row
  <2>3. w \in ManagedRows BY <2>1 DEF ManagedRows, EndKinds
  <2> HIDE DEF w
  <2> QED BY <2>1, <2>2, <2>3 DEF row
<1>6. commands' \in [Managed -> ManagedRows] BY <1>4, <1>5
<1> QED BY <1>1, <1>2, <1>5, <1>6, StoppedKeeps

LEMMA ResumeRunKeeps ==
  ASSUME ReflectionInv, ResumeRun
  PROVE  ReflectionInv'
<1> DEFINE r == job.run + 1
<1> DEFINE g == job.gen
<1> DEFINE c == Bind(job.checks)
<1> DEFINE o == Goal
<1>1. ReflectionTypeOK /\ CallFits /\ TurnFits BY DEF ReflectionInv
<1>2. job \in Jobs /\ job.run \in 1..MaxRun /\ goals \in [1..MaxRun -> Nat] /\ MaxRun \in Nat /\ o \in Nat /\ g \in Nat
  BY LearnerTyped
<1>3. ~review.passed
  <2>1. place = "over" /\ finding = "stopped" BY DEF ResumeRun
  <2> QED BY <2>1, NotYetRead
<1>4. /\ job' = [job EXCEPT !.run = r, !.seen = g, !.asked = g, !.checks = c]
      /\ goals' = [goals EXCEPT ![r] = o] /\ job.run < MaxRun /\ place' = "ask" /\ finding' = "none"
      /\ UNCHANGED <<notes, commands, call, usage, review, settings, bound, faults, owed>>
  BY DEF ResumeRun
<1>5. r \in 1..MaxRun /\ r \in Nat /\ c \in SUBSET Check
  <2>1. r \in 1..MaxRun /\ r \in Nat BY <1>2, <1>4
  <2>2. c \in SUBSET Check BY <1>2 DEF Bind, Jobs
  <2> QED BY <2>1, <2>2
<1> HIDE DEF r, g, c, ReflectionInv
<1>6. job' \in Jobs /\ job'.run = r /\ job'.gen = job.gen /\ job'.seen = g /\ job'.asked = g
  BY <1>2, <1>4, <1>5 DEF Jobs
<1> HIDE DEF o
<1>7. goals' \in [1..MaxRun -> Nat] /\ goals'[r] = o BY <1>2, <1>4, <1>5
<1>8. Goal' = Goal BY <1>6, <1>7 DEF Goal, o
<1>9. ReflectionTypeOK'
  <2>1. report' \in [Check -> Status \cup {"pending", "skipped"}] BY DEF ResumeRun, Outdated
  <2>2. place' \in Places BY <1>4 DEF Places
  <2> QED BY <1>1, <1>4, <1>5, <1>6, <1>7, <2>1, <2>2 DEF ReflectionTypeOK
<1>10. FaultsFit' /\ CallsForReview' BY <1>4, <1>8, SameNotes
<1>11. CallFits' BY <1>4 DEF CallFits
<1>12. TurnFits' BY <1>2, <1>6 DEF TurnFits, g
<1>13. OpinionFits' BY <1>3, <1>4, NoOpinion
<1> QED BY <1>9, <1>10, <1>11, <1>12, <1>13 DEF ReflectionInv


-----------------------------------------------------------------------------
LEMMA LearningBegins == ReflectionInit => ReflectionInv
<1> SUFFICES ASSUME ReflectionInit PROVE ReflectionInv OBVIOUS
<1>1. MaxRun \in Nat /\ MaxRun > 0 /\ ReviewAt \in Nat /\ ReviewAt > 0 BY ReflectionShape
<1>2. PICK c \in SUBSET Check :
        /\ settings = [version |-> 0, checks |-> c] /\ bound = c
        /\ job = [run |-> 1, gen |-> 0, asked |-> 0, seen |-> 0, version |-> 0, said |-> FALSE, retries |-> 0,
                  changed |-> FALSE, checks |-> c, forbids |-> {}]
  BY DEF ReflectionInit
<1>3. job \in Jobs /\ job.run = 1 /\ job.seen = 0 /\ job.asked = 0 /\ job.gen = 0 BY <1>2 DEF Jobs
<1>4. goals \in [1..MaxRun -> Nat] /\ Goal = 1 BY <1>1, <1>3 DEF ReflectionInit, Goal
<1>5. notes \in Notes({notes.entries}) /\ notes.goal = 1 /\ notes.count = 0 /\ ~notes.review /\ notes.seen = {}
  BY DEF ReflectionInit, Fresh, Notes
<1>6. faults.commands = {} /\ faults.others = 0 /\ faults \in [commands : SUBSET Managed, others : Nat]
  BY DEF ReflectionInit, NoFaults
<1>7. commands \in [Managed -> ManagedRows]
  <2> DEFINE t == CHOOSE t \in Target : TRUE
  <2>1. commands = [e \in Managed |-> [run |-> 0, target |-> t, how |-> "none"]] BY DEF ReflectionInit
  <2>2. t \in Target \cup {CHOOSE u \in Target : TRUE} OBVIOUS
  <2> HIDE DEF t
  <2> QED BY <2>1, <2>2 DEF ManagedRows
<1>8. review \in [attempts : Nat, of : Bindings, passed : BOOLEAN] /\ ~review.passed BY DEF ReflectionInit, Bindings
<1>9. ReflectionTypeOK
  <2>1. settings \in [version : Nat, checks : SUBSET Check] /\ bound \subseteq Check BY <1>2
  <2>2. report \in [Check -> Status \cup {"pending", "skipped"}] BY DEF ReflectionInit, Outdated
  <2>3. usage \in [rounds : Nat, calls : Nat, known : BOOLEAN] BY DEF ReflectionInit
  <2>4. place \in Places /\ call = NoCall /\ finding = "none" /\ owed = "clear" BY DEF ReflectionInit, Places
  <2>5. job.run \in 1..MaxRun BY <1>1, <1>3
  <2> QED BY <1>3, <1>4, <1>5, <1>6, <1>7, <1>8, <2>1, <2>2, <2>3, <2>4, <2>5 DEF ReflectionTypeOK
<1>10. FaultsFit
  <2>1. IsFiniteSet({}) /\ Cardinality({}) = 0 BY FS_EmptySet
  <2>2. faults.commands = {e \in notes.seen : commands[e].how = "failed"} BY <1>5, <1>6
  <2>3. notes.count = Cardinality(faults.commands) + faults.others BY <1>5, <1>6, <2>1
  <2> QED BY <1>4, <1>5, <1>6, <2>1, <2>2, <2>3 DEF FaultsFit
<1>11. CallsForReview BY <1>1, <1>5 DEF CallsForReview
<1>12. CallFits /\ TurnFits BY <1>3 DEF ReflectionInit, CallFits, TurnFits
<1>13. OpinionFits BY <1>8 DEF ReflectionInit, OpinionFits
<1> QED BY <1>9, <1>10, <1>11, <1>12, <1>13 DEF ReflectionInv

LEMMA LearningStep == ReflectionInv /\ [ReflectionNext]_reflectionVars => ReflectionInv'
<1> SUFFICES ASSUME ReflectionInv, [ReflectionNext]_reflectionVars PROVE ReflectionInv' OBVIOUS
<1> HIDE DEF ReflectionInv
<1>1. ASSUME NEW word \in BOOLEAN, Receive(word) PROVE ReflectionInv' BY <1>1, ReceiveKeeps
<1>2. ASSUME NEW c \in SUBSET Check, ApplySteer(c) PROVE ReflectionInv' BY <1>2, ApplySteerKeeps
<1>3. ASSUME NEW c \in SUBSET Check, SaveSettings(settings.version, c) PROVE ReflectionInv' BY <1>3, SaveSettingsKeeps
<1>4. ASSUME NEW c \in Offers \cup {NoCall}, FinalizeResult(c) PROVE ReflectionInv' BY <1>4, FinalizeResultKeeps
<1>5. ASSUME NEW c \in Offers \cup {NoCall}, NEW complete \in BOOLEAN, ModelAnswers(c, complete) PROVE ReflectionInv'
  BY <1>5, ModelAnswersKeeps
<1>6. ASSUME NEW how \in Outcomes \cup {"none", "cancelled"}, PerformCall(how) PROVE ReflectionInv' BY <1>6, PerformCallKeeps
<1>7. ASSUME NEW result \in [Check \cup {"change"} -> Status], WeighResults(result) PROVE ReflectionInv'
  BY <1>7, WeighResultsKeeps
<1>8. ASSUME NEW available \in BOOLEAN, RequestReview(available) PROVE ReflectionInv' BY <1>8, RequestReviewKeeps
<1>9. ASSUME NEW says \in {"pass", "revise", "invalid", "changed"}, NEW complete \in BOOLEAN, Opinion(says, complete)
      PROVE  ReflectionInv'
  BY <1>9, OpinionKeeps
<1>10. ASSUME NextRequest \/ ModelCut \/ BeginVerify \/ SendReview \/ ReviewCut \/ StopRun \/ CrashRun \/ ResumeRun
       PROVE  ReflectionInv'
  BY <1>10, NextRequestKeeps, ModelCutKeeps, BeginVerifyKeeps, SendReviewKeeps, ReviewCutKeeps, StopRunKeeps,
     CrashRunKeeps, ResumeRunKeeps
<1>11. CASE UNCHANGED reflectionVars
  <2>1. ReflectionTypeOK /\ CallFits /\ TurnFits /\ OpinionFits BY DEF ReflectionInv
  <2>2. ReflectionTypeOK' BY <1>11, <2>1 DEF reflectionVars, ReflectionTypeOK
  <2>3. FaultsFit' /\ CallsForReview' BY <1>11, NothingLearnt DEF reflectionVars, LearnsNothing
  <2>4. CallFits' /\ TurnFits' BY <1>11, <2>1 DEF reflectionVars, CallFits, TurnFits
  <2>5. OpinionFits'
    BY <1>11, <2>1 DEF reflectionVars, OpinionFits, Stale, ReviewBinding, Now, Goal, ReviewBeforeDelivery, Faults
  <2> QED BY <2>2, <2>3, <2>4, <2>5 DEF ReflectionInv
<1> QED BY <1>1, <1>2, <1>3, <1>4, <1>5, <1>6, <1>7, <1>8, <1>9, <1>10, <1>11 DEF ReflectionNext

\* The records of a run's failures, of its commands and of its review hold what they
\* are meant to, whatever is steered, stopped, resumed or read again (reflection.py,
\* observer.py, reflection_review.py).
THEOREM ReflectionTypeCorrect == ReflectionSpec => []ReflectionTypeOK
<1>1. ReflectionInv => ReflectionTypeOK BY DEF ReflectionInv
<1> QED BY <1>1, LearningBegins, LearningStep, PTL DEF ReflectionSpec

\* Every failure of a goal counts once: reading a result again, in this run or in
\* the one that resumes it, adds nothing, and a changed workspace, a lost round or a
\* stop takes nothing away (reflection.py:105-247).
THEOREM FailuresCount == ReflectionSpec => []FailureCountsOnce
<1>1. ReflectionInv => FailureCountsOnce BY DEF ReflectionInv, FaultsFit, FailureCountsOnce, Faults
<1> QED BY <1>1, LearningBegins, LearningStep, PTL DEF ReflectionSpec

\* What is delivered as verified after the failures that call for a review was
\* passed by a review of this goal, this workspace and this generation
\* (completion.py:204-218, reflection_review.py:167-283).
THEOREM ReviewedDelivery == ReflectionSpec => []ReviewBeforeDelivery
<1>1. ReflectionInv => ReviewBeforeDelivery BY DEF ReflectionInv, OpinionFits, ReviewBeforeDelivery
<1> QED BY <1>1, LearningBegins, LearningStep, PTL DEF ReflectionSpec

-----------------------------------------------------------------------------
(* The stream of a model turn: sequences and their parts. *)

LEMMA LeastNumber ==
  ASSUME NEW S \in SUBSET Nat, S # {}
  PROVE  \E m \in S : \A n \in S : m <= n
<1>1. PICK m \in S : \A n \in S : ~(<<n, m>> \in OpToRel(<, Nat))
  BY NatLessThanWellFounded, WFMin
<1>2. ASSUME NEW n \in S PROVE m <= n
  <2>1. m \in Nat /\ n \in Nat OBVIOUS
  <2>2. ~(n < m) BY <1>1, <2>1 DEF OpToRel
  <2> QED BY <2>1, <2>2
<1> QED BY <1>2

\* h[i] is the first i parts in one.
Joins(parts, n, h) == \A i \in 1..n : h[i] = IF i = 1 THEN parts[i] ELSE h[i - 1] \o parts[i]

LEMMA FlattenIs ==
  ASSUME NEW parts, NEW n \in Nat, Len(parts) = n, n > 0, NEW h, Joins(parts, n, h)
  PROVE  FlattenSeq(parts) = h[n]
<1> DEFINE f == CHOOSE g : g = [i \in 1..n |-> IF i = 1 THEN parts[i] ELSE g[i - 1] \o parts[i]]
<1>1. FlattenSeq(parts) = f[n] BY DEF FlattenSeq
<1>2. f = [i \in 1..n |-> IF i = 1 THEN parts[i] ELSE f[i - 1] \o parts[i]]
  <2> DEFINE g == [i \in 1..n |-> h[i]]
  <2>1. ASSUME NEW i \in 1..n PROVE h[i] = IF i = 1 THEN parts[i] ELSE g[i - 1] \o parts[i]
    <3>1. i = 1 \/ i - 1 \in 1..n OBVIOUS
    <3> QED BY <3>1 DEF Joins
  <2>2. g = [i \in 1..n |-> IF i = 1 THEN parts[i] ELSE g[i - 1] \o parts[i]] BY <2>1
  <2> QED BY <2>2
<1> HIDE DEF f
<1>3. \A i \in 1..n : f[i] = IF i = 1 THEN parts[i] ELSE f[i - 1] \o parts[i] BY <1>2
<1>4. \A i \in 1..n : h[i] = IF i = 1 THEN parts[i] ELSE h[i - 1] \o parts[i] BY DEF Joins
<1> SUFFICES ASSUME f[n] # h[n] PROVE FALSE BY <1>1
<1> DEFINE S == {i \in 1..n : f[i] # h[i]}
<1>5. PICK i \in S : \A j \in S : i <= j
  <2>1. n \in S OBVIOUS
  <2>2. S \in SUBSET Nat OBVIOUS
  <2> HIDE DEF S
  <2> QED BY <2>1, <2>2, LeastNumber
<1>6. i # 1 BY <1>3, <1>4, <1>5
<1>7. i - 1 \in 1..n /\ ~(i - 1 \in S) BY <1>5, <1>6
<1>8. f[i - 1] = h[i - 1] BY <1>7
<1>9. f[i] = f[i - 1] \o parts[i] /\ h[i] = h[i - 1] \o parts[i] BY <1>3, <1>4, <1>5, <1>6
<1> QED BY <1>5, <1>8, <1>9

\* h puts the first parts together.
PutTogether(S, parts, n, h) ==
  /\ h \in [1..n -> Seq(S)] /\ FlattenSeq(parts) = h[n]
  /\ \A i \in 1..n : h[i] = IF i = 1 THEN parts[i] ELSE h[i - 1] \o parts[i]

\* What is flattened is put together part by part.
LEMMA PartByPart ==
  ASSUME NEW S, NEW parts \in Seq(Seq(S)), NEW n \in Nat, Len(parts) = n, n > 0
  PROVE  \E h : PutTogether(S, parts, n, h)
<1> DEFINE Sound(m, h) == h \in [1..m -> Seq(S)] /\ \A i \in 1..m : h[i] = IF i = 1 THEN parts[i] ELSE h[i - 1] \o parts[i]
           Bad == {m \in 1..n : ~\E h : Sound(m, h)}
<1>1. \A i \in 1..n : parts[i] \in Seq(S) OBVIOUS
<1>2. Bad = {}
  <2> SUFFICES ASSUME Bad # {} PROVE FALSE OBVIOUS
  <2>1. PICK m \in Bad : \A k \in Bad : m <= k
    <3>1. Bad \in SUBSET Nat OBVIOUS
    <3> HIDE DEF Bad
    <3> QED BY <3>1, LeastNumber
  <2>2. m \in 1..n /\ ~\E h : Sound(m, h) OBVIOUS
  <2>0. \A k \in 1..n : k < m => \E h : Sound(k, h)
    <3> SUFFICES ASSUME NEW k \in 1..n, k < m, ~\E h : Sound(k, h) PROVE FALSE OBVIOUS
    <3>1. k \in Bad OBVIOUS
    <3> HIDE DEF Bad
    <3>2. m <= k BY <2>1, <3>1
    <3> QED BY <3>2, <2>2
  <2>3. CASE m = 1
    <3> DEFINE h == [i \in 1..1 |-> parts[1]]
    <3>1. h \in [1..1 -> Seq(S)] BY <1>1
    <3>2. \A i \in 1..1 : i = 1 /\ h[i] = parts[i] OBVIOUS
    <3>3. Sound(1, h)
      <4> HIDE DEF h
      <4> QED BY <3>1, <3>2
    <3> QED BY <2>2, <2>3, <3>3
  <2>4. CASE m # 1
    <3>1. m - 1 \in 1..n /\ m - 1 < m BY <2>2, <2>4
    <3>2. PICK g : Sound(m - 1, g)
      <4> HIDE DEF Sound
      <4> QED BY <2>0, <3>1
    <3> DEFINE h == [i \in 1..m |-> IF i = m THEN g[m - 1] \o parts[m] ELSE g[i]]
    <3>3. m - 1 \in 1..(m - 1) BY <2>2, <2>4
    <3>4. g[m - 1] \in Seq(S) /\ parts[m] \in Seq(S) BY <1>1, <2>2, <3>2, <3>3
    <3>5. g[m - 1] \o parts[m] \in Seq(S) BY <3>4
    <3>6. ASSUME NEW i \in 1..m, i # m PROVE i \in 1..(m - 1) /\ g[i] \in Seq(S) BY <2>2, <3>2, <3>6
    <3>7. h \in [1..m -> Seq(S)] BY <3>5, <3>6
    <3>8. \A i \in 1..m : h[i] = IF i = m THEN g[m - 1] \o parts[m] ELSE g[i] OBVIOUS
    <3> HIDE DEF h
    <3>9. ASSUME NEW i \in 1..m PROVE h[i] = IF i = 1 THEN parts[i] ELSE h[i - 1] \o parts[i]
      <4>1. CASE i = m
        <5>1. m - 1 \in 1..m /\ m - 1 # m BY <2>2, <2>4
        <5>2. h[m - 1] = g[m - 1] BY <5>1, <3>8
        <5>3. h[m] = g[m - 1] \o parts[m] BY <4>1, <3>8
        <5> QED BY <4>1, <5>2, <5>3, <2>4
      <4>2. CASE i # m /\ i # 1
        <5>1. i \in 1..(m - 1) /\ i - 1 \in 1..m /\ i - 1 # m BY <4>2, <2>2
        <5>2. h[i] = g[i] /\ h[i - 1] = g[i - 1] BY <4>2, <5>1, <3>8
        <5>3. g[i] = g[i - 1] \o parts[i] BY <4>2, <5>1, <3>2
        <5> QED BY <4>2, <5>2, <5>3
      <4>3. CASE i # m /\ i = 1
        <5>1. i \in 1..(m - 1) BY <4>3, <2>2
        <5>2. g[i] = parts[i] BY <4>3, <5>1, <3>2
        <5> QED BY <4>3, <5>2, <3>8
      <4> QED BY <4>1, <4>2, <4>3
    <3>10. Sound(m, h) BY <3>7, <3>9
    <3> QED BY <2>2, <3>10
  <2> QED BY <2>3, <2>4
<1>3. n \in 1..n OBVIOUS
<1>4. PICK h : Sound(n, h)
  <2>1. ~(n \in Bad) BY <1>2
  <2>2. n \in Bad <=> ~\E h : Sound(n, h)
    <3> HIDE DEF Sound
    <3> QED BY <1>3
  <2> HIDE DEF Bad, Sound
  <2> QED BY <2>1, <2>2
<1> HIDE DEF Bad
<1>7. Joins(parts, n, h) BY <1>4 DEF Joins
<1>5. FlattenSeq(parts) = h[n]
  <2> HIDE DEF Sound
  <2> QED BY <1>7, FlattenIs
<1>6. PutTogether(S, parts, n, h) BY <1>4, <1>5 DEF PutTogether
<1> QED BY <1>6

LEMMA FunctionIsSeq ==
  ASSUME NEW S, NEW n \in Nat, NEW f \in [1..n -> S]
  PROVE  f \in Seq(S) /\ Len(f) = n
OBVIOUS

LEMMA FlattenTyped ==
  ASSUME NEW S, NEW parts \in Seq(Seq(S))
  PROVE  FlattenSeq(parts) \in Seq(S)
<1> DEFINE n == Len(parts)
<1>1. n \in Nat OBVIOUS
<1>2. CASE n = 0
  <2>1. FlattenSeq(parts) = parts BY <1>2 DEF FlattenSeq
  <2>2. parts = <<>> BY <1>2
  <2> QED BY <2>1, <2>2
<1>3. CASE n > 0
  <2>1. n = Len(parts) OBVIOUS
  <2> HIDE DEF n
  <2>2. PICK h : PutTogether(S, parts, n, h) BY <1>1, <1>3, <2>1, PartByPart
  <2>3. h \in [1..n -> Seq(S)] /\ FlattenSeq(parts) = h[n] BY <2>2 DEF PutTogether
  <2> QED BY <1>1, <1>3, <2>3
<1> QED BY <1>1, <1>2, <1>3

LEMMA MaxInside ==
  ASSUME NEW n \in Nat, NEW S \in SUBSET (0..n), S # {}
  PROVE  Max(S) \in S /\ \A y \in S : Max(S) >= y
<1> DEFINE T == {n - x : x \in S}
<1>0. ASSUME NEW x \in S PROVE n - x \in Nat
  <2>1. x \in 0..n OBVIOUS
  <2> QED BY <2>1
<1>1. T \in SUBSET Nat /\ T # {} BY <1>0
<1>2. PICK m \in T : \A k \in T : m <= k
  <2> HIDE DEF T
  <2> QED BY <1>1, LeastNumber
<1>3. PICK x \in S : m = n - x OBVIOUS
<1>4. ASSUME NEW y \in S PROVE x >= y
  <2>1. n - y \in T OBVIOUS
  <2>2. m <= n - y BY <2>1, <1>2
  <2>3. x \in 0..n /\ y \in 0..n OBVIOUS
  <2> QED BY <2>2, <2>3, <1>3
<1>5. \E z \in S : \A y \in S : z >= y BY <1>4
<1> QED BY <1>5 DEF Max

LEMMA FunctionJoins ==
  ASSUME NEW S, NEW p \in Seq(S), NEW q \in Seq(S), NEW r \in Seq(S), Len(r) = Len(p) + Len(q),
         \A i \in 1..Len(p) : r[i] = p[i], \A i \in 1..Len(q) : r[Len(p) + i] = q[i]
  PROVE  r = p \o q
<1>1. PICK w : w = p \o q OBVIOUS
<1>2. w \in Seq(S) /\ Len(w) = Len(p) + Len(q) BY <1>1, ConcatProperties
<1>3. Len(p) \in Nat /\ Len(q) \in Nat OBVIOUS
<1>4. ASSUME NEW i \in 1..Len(r) PROVE r[i] = w[i]
  <2>1. i \in 1..(Len(p) + Len(q)) OBVIOUS
  <2>2. w[i] = IF i <= Len(p) THEN p[i] ELSE q[i - Len(p)] BY <1>1, <2>1, ConcatProperties
  <2>3. CASE i <= Len(p)
    <3>1. i \in 1..Len(p) BY <2>1, <2>3
    <3> QED BY <2>2, <2>3, <3>1
  <2>4. CASE ~(i <= Len(p))
    <3>1. PICK j : j = i - Len(p) OBVIOUS
    <3>2. j \in 1..Len(q) /\ Len(p) + j = i BY <3>1, <2>1, <2>4, <1>3
    <3>3. r[Len(p) + j] = q[j] BY <3>2
    <3> QED BY <2>2, <2>4, <3>1, <3>2, <3>3
  <2> QED BY <2>3, <2>4
<1>5. r = w
  <2>1. Len(r) = Len(w) BY <1>2
  <2> HIDE <1>1
  <2> QED BY <1>2, <1>4, <2>1, SeqEqual
<1> QED BY <1>1, <1>5

LEMMA BehindIt ==
  ASSUME NEW S, NEW s \in Seq(S), NEW t \in Seq(S)
  PROVE  /\ s \o t \in Seq(S) /\ Len(s \o t) = Len(s) + Len(t)
         /\ \A i \in 1..Len(s) : (s \o t)[i] = s[i]
         /\ \A i \in 1..Len(t) : (s \o t)[Len(s) + i] = t[i]
<1>0. s \o t \in Seq(S) /\ Len(s \o t) = Len(s) + Len(t) BY ConcatProperties
<1>1. Len(s) \in Nat /\ Len(t) \in Nat OBVIOUS
<1>2. ASSUME NEW i \in 1..Len(t) PROVE (s \o t)[Len(s) + i] = t[i]
  <2>1. PICK j : j = Len(s) + i OBVIOUS
  <2>2. j \in 1..(Len(s) + Len(t)) /\ ~(j <= Len(s)) /\ j - Len(s) = i BY <1>1, <2>1
  <2>3. (s \o t)[j] = IF j <= Len(s) THEN s[j] ELSE t[j - Len(s)] BY <2>2, ConcatProperties
  <2>4. (s \o t)[j] = t[i] BY <2>2, <2>3
  <2> QED BY <2>1, <2>4
<1>3. ASSUME NEW i \in 1..Len(s) PROVE (s \o t)[i] = s[i]
  <2>1. i \in 1..(Len(s) + Len(t)) /\ i <= Len(s) BY <1>1
  <2>2. (s \o t)[i] = IF i <= Len(s) THEN s[i] ELSE t[i - Len(s)] BY <2>1, ConcatProperties
  <2> QED BY <2>1, <2>2
<1> QED BY <1>0, <1>2, <1>3

LEMMA FlattenNone ==
  ASSUME NEW S, NEW parts \in Seq(Seq(S)), \A i \in 1..Len(parts) : parts[i] = <<>>
  PROVE  FlattenSeq(parts) = <<>>
<1>1. Len(parts) \in Nat OBVIOUS
<1>2. CASE Len(parts) = 0
  <2>1. parts = <<>> BY <1>2
  <2> QED BY <2>1 DEF FlattenSeq
<1>3. CASE Len(parts) > 0
  <2>1. PICK n \in Nat : n = Len(parts) /\ n > 0 BY <1>1, <1>3
  <2>2. PICK h : h = [i \in 1..n |-> <<>>] OBVIOUS
  <2>3. \A i \in 1..n : h[i] = <<>> BY <2>2
  <2>4. <<>> \o <<>> = <<>> BY EmptySeq, ConcatEmptySeq
  <2>5. ASSUME NEW i \in 1..n PROVE h[i] = IF i = 1 THEN parts[i] ELSE h[i - 1] \o parts[i]
    <3>1. parts[i] = <<>> BY <2>1
    <3>2. i = 1 \/ i - 1 \in 1..n OBVIOUS
    <3> QED BY <3>1, <3>2, <2>3, <2>4
  <2>6. Joins(parts, n, h) BY <2>5 DEF Joins
  <2>7. FlattenSeq(parts) = h[n] BY <2>1, <2>6, FlattenIs
  <2>8. n \in 1..n BY <2>1
  <2> QED BY <2>3, <2>7, <2>8
<1> QED BY <1>1, <1>2, <1>3

LEMMA Regrouped ==
  ASSUME NEW S, NEW x \in Seq(S), NEW y \in Seq(S), NEW z \in Seq(S)
  PROVE  x \o (y \o z) = (x \o y) \o z
<1>1. (x \o y) \o z = x \o (y \o z)
  BY ONLY x \in Seq(S), y \in Seq(S), z \in Seq(S), ConcatAssociative, SMTT(30)
<1> QED BY ONLY <1>1

LEMMA RegroupedLetters == \A x, y, z \in Seq(Letter) : x \o (y \o z) = (x \o y) \o z
BY ONLY Regrouped, SMTT(30)

LEMMA LettersBehind == \A s, t \in Seq(Letter) :
  Len(s \o t) = Len(s) + Len(t) /\ \A i \in 1..Len(t) : (s \o t)[Len(s) + i] = t[i]
BY BehindIt

LEMMA FlattenTwo ==
  ASSUME NEW S, NEW a \in Seq(Seq(S)), NEW b \in Seq(Seq(S))
  PROVE  FlattenSeq(a \o b) = FlattenSeq(a) \o FlattenSeq(b)
<1>1. FlattenSeq(a) \in Seq(S) /\ FlattenSeq(b) \in Seq(S) BY FlattenTyped
<1>2. FlattenSeq(<<>>) = <<>> BY DEF FlattenSeq
<1>3. Len(a) \in Nat /\ Len(b) \in Nat OBVIOUS
<1>4. CASE Len(a) = 0
  <2>1. a = <<>> BY <1>4
  <2>2. a \o b = b BY <2>1
  <2>3. <<>> \o FlattenSeq(b) = FlattenSeq(b) BY <1>1, ConcatEmptySeq
  <2> QED BY <2>1, <2>2, <2>3, <1>2
<1>5. CASE Len(b) = 0
  <2>1. b = <<>> BY <1>5
  <2>2. a \o b = a BY <2>1
  <2>3. FlattenSeq(a) \o <<>> = FlattenSeq(a) BY <1>1, ConcatEmptySeq
  <2> QED BY <2>1, <2>2, <2>3, <1>2
<1>6. CASE Len(a) > 0 /\ Len(b) > 0
  <2>1. PICK m \in Nat : m = Len(a) /\ m > 0 BY <1>3, <1>6
  <2>2. PICK n \in Nat : n = Len(b) /\ n > 0 BY <1>3, <1>6
  <2>3. PICK f : PutTogether(S, a, m, f) BY <2>1, PartByPart
  <2>4. PICK g : PutTogether(S, b, n, g) BY <2>2, PartByPart
  <2>5. /\ f \in [1..m -> Seq(S)] /\ FlattenSeq(a) = f[m]
        /\ \A i \in 1..m : f[i] = IF i = 1 THEN a[i] ELSE f[i - 1] \o a[i]
    BY <2>3 DEF PutTogether
  <2>6. /\ g \in [1..n -> Seq(S)] /\ FlattenSeq(b) = g[n]
        /\ \A i \in 1..n : g[i] = IF i = 1 THEN b[i] ELSE g[i - 1] \o b[i]
    BY <2>4 DEF PutTogether
  <2>7. PICK c : c = a \o b OBVIOUS
  <2>8. /\ c \in Seq(Seq(S)) /\ Len(c) = m + n
        /\ \A i \in 1..m : c[i] = a[i]
        /\ \A i \in 1..n : c[m + i] = b[i]
    BY <2>1, <2>2, <2>7, BehindIt
  <2>9. PICK h : h = [i \in 1..(m + n) |-> IF i <= m THEN f[i] ELSE f[m] \o g[i - m]] OBVIOUS
  <2>10. \A i \in 1..(m + n) : h[i] = IF i <= m THEN f[i] ELSE f[m] \o g[i - m] BY <2>9
  <2>11. ASSUME NEW i \in 1..(m + n) PROVE h[i] = IF i = 1 THEN c[i] ELSE h[i - 1] \o c[i]
    <3>1. CASE i = 1
      <4>1. i \in 1..m /\ i <= m BY <3>1, <2>1
      <4>2. f[i] = a[i] /\ c[i] = a[i] BY <3>1, <4>1, <2>5, <2>8
      <4>3. h[i] = f[i] BY <4>1, <2>10
      <4> QED BY <3>1, <4>2, <4>3
    <3>2. CASE i # 1 /\ i <= m
      <4>1. i \in 1..m /\ i - 1 \in 1..(m + n) /\ i - 1 <= m BY <3>2, <2>1, <2>2
      <4>2. f[i] = f[i - 1] \o a[i] /\ c[i] = a[i] BY <3>2, <4>1, <2>5, <2>8
      <4>3. h[i] = f[i] /\ h[i - 1] = f[i - 1] BY <3>2, <4>1, <2>10
      <4> QED BY <3>2, <4>2, <4>3
    <3>3. CASE i # 1 /\ i > m
      <4>1. PICK j : j = i - m OBVIOUS
      <4>2. j \in 1..n /\ m + j = i /\ ~(i <= m) /\ i - 1 \in 1..(m + n) BY <4>1, <3>3, <2>1, <2>2
      <4>3. h[i] = f[m] \o g[j] BY <4>1, <4>2, <2>10
      <4>4. c[i] = b[j] BY <4>2, <2>8
      <4>5. m \in 1..m BY <2>1
      <4>6. CASE j = 1
        <5>1. g[j] = b[j] BY <4>2, <4>6, <2>6
        <5>2. h[i - 1] = f[m] BY <4>2, <4>6, <2>10
        <5> QED BY <3>3, <4>3, <4>4, <5>1, <5>2
      <4>7. CASE j # 1
        <5>1. j - 1 \in 1..n BY <4>2, <4>7
        <5>2. g[j] = g[j - 1] \o b[j] BY <4>2, <4>7, <2>6
        <5>3. ~(i - 1 <= m) /\ (i - 1) - m = j - 1 BY <4>2, <4>7
        <5>4. h[i - 1] = f[m] \o g[j - 1] BY <4>2, <5>3, <2>10
        <5>5. f[m] \in Seq(S) BY <4>5, <2>5
        <5>6. g[j - 1] \in Seq(S) BY <5>1, <2>6
        <5>7. b[j] \in Seq(S) BY <4>2, <2>2
        <5>8. f[m] \o (g[j - 1] \o b[j]) = (f[m] \o g[j - 1]) \o b[j]
          <6>1. \A x, y, z \in Seq(S) : x \o (y \o z) = (x \o y) \o z BY ONLY Regrouped, SMTT(30)
          <6> QED BY <5>5, <5>6, <5>7, <6>1, Zenon
        <5> QED BY <3>3, <4>3, <4>4, <5>2, <5>4, <5>8
      <4> QED BY <4>6, <4>7
    <3> QED BY <3>1, <3>2, <3>3
  <2>12. Joins(c, m + n, h) BY <2>11 DEF Joins
  <2>13. m + n \in Nat /\ m + n > 0 BY <2>1, <2>2
  <2>14. FlattenSeq(c) = h[m + n] BY <2>8, <2>12, <2>13, FlattenIs
  <2>15. m + n \in 1..(m + n) /\ ~(m + n <= m) /\ (m + n) - m = n BY <2>1, <2>2
  <2>16. h[m + n] = f[m] \o g[n] BY <2>10, <2>15
  <2> QED BY <2>5, <2>6, <2>7, <2>14, <2>16
<1> QED BY <1>3, <1>4, <1>5, <1>6

LEMMA Halves ==
  ASSUME NEW S, NEW p \in Seq(S), NEW c \in 0..Len(p)
  PROVE  /\ SubSeq(p, 1, c) \in Seq(S) /\ Len(SubSeq(p, 1, c)) = c
         /\ SubSeq(p, c + 1, Len(p)) \in Seq(S) /\ Len(SubSeq(p, c + 1, Len(p))) = Len(p) - c
         /\ \A i \in 1..c : SubSeq(p, 1, c)[i] = p[i]
         /\ \A i \in 1..(Len(p) - c) : SubSeq(p, c + 1, Len(p))[i] = p[c + i]
         /\ SubSeq(p, 1, c) \o SubSeq(p, c + 1, Len(p)) = p
<1>1. PICK n \in Nat : n = Len(p) OBVIOUS
<1>2. c \in Nat /\ c <= n /\ c \in Int /\ n \in Int /\ c + 1 \in Int /\ 1 \in Int BY <1>1
<1>3. PICK u : u = SubSeq(p, 1, c) OBVIOUS
<1>4. PICK w : w = SubSeq(p, c + 1, n) OBVIOUS
<1>5. \A i \in 1..n : p[i] \in S BY <1>1
<1>6. \A i \in 1..c : p[i] \in S BY <1>2, <1>5
<1>7. \A i \in (c + 1)..n : p[i] \in S BY <1>2, <1>5
<1>8. /\ u \in Seq(S) /\ Len(u) = IF 1 <= c THEN c - 1 + 1 ELSE 0
      /\ \A i \in 1..(c - 1 + 1) : u[i] = p[1 + i - 1]
  BY <1>2, <1>3, <1>6, SubSeqProperties
<1>9. /\ w \in Seq(S) /\ Len(w) = IF c + 1 <= n THEN n - (c + 1) + 1 ELSE 0
      /\ \A i \in 1..(n - (c + 1) + 1) : w[i] = p[(c + 1) + i - 1]
  BY <1>2, <1>4, <1>7, SubSeqProperties
<1>10. Len(u) = c /\ \A i \in 1..c : u[i] = p[i]
  <2>1. c - 1 + 1 = c BY <1>2
  <2>2. ASSUME NEW i \in 1..c PROVE u[i] = p[i]
    <3>1. 1 + i - 1 = i OBVIOUS
    <3> QED BY <3>1, <2>1, <1>8
  <2>3. Len(u) = c BY <2>1, <1>2, <1>8
  <2> QED BY <2>2, <2>3
<1>11. Len(w) = n - c /\ \A i \in 1..(n - c) : w[i] = p[c + i]
  <2>1. n - (c + 1) + 1 = n - c BY <1>2
  <2>2. ASSUME NEW i \in 1..(n - c) PROVE w[i] = p[c + i]
    <3>1. (c + 1) + i - 1 = c + i BY <1>2
    <3> QED BY <3>1, <2>1, <1>9
  <2>3. Len(w) = n - c BY <2>1, <1>2, <1>9
  <2> QED BY <2>2, <2>3
<1>12. p = u \o w
  <2>1. Len(p) = Len(u) + Len(w) BY <1>1, <1>2, <1>10, <1>11
  <2>2. \A i \in 1..Len(u) : p[i] = u[i] BY <1>10
  <2>3. \A i \in 1..Len(w) : p[Len(u) + i] = w[i] BY <1>10, <1>11
  <2>4. u \in Seq(S) /\ w \in Seq(S) BY <1>8, <1>9
  <2> QED BY <2>1, <2>2, <2>3, <2>4, FunctionJoins
<1> QED BY <1>1, <1>3, <1>4, <1>8, <1>9, <1>10, <1>11, <1>12

-----------------------------------------------------------------------------
(* The filter. *)

\* No beginning of the secret is its end as well.
Unbordered == \A k \in 1..(Len(Secret) - 1) : \E i \in 1..k : Secret[i] # Secret[Len(Secret) - k + i]

Shown == Letter \cup {Mark}

\* The same for a length that has a name.
LEMMA SecretBits ==
  Len(Secret) \in Nat /\ Len(Secret) > 1 /\ \A i \in 1..Len(Secret) : Secret[i] \in Letter
BY StreamingBounds

\* Two secrets do not overlap.
LEMMA NoOverlap ==
  ASSUME Unbordered, NEW t, NEW i \in Nat, NEW j \in Nat, StandsAt(t, i), StandsAt(t, j), j < i
  PROVE  i >= j + Len(Secret)
<1>1. PICK n \in Nat : n = Len(Secret) /\ n > 1 BY SecretBits
<1> SUFFICES ASSUME i < j + n PROVE FALSE BY <1>1
<1>2. PICK k : k = j + n - i OBVIOUS
<1>3. k \in 1..(n - 1) BY <1>1, <1>2
<1>4. PICK m \in 1..k : Secret[m] # Secret[n - k + m] BY <1>1, <1>3 DEF Unbordered
<1>5. m \in 1..n /\ n - k + m \in 1..n BY <1>3
<1>6. t[i + m - 1] = Secret[m] BY <1>1, <1>5 DEF StandsAt
<1>7. t[j + (n - k + m) - 1] = Secret[n - k + m] BY <1>1, <1>5 DEF StandsAt
<1>8. j + (n - k + m) - 1 = i + m - 1 BY <1>1, <1>2, <1>3
<1> QED BY <1>4, <1>6, <1>7, <1>8

SecretPlaces(t) == {i \in DOMAIN t : StandsAt(t, i)}

\* All of them are replaced.
LEMMA AllReplaced ==
  ASSUME Unbordered, NEW S, NEW t \in Seq(S)
  PROVE  Replaced(t) = SecretPlaces(t)
<1> DEFINE Right(T) == \A i \in DOMAIN t : i \in T <=> StandsAt(t, i) /\ ~\E j \in T : j < i /\ i < j + Len(Secret)
<1>1. DOMAIN t = 1..Len(t) /\ Len(t) \in Nat OBVIOUS
<1>2. Len(Secret) \in Nat BY SecretBits
<1>3. SecretPlaces(t) \in SUBSET DOMAIN t BY DEF SecretPlaces
<1>4. ASSUME NEW T \in SUBSET DOMAIN t, \A j \in T : StandsAt(t, j), NEW i \in DOMAIN t, StandsAt(t, i)
      PROVE ~\E j \in T : j < i /\ i < j + Len(Secret)
  <2> SUFFICES ASSUME NEW j \in T, j < i, i < j + Len(Secret) PROVE FALSE OBVIOUS
  <2>1. i \in Nat /\ j \in Nat BY <1>1
  <2>2. StandsAt(t, j) BY <1>4
  <2>3. i >= j + Len(Secret) BY <1>4, <2>1, <2>2, NoOverlap
  <2> QED BY <2>1, <2>3, <1>2
<1>5. Right(SecretPlaces(t))
  <2>1. \A j \in SecretPlaces(t) : StandsAt(t, j) BY DEF SecretPlaces
  <2>2. \A i \in DOMAIN t : i \in SecretPlaces(t) <=> StandsAt(t, i) BY DEF SecretPlaces
  <2> QED BY <1>3, <1>4, <2>1, <2>2
<1>6. ASSUME NEW T \in SUBSET DOMAIN t, Right(T) PROVE T = SecretPlaces(t)
  <2>1. \A j \in T : StandsAt(t, j) BY <1>6
  <2>2. \A i \in DOMAIN t : StandsAt(t, i) => ~\E j \in T : j < i /\ i < j + Len(Secret) BY <1>4, <2>1
  <2>3. \A i \in DOMAIN t : i \in T <=> StandsAt(t, i) BY <1>6, <2>2
  <2> QED BY <2>3 DEF SecretPlaces
<1>7. Replaced(t) = CHOOSE T \in SUBSET DOMAIN t : Right(T) BY DEF Replaced
<1> HIDE DEF Right
<1> QED BY <1>3, <1>5, <1>6, <1>7

\* Letters before and in a secret, one by one.
Masked(t) == [i \in DOMAIN t |->
  IF i \in SecretPlaces(t) THEN <<Mark>>
  ELSE IF \E j \in SecretPlaces(t) : j < i /\ i < j + Len(Secret) THEN <<>> ELSE <<t[i]>>]

LEMMA RedactIsMasked ==
  ASSUME Unbordered, NEW t \in Seq(Letter)
  PROVE  /\ Redact(t) = FlattenSeq(Masked(t))
         /\ Masked(t) \in Seq(Seq(Shown)) /\ Len(Masked(t)) = Len(t)
<1>1. Replaced(t) = SecretPlaces(t) BY AllReplaced
<1>2. Redact(t) = FlattenSeq(Masked(t)) BY <1>1 DEF Redact, Masked
<1>3. DOMAIN t = 1..Len(t) /\ Len(t) \in Nat OBVIOUS
<1>4. ASSUME NEW i \in DOMAIN t
      PROVE (IF i \in SecretPlaces(t) THEN <<Mark>>
             ELSE IF \E j \in SecretPlaces(t) : j < i /\ i < j + Len(Secret) THEN <<>> ELSE <<t[i]>>) \in Seq(Shown)
  <2>1. t[i] \in Shown /\ Mark \in Shown BY <1>3 DEF Shown
  <2> QED BY <2>1
<1>5. Masked(t) \in [1..Len(t) -> Seq(Shown)] BY <1>3, <1>4 DEF Masked
<1> QED BY <1>2, <1>3, <1>5, FunctionIsSeq

LEMMA MaskedAt ==
  ASSUME NEW t, NEW i \in DOMAIN t
  PROVE  Masked(t)[i] = IF i \in SecretPlaces(t) THEN <<Mark>>
                        ELSE IF \E j \in SecretPlaces(t) : j < i /\ i < j + Len(Secret) THEN <<>> ELSE <<t[i]>>
BY DEF Masked

\* What stands left and right of a cut that no secret crosses is redacted apart.
Crosses(t, i, c) == StandsAt(t, i) /\ i <= c /\ c < i + Len(Secret) - 1

LEMMA SecretLeft ==
  ASSUME NEW u \in Seq(Letter), NEW v \in Seq(Letter), NEW i \in 1..Len(u), ~Crosses(u \o v, i, Len(u))
  PROVE  i \in SecretPlaces(u \o v) <=> i \in SecretPlaces(u)
<1>1. PICK n \in Nat : n = Len(Secret) /\ n > 1 BY SecretBits
<1>2. PICK t : t = u \o v OBVIOUS
<1>3. /\ t \in Seq(Letter) /\ Len(t) = Len(u) + Len(v)
      /\ \A k \in 1..Len(u) : t[k] = u[k]
  BY <1>2, BehindIt
<1>4. Len(u) \in Nat /\ Len(v) \in Nat /\ i \in Nat OBVIOUS
<1>5. i \in DOMAIN t /\ i \in DOMAIN u BY <1>3, <1>4
<1>6. StandsAt(t, i) <=> StandsAt(u, i)
  <2>1. ASSUME StandsAt(t, i) PROVE StandsAt(u, i)
    <3>1. i + n <= Len(u) + 1 BY <1>1, <1>2, <1>4, <2>1 DEF Crosses
    <3>2. ASSUME NEW k \in 1..n PROVE u[i + k - 1] = Secret[k]
      <4>1. i + k - 1 \in 1..Len(u) BY <3>1, <1>4
      <4>2. t[i + k - 1] = Secret[k] BY <2>1, <1>1 DEF StandsAt
      <4> QED BY <4>1, <4>2, <1>3
    <3> QED BY <3>1, <3>2, <1>1 DEF StandsAt
  <2>2. ASSUME StandsAt(u, i) PROVE StandsAt(t, i)
    <3>1. i + n <= Len(u) + 1 BY <1>1, <2>2 DEF StandsAt
    <3>2. i + n <= Len(t) + 1 BY <3>1, <1>1, <1>3, <1>4
    <3>3. ASSUME NEW k \in 1..n PROVE t[i + k - 1] = Secret[k]
      <4>1. i + k - 1 \in 1..Len(u) BY <3>1, <1>4
      <4>2. u[i + k - 1] = Secret[k] BY <2>2, <1>1 DEF StandsAt
      <4> QED BY <4>1, <4>2, <1>3
    <3> QED BY <3>2, <3>3, <1>1 DEF StandsAt
  <2> QED BY <2>1, <2>2
<1> QED BY <1>2, <1>5, <1>6 DEF SecretPlaces

LEMMA SecretRight ==
  ASSUME NEW u \in Seq(Letter), NEW v \in Seq(Letter), NEW i \in 1..Len(v)
  PROVE  Len(u) + i \in SecretPlaces(u \o v) <=> i \in SecretPlaces(v)
<1>1. PICK n \in Nat : n = Len(Secret) /\ n > 1 BY SecretBits
<1>2. PICK t : t = u \o v OBVIOUS
<1>3. /\ t \in Seq(Letter) /\ Len(t) = Len(u) + Len(v)
      /\ \A k \in 1..Len(v) : t[Len(u) + k] = v[k]
  BY <1>2, BehindIt
<1>4. PICK m \in Nat : m = Len(u) OBVIOUS
<1>5. Len(v) \in Nat /\ i \in Nat OBVIOUS
<1>6. m + i \in DOMAIN t /\ i \in DOMAIN v BY <1>3, <1>4, <1>5
<1>7. ASSUME NEW k \in 1..n, i + n <= Len(v) + 1 PROVE t[m + i + k - 1] = v[i + k - 1]
  <2>1. i + k - 1 \in 1..Len(v) BY <1>7, <1>5
  <2>2. PICK a : a = i + k - 1 OBVIOUS
  <2>3. t[m + a] = v[a] BY <2>1, <2>2, <1>3, <1>4
  <2>4. m + a = m + i + k - 1 BY <2>2, <1>5
  <2> QED BY <2>2, <2>3, <2>4
<1>8. i + n <= Len(v) + 1 <=> m + i + n <= Len(t) + 1 BY <1>3, <1>4, <1>5
<1>9. StandsAt(t, m + i) <=> StandsAt(v, i) BY <1>1, <1>7, <1>8 DEF StandsAt
<1> QED BY <1>2, <1>4, <1>6, <1>9 DEF SecretPlaces

LEMMA RedactSplits ==
  ASSUME Unbordered, NEW u \in Seq(Letter), NEW v \in Seq(Letter),
         \A i \in 1..Len(u) : ~Crosses(u \o v, i, Len(u))
  PROVE  Redact(u \o v) = Redact(u) \o Redact(v)
<1>1. PICK n \in Nat : n = Len(Secret) /\ n > 1 BY SecretBits
<1>2. PICK t : t = u \o v OBVIOUS
<1>3. /\ t \in Seq(Letter) /\ Len(t) = Len(u) + Len(v)
      /\ \A k \in 1..Len(u) : t[k] = u[k]
      /\ \A k \in 1..Len(v) : t[Len(u) + k] = v[k]
  BY <1>2, BehindIt
<1>4. PICK a \in Nat : a = Len(u) OBVIOUS
<1>5. PICK b \in Nat : b = Len(v) OBVIOUS
<1>6. /\ DOMAIN t = 1..(a + b) /\ DOMAIN u = 1..a /\ DOMAIN v = 1..b
      /\ SecretPlaces(t) \subseteq 1..(a + b) /\ SecretPlaces(u) \subseteq 1..a /\ SecretPlaces(v) \subseteq 1..b
  BY <1>3, <1>4, <1>5 DEF SecretPlaces
<1>7. \A i \in 1..a : i \in SecretPlaces(t) <=> i \in SecretPlaces(u) BY <1>2, <1>4, SecretLeft
<1>8. \A i \in 1..b : a + i \in SecretPlaces(t) <=> i \in SecretPlaces(v) BY <1>2, <1>4, <1>5, SecretRight
<1>9. \A j \in SecretPlaces(u) : j + n <= a + 1 BY <1>1, <1>4 DEF SecretPlaces, StandsAt
<1>10. ASSUME NEW i \in 1..a PROVE Masked(t)[i] = Masked(u)[i]
  <2>1. i \in DOMAIN t /\ i \in DOMAIN u BY <1>6
  <2>2. (\E j \in SecretPlaces(t) : j < i /\ i < j + n) <=> (\E j \in SecretPlaces(u) : j < i /\ i < j + n)
    <3>1. ASSUME NEW j \in SecretPlaces(t), j < i PROVE j \in SecretPlaces(u)
      <4>1. j \in 1..a BY <3>1, <1>6
      <4> QED BY <4>1, <1>7, <3>1
    <3>2. ASSUME NEW j \in SecretPlaces(u), j < i PROVE j \in SecretPlaces(t)
      <4>1. j \in 1..a BY <1>6
      <4> QED BY <4>1, <1>7, <3>2
    <3> QED BY <3>1, <3>2
  <2>3. i \in SecretPlaces(t) <=> i \in SecretPlaces(u) BY <1>7
  <2>4. t[i] = u[i] BY <1>3, <1>4
  <2> QED BY <2>1, <2>2, <2>3, <2>4, <1>1, MaskedAt
<1>11. ASSUME NEW i \in 1..b PROVE Masked(t)[a + i] = Masked(v)[i]
  <2>1. a + i \in DOMAIN t /\ i \in DOMAIN v BY <1>6
  <2>2. (\E j \in SecretPlaces(t) : j < a + i /\ a + i < j + n) <=> (\E j \in SecretPlaces(v) : j < i /\ i < j + n)
    <3>1. ASSUME NEW j \in SecretPlaces(t), j < a + i, a + i < j + n PROVE \E k \in SecretPlaces(v) : k < i /\ i < k + n
      <4>1. ~(j \in 1..a)
        <5> SUFFICES ASSUME j \in 1..a PROVE FALSE OBVIOUS
        <5>1. j \in SecretPlaces(u) BY <1>7
        <5>2. j + n <= a + 1 BY <5>1, <1>9
        <5> QED BY <5>2, <3>1, <1>1
      <4>2. PICK k : k = j - a OBVIOUS
      <4>3. j \in 1..(a + b) BY <1>6
      <4>4. k \in 1..b /\ a + k = j BY <4>1, <4>2, <4>3
      <4>5. k \in SecretPlaces(v) BY <4>4, <1>8
      <4>6. k < i /\ i < k + n BY <4>4, <3>1, <1>1
      <4> QED BY <4>5, <4>6
    <3>2. ASSUME NEW k \in SecretPlaces(v), k < i, i < k + n PROVE \E j \in SecretPlaces(t) : j < a + i /\ a + i < j + n
      <4>1. k \in 1..b BY <1>6
      <4>2. a + k \in SecretPlaces(t) BY <4>1, <1>8
      <4>3. a + k < a + i /\ a + i < a + k + n BY <4>1, <3>2, <1>1
      <4> QED BY <4>2, <4>3
    <3> QED BY <3>1, <3>2
  <2>3. a + i \in SecretPlaces(t) <=> i \in SecretPlaces(v) BY <1>8
  <2>4. t[a + i] = v[i] BY <1>3, <1>4, <1>5
  <2> QED BY <2>1, <2>2, <2>3, <2>4, <1>1, MaskedAt
<1>12. /\ Masked(t) \in Seq(Seq(Shown)) /\ Len(Masked(t)) = a + b
       /\ Masked(u) \in Seq(Seq(Shown)) /\ Len(Masked(u)) = a
       /\ Masked(v) \in Seq(Seq(Shown)) /\ Len(Masked(v)) = b
  BY <1>3, <1>4, <1>5, RedactIsMasked
<1>13. Masked(t) = Masked(u) \o Masked(v)
  <2>1. PICK p \in Seq(Seq(Shown)) : p = Masked(u) BY <1>12
  <2>2. PICK q \in Seq(Seq(Shown)) : q = Masked(v) BY <1>12
  <2>3. PICK r \in Seq(Seq(Shown)) : r = Masked(t) BY <1>12
  <2>4. Len(p) = a /\ Len(q) = b /\ Len(r) = Len(p) + Len(q) BY <1>12, <2>1, <2>2, <2>3
  <2>5. \A i \in 1..Len(p) : r[i] = p[i] BY <1>10, <2>1, <2>3, <2>4
  <2>6. \A i \in 1..Len(q) : r[Len(p) + i] = q[i] BY <1>11, <2>2, <2>3, <2>4
  <2>7. r = p \o q BY <2>4, <2>5, <2>6, FunctionJoins
  <2> QED BY <2>1, <2>2, <2>3, <2>7
<1>14. FlattenSeq(Masked(t)) = FlattenSeq(Masked(u)) \o FlattenSeq(Masked(v)) BY <1>12, <1>13, FlattenTwo
<1> QED BY <1>2, <1>3, <1>14, RedactIsMasked

\* How much of a text may still become a secret.
LEMMA BegunIs ==
  ASSUME NEW t \in Seq(Letter)
  PROVE  /\ Begun(t) \in 0..(Len(Secret) - 1) /\ EndsIn(t, Begun(t)) /\ Begun(t) <= Len(t)
         /\ \A k \in 0..(Len(Secret) - 1) : EndsIn(t, k) => k <= Begun(t)
<1>1. PICK n \in Nat : n = Len(Secret) /\ n > 1 BY SecretBits
<1>2. PICK m \in Nat : m = n - 1 BY <1>1
<1>3. PICK T : T = {k \in 0..m : EndsIn(t, k)} OBVIOUS
<1>4. Begun(t) = Max(T) BY <1>1, <1>2, <1>3 DEF Begun
<1>5. T \in SUBSET (0..m) BY <1>3
<1>6. EndsIn(t, 0)
  <2>1. Len(t) \in Nat OBVIOUS
  <2> QED BY <2>1 DEF EndsIn
<1>7. T # {}
  <2>1. 0 \in 0..m OBVIOUS
  <2> QED BY <2>1, <1>3, <1>6
<1>8. Max(T) \in T /\ \A y \in T : Max(T) >= y BY <1>5, <1>7, MaxInside
<1>9. Begun(t) \in 0..m /\ EndsIn(t, Begun(t)) BY <1>3, <1>4, <1>8
<1>10. ASSUME NEW k \in 0..m, EndsIn(t, k) PROVE k <= Begun(t)
  <2>1. k \in T BY <1>3, <1>10
  <2>2. Begun(t) >= k BY <2>1, <1>4, <1>8
  <2> QED BY <2>2, <1>9
<1>11. Begun(t) <= Len(t) BY <1>9 DEF EndsIn
<1> QED BY <1>1, <1>2, <1>9, <1>10, <1>11

LEMMA BegunOnly ==
  ASSUME NEW t \in Seq(Letter), NEW b \in 0..(Len(Secret) - 1), EndsIn(t, b),
         \A k \in 0..(Len(Secret) - 1) : EndsIn(t, k) => k <= b
  PROVE  Begun(t) = b
<1>1. PICK n \in Nat : n = Len(Secret) /\ n > 1 BY SecretBits
<1>2. PICK c : c = Begun(t) OBVIOUS
<1>3. c \in 0..(n - 1) /\ EndsIn(t, c) /\ \A k \in 0..(n - 1) : EndsIn(t, k) => k <= c
  BY <1>1, <1>2, BegunIs
<1>4. b \in 0..(n - 1) BY <1>1
<1>5. b <= c /\ c <= b BY <1>1, <1>3, <1>4
<1> QED BY <1>2, <1>3, <1>4, <1>5

\* No secret crosses the place where that begins.
LEMMA NothingCrosses ==
  ASSUME Unbordered, NEW t \in Seq(Letter), NEW i \in Nat
  PROVE  ~Crosses(t, i, Len(t) - Begun(t))
<1>1. PICK n \in Nat : n = Len(Secret) /\ n > 1 BY SecretBits
<1>2. PICK b \in Nat : b = Begun(t) /\ b <= n - 1 /\ b <= Len(t) /\ EndsIn(t, b) BY <1>1, BegunIs
<1>3. PICK e \in Nat : e = Len(t) - b
  <2>1. Len(t) - b \in Nat BY <1>2
  <2> QED BY <2>1
<1>4. Len(t) \in Nat OBVIOUS
<1> SUFFICES ASSUME StandsAt(t, i), i <= e, e < i + n - 1 PROVE FALSE
  BY <1>1, <1>2, <1>3 DEF Crosses
<1>5. PICK k : k = i + n - 1 - e OBVIOUS
<1>6. k \in 1..(n - 1) BY <1>1, <1>3, <1>5
<1>7. k <= b
  <2>1. i + n <= Len(t) + 1 BY <1>1 DEF StandsAt
  <2> QED BY <2>1, <1>1, <1>3, <1>4, <1>5
<1>8. PICK m \in 1..k : Secret[m] # Secret[n - k + m] BY <1>1, <1>6 DEF Unbordered
<1>9. m \in 1..n /\ n - k + m \in 1..n /\ m \in 1..b BY <1>6, <1>7
<1>10. t[Len(t) - b + m] = Secret[m] BY <1>2, <1>9 DEF EndsIn
<1>11. t[i + (n - k + m) - 1] = Secret[n - k + m] BY <1>1, <1>9 DEF StandsAt
<1>12. i + (n - k + m) - 1 = Len(t) - b + m BY <1>1, <1>3, <1>4, <1>5, <1>6
<1> QED BY <1>8, <1>10, <1>11, <1>12

LEMMA CutoffIs ==
  ASSUME Unbordered, NEW t \in Seq(Letter)
  PROVE  Cutoff(t) = Len(t) - Begun(t)
<1>1. PICK n \in Nat : n = Len(Secret) /\ n > 1 BY SecretBits
<1>2. PICK e \in Nat : e = Len(t) - Begun(t)
  <2>1. Len(t) - Begun(t) \in Nat BY <1>1, BegunIs
  <2> QED BY <2>1
<1>3. PICK T : T = {0} \cup {i \in 1..e : StandsAt(t, i)} OBVIOUS
<1>4. PICK x : x = Max(T) OBVIOUS
<1>5. x \in T
  <2>1. T \in SUBSET (0..e) /\ T # {} BY <1>3
  <2> QED BY <2>1, <1>4, MaxInside
<1>6. Cutoff(t) = IF x > 0 /\ e < x + n - 1 THEN x - 1 ELSE e BY <1>1, <1>2, <1>3, <1>4 DEF Cutoff
<1>7. ~(x > 0 /\ e < x + n - 1)
  <2> SUFFICES ASSUME x > 0, e < x + n - 1 PROVE FALSE OBVIOUS
  <2>1. x \in 1..e /\ StandsAt(t, x) BY <1>3, <1>5
  <2>2. x \in Nat /\ x <= e BY <2>1
  <2>3. Crosses(t, x, e) BY <2>1, <2>2, <1>1 DEF Crosses
  <2> QED BY <2>2, <2>3, <1>2, NothingCrosses
<1> QED BY <1>2, <1>6, <1>7

LEMMA FedIs ==
  ASSUME Unbordered, NEW h \in Seq(Letter), NEW x \in Seq(Letter), NEW w, w = h \o x
  PROVE  /\ Fed(h, x).out = Redact(SubSeq(w, 1, Len(w) - Begun(w)))
         /\ Fed(h, x).held = SubSeq(w, Len(w) - Begun(w) + 1, Len(w))
<1>1. w \in Seq(Letter) BY BehindIt
<1>2. Cutoff(w) = Len(w) - Begun(w) BY <1>1, CutoffIs
<1> QED BY <1>2 DEF Fed

\* What a text ends in does not depend on what stands further to the left.
LEMMA EndOfEnd ==
  ASSUME NEW u \in Seq(Letter), NEW w \in Seq(Letter), NEW k \in 0..Len(w)
  PROVE  EndsIn(u \o w, k) <=> EndsIn(w, k)
<1>1. PICK t : t = u \o w OBVIOUS
<1>2. PICK a \in Nat : a = Len(u) OBVIOUS
<1>3. PICK b \in Nat : b = Len(w) OBVIOUS
<1>4. Len(t) = a + b /\ \A i \in 1..b : t[a + i] = w[i] BY <1>1, <1>2, <1>3, BehindIt
<1>5. ASSUME NEW m \in 1..k PROVE t[(a + b) - k + m] = w[b - k + m]
  <2>1. PICK i : i = b - k + m OBVIOUS
  <2>2. i \in 1..b BY <2>1, <1>3
  <2>3. a + i = (a + b) - k + m BY <2>1, <1>3
  <2> QED BY <2>1, <2>2, <2>3, <1>4
<1>6. k <= Len(t) /\ k <= Len(w) BY <1>3, <1>4
<1>7. EndsIn(t, k) <=> \A m \in 1..k : t[(a + b) - k + m] = Secret[m] BY <1>4, <1>6 DEF EndsIn
<1>8. EndsIn(w, k) <=> \A m \in 1..k : w[b - k + m] = Secret[m] BY <1>3, <1>6 DEF EndsIn
<1> QED BY <1>1, <1>5, <1>7, <1>8

\* An end that reaches back into p ends p as well.
LEMMA EndBefore ==
  ASSUME NEW p \in Seq(Letter), NEW x \in Seq(Letter), NEW k \in Nat, k > Len(x), EndsIn(p \o x, k)
  PROVE  EndsIn(p, k - Len(x))
<1>1. PICK t : t = p \o x OBVIOUS
<1>2. PICK a \in Nat : a = Len(p) OBVIOUS
<1>3. PICK b \in Nat : b = Len(x) OBVIOUS
<1>4. Len(t) = a + b /\ \A i \in 1..a : t[i] = p[i] BY <1>1, <1>2, <1>3, BehindIt
<1>5. k <= a + b /\ \A m \in 1..k : t[(a + b) - k + m] = Secret[m] BY <1>1, <1>4 DEF EndsIn
<1>6. PICK j \in Nat : j = k - b
  <2>1. k - b \in Nat BY <1>3
  <2> QED BY <2>1
<1>7. j <= a /\ j <= k BY <1>3, <1>5, <1>6
<1>8. ASSUME NEW m \in 1..j PROVE p[a - j + m] = Secret[m]
  <2>1. m \in 1..k BY <1>7
  <2>2. t[(a + b) - k + m] = Secret[m] BY <2>1, <1>5
  <2>3. (a + b) - k + m = a - j + m BY <1>6, <1>7
  <2>4. a - j + m \in 1..a BY <1>7
  <2> QED BY <2>2, <2>3, <2>4, <1>4
<1>9. EndsIn(p, j) BY <1>2, <1>7, <1>8 DEF EndsIn
<1> QED BY <1>3, <1>6, <1>9

\* A text goes through the filter as it comes, as if it came in one piece.
Filtered(text, out, rest) ==
  /\ out = Redact(SubSeq(text, 1, Len(text) - Begun(text)))
  /\ rest = SubSeq(text, Len(text) - Begun(text) + 1, Len(text))

LEMMA BegunAfter ==
  ASSUME NEW p \in Seq(Letter), NEW x \in Seq(Letter),
         NEW u \in Seq(Letter), NEW h \in Seq(Letter), p = u \o h, Len(h) = Begun(p)
  PROVE  Begun(p \o x) = Begun(h \o x)
<1>1. PICK n \in Nat : n = Len(Secret) /\ n > 1 BY SecretBits
<1>2. PICK w : w = h \o x OBVIOUS
<1>3. w \in Seq(Letter) /\ Len(w) = Len(h) + Len(x) BY <1>2, BehindIt
<1>4. p \o x = u \o w
  <2>1. u \o (h \o x) = (u \o h) \o x
    BY ONLY u \in Seq(Letter), h \in Seq(Letter), x \in Seq(Letter), RegroupedLetters, SMTT(30)
  <2> QED BY ONLY p = u \o h, <2>1, <1>2, SMTT(30)
<1>5. p \o x \in Seq(Letter) BY BehindIt
<1>6. PICK b : b = Begun(w) OBVIOUS
<1>7. b \in 0..(n - 1) /\ EndsIn(w, b) /\ b <= Len(w) /\ \A k \in 0..(n - 1) : EndsIn(w, k) => k <= b
  BY <1>1, <1>3, <1>6, BegunIs
<1>8. EndsIn(p \o x, b)
  <2>1. b \in 0..Len(w) BY <1>3, <1>7
  <2>2. EndsIn(u \o w, b) BY <2>1, <1>3, <1>7, EndOfEnd
  <2> QED BY <2>2, <1>4
<1>9. ASSUME NEW k \in 0..(n - 1), EndsIn(p \o x, k) PROVE k <= b
  <2>0. Len(h) \in Nat /\ Len(x) \in Nat OBVIOUS
  <2>1. k <= Len(w)
    <3>1. CASE k <= Len(x) BY <3>1, <2>0, <1>3
    <3>2. CASE k > Len(x)
      <4>0. k \in Nat BY <1>1
      <4>1. EndsIn(p, k - Len(x)) BY <3>2, <4>0, <1>9, EndBefore
      <4>2. k - Len(x) \in 0..(n - 1) BY <3>2, <2>0, <1>1
      <4>3. k - Len(x) <= Len(h) BY <4>1, <4>2, <1>1, BegunIs
      <4> QED BY <4>3, <2>0, <1>3
    <3> QED BY <3>1, <3>2, <2>0
  <2>2. k \in 0..Len(w) BY <2>1, <1>3
  <2>3. EndsIn(w, k)
    <3>1. EndsIn(u \o w, k) BY <1>4, <1>9
    <3> QED BY <3>1, <2>2, <1>3, EndOfEnd
  <2> QED BY <2>3, <1>7
<1>10. Begun(p \o x) = b BY <1>1, <1>5, <1>7, <1>8, <1>9, BegunOnly
<1> QED BY <1>2, <1>6, <1>10

LEMMA Feeding ==
  ASSUME Unbordered, NEW p \in Seq(Letter), NEW x \in Seq(Letter), NEW out, NEW rest, Filtered(p, out, rest)
  PROVE  Filtered(p \o x, out \o Fed(rest, x).out, Fed(rest, x).held)
<1>1. PICK n \in Nat : n = Len(Secret) /\ n > 1 BY SecretBits
<1>2. PICK e : e = Len(p) - Begun(p) OBVIOUS
<1>3. e \in 0..Len(p) /\ Len(p) - e = Begun(p) /\ Begun(p) \in 0..(n - 1) BY <1>1, <1>2, BegunIs
<1>4. PICK u : u = SubSeq(p, 1, e) OBVIOUS
<1>5. PICK h : h = SubSeq(p, e + 1, Len(p)) OBVIOUS
<1>6. /\ u \in Seq(Letter) /\ Len(u) = e /\ h \in Seq(Letter) /\ Len(h) = Begun(p)
      /\ u \o h = p /\ \A i \in 1..e : u[i] = p[i]
  BY <1>3, <1>4, <1>5, Halves
<1>7. out = Redact(u) /\ rest = h BY <1>2, <1>4, <1>5 DEF Filtered
<1>8. PICK w : w = h \o x OBVIOUS
<1>9. w \in Seq(Letter) /\ Len(w) = Len(h) + Len(x) BY <1>6, <1>8, BehindIt
<1>10. PICK t : t = p \o x OBVIOUS
<1>28. u \in Seq(Letter) /\ h \in Seq(Letter) BY <1>6
<1>11. t = u \o w
  <2>1. u \o (h \o x) = (u \o h) \o x
    BY ONLY <1>28, x \in Seq(Letter), RegroupedLetters, SMTT(30)
  <2> QED BY <2>1, <1>6, <1>8, <1>10
<1>12. t \in Seq(Letter) /\ Len(t) = e + Len(w) /\ Len(t) = Len(p) + Len(x)
  BY <1>6, <1>9, <1>10, <1>11, BehindIt
<1>13. PICK b : b = Begun(w) OBVIOUS
<1>14. b \in 0..Len(w) /\ b \in 0..(n - 1) BY <1>1, <1>9, <1>13, BegunIs
<1>15. Begun(t) = b
  <2>1. p = u \o h /\ Len(h) = Begun(p) BY <1>6
  <2>3. \A a, d \in Seq(Letter) : p = a \o d /\ Len(d) = Begun(p) => Begun(p \o x) = Begun(d \o x)
    BY BegunAfter, ZenonT(60)
  <2>2. Begun(p \o x) = Begun(h \o x) BY <2>1, <2>3, <1>28, Zenon
  <2> QED BY <2>2, <1>8, <1>10, <1>13
<1>16. PICK c : c = Len(w) - b OBVIOUS
<1>17. c \in 0..Len(w) BY <1>9, <1>14, <1>16
<1>18. PICK y : y = SubSeq(w, 1, c) OBVIOUS
<1>19. PICK z : z = SubSeq(w, c + 1, Len(w)) OBVIOUS
<1>20. y \in Seq(Letter) /\ Len(y) = c /\ z \in Seq(Letter) /\ y \o z = w
  BY <1>9, <1>17, <1>18, <1>19, Halves
<1>21. Fed(h, x).out = Redact(y) /\ Fed(h, x).held = z
  <2>1. /\ Fed(h, x).out = Redact(SubSeq(w, 1, Len(w) - Begun(w)))
        /\ Fed(h, x).held = SubSeq(w, Len(w) - Begun(w) + 1, Len(w))
    BY <1>8, <1>28, FedIs, ZenonT(60)
  <2>2. Len(w) - Begun(w) = c BY <1>13, <1>16
  <2> QED BY ONLY <2>1, <2>2, <1>13, <1>16, <1>18, <1>19, SMTT(30)
<1>22. PICK v : v = u \o y OBVIOUS
<1>23. v \in Seq(Letter) /\ Len(v) = e + c /\ t = v \o z
  <2>1. v \in Seq(Letter) /\ Len(v) = e + c BY <1>6, <1>20, <1>22, BehindIt
  <2>3. y \in Seq(Letter) /\ z \in Seq(Letter) BY <1>20
  <2>2. u \o (y \o z) = (u \o y) \o z BY ONLY <1>28, <2>3, RegroupedLetters, SMTT(30)
  <2> QED BY <2>1, <2>2, <1>11, <1>20, <1>22
<1>24. \A i \in 1..Len(u) : ~Crosses(u \o y, i, Len(u))
  <2> SUFFICES ASSUME NEW i \in 1..e, Crosses(v, i, e) PROVE FALSE BY <1>6, <1>22
  <2>1. StandsAt(v, i) /\ i <= e /\ e < i + n - 1 BY <1>1 DEF Crosses
  <2>2. i + n <= Len(v) + 1 /\ \A k \in 1..n : v[i + k - 1] = Secret[k] BY <2>1, <1>1 DEF StandsAt
  <2>3. \A k \in 1..Len(v) : t[k] = v[k] BY <1>20, <1>23, BehindIt
  <2>4. PICK a \in Nat : a = Len(p) OBVIOUS
  <2>5. \A k \in 1..a : t[k] = p[k] BY <2>4, <1>10, BehindIt
  <2>6. e \in Nat /\ c \in Nat /\ i \in Nat BY <1>3, <1>9, <1>17
  <2>7. ASSUME NEW k \in 1..n, i + k - 1 <= a PROVE p[i + k - 1] = Secret[k]
    <3>1. i + k - 1 \in 1..Len(v) /\ i + k - 1 \in 1..a BY <2>2, <2>6, <2>7, <1>23
    <3> QED BY <3>1, <2>2, <2>3, <2>5
  <2>8. CASE i + n - 1 <= a
    <3>1. StandsAt(p, i) BY <2>4, <2>6, <2>7, <2>8, <1>1 DEF StandsAt
    <3>2. Crosses(p, i, Len(p) - Begun(p)) BY <3>1, <2>1, <1>1, <1>2 DEF Crosses
    <3> QED BY <3>2, <2>6, NothingCrosses
  <2>9. CASE ~(i + n - 1 <= a)
    <3>1. PICK k : k = a - i + 1 OBVIOUS
    <3>2. k \in 1..(n - 1) /\ k <= a BY <3>1, <2>4, <2>6, <2>9, <1>1, <1>3
    <3>3. ASSUME NEW m \in 1..k PROVE p[a - k + m] = Secret[m]
      <4>1. m \in 1..n /\ i + m - 1 <= a /\ a - k + m = i + m - 1 BY <3>1, <3>2, <2>6
      <4> QED BY <4>1, <2>7
    <3>4. EndsIn(p, k) BY <3>2, <3>3, <2>4 DEF EndsIn
    <3>5. k \in 0..(n - 1) BY <3>2
    <3>6. k <= Begun(p) BY <3>4, <3>5, <1>1, BegunIs
    <3> QED BY <3>1, <3>6, <2>1, <2>4, <2>6, <1>2, <1>3
  <2> QED BY <2>8, <2>9
<1>25. Redact(v) = Redact(u) \o Redact(y) BY <1>6, <1>20, <1>22, <1>24, RedactSplits
<1>26. SubSeq(t, 1, Len(t) - Begun(t)) = v /\ SubSeq(t, Len(t) - Begun(t) + 1, Len(t)) = z
  <2>1. PICK d : d = e + c OBVIOUS
  <2>2. Len(t) - Begun(t) = d /\ d \in 0..Len(t)
    <3>1. e \in Nat /\ c \in Nat /\ Len(w) \in Nat BY <1>3, <1>9, <1>17
    <3> QED BY <3>1, <2>1, <1>12, <1>14, <1>15, <1>16
  <2>3. PICK v1 : v1 = SubSeq(t, 1, d) OBVIOUS
  <2>4. PICK z1 : z1 = SubSeq(t, d + 1, Len(t)) OBVIOUS
  <2>5. /\ v1 \in Seq(Letter) /\ Len(v1) = d /\ z1 \in Seq(Letter) /\ Len(z1) = Len(t) - d
        /\ \A i \in 1..d : v1[i] = t[i]
        /\ \A j \in 1..(Len(t) - d) : z1[j] = t[d + j]
    BY <2>2, <2>3, <2>4, <1>12, Halves
  <2>6. \A i \in 1..d : t[i] = v[i] BY <2>1, <1>20, <1>23, BehindIt
  <2>7. Len(t) = d + Len(z) /\ \A j \in 1..Len(z) : t[d + j] = z[j]
    <3>1. v \in Seq(Letter) /\ z \in Seq(Letter) /\ Len(v) = d BY <2>1, <1>20, <1>23
    <3>2. Len(v \o z) = Len(v) + Len(z) /\ \A j \in 1..Len(z) : (v \o z)[Len(v) + j] = z[j]
      BY <3>1, LettersBehind
    <3> QED BY <3>1, <3>2, <1>23
  <2>8. v1 = v
    <3>1. Len(v1) = Len(v) BY <2>1, <2>5, <1>23
    <3>2. \A i \in 1..Len(v1) : v1[i] = v[i] BY <2>5, <2>6
    <3>3. v1 \in Seq(Letter) /\ v \in Seq(Letter) BY <2>5, <1>23
    <3> QED BY <3>1, <3>2, <3>3, SeqEqual
  <2>9. z1 = z
    <3>1. Len(z1) = Len(z) BY <2>2, <2>5, <2>7, <1>20
    <3>2. \A i \in 1..Len(z1) : z1[i] = z[i]
      <4> SUFFICES ASSUME NEW i \in 1..Len(z1) PROVE z1[i] = z[i] OBVIOUS
      <4>3. i \in 1..(Len(t) - d)
        <5>1. Len(z1) = Len(t) - d BY <2>5
        <5> QED BY <5>1
      <4>1. z1[i] = t[d + i] BY <4>3, <2>5
      <4>2. t[d + i] = z[i] BY <3>1, <2>7
      <4> QED BY <4>1, <4>2
    <3>3. z1 \in Seq(Letter) /\ z \in Seq(Letter) BY <2>5, <1>20
    <3> QED BY <3>1, <3>2, <3>3, SeqEqual
  <2> QED BY <2>2, <2>3, <2>4, <2>8, <2>9
<1>27. Filtered(t, Redact(v), z) BY <1>26 DEF Filtered
<1> QED BY <1>7, <1>10, <1>21, <1>25, <1>27

LEMMA FilteredNothing ==
  ASSUME Unbordered
  PROVE  Filtered(<<>>, <<>>, <<>>)
<1>1. <<>> \in Seq(Letter) /\ Len(<<>>) = 0 OBVIOUS
<1>2. Begun(<<>>) \in Nat /\ Begun(<<>>) <= 0
  <2>1. Begun(<<>>) \in 0..(Len(Secret) - 1) BY <1>1, BegunIs
  <2>2. Begun(<<>>) <= Len(<<>>) BY <1>1, BegunIs
  <2>3. Begun(<<>>) \in Nat BY <2>1, SecretBits
  <2> QED BY <2>2, <2>3, <1>1
<1>3. Begun(<<>>) = 0 BY <1>2
<1>4. SubSeq(<<>>, 1, 0) = <<>> BY SubSeqEmpty
<1>5. Redact(<<>>) = <<>>
  <2>1. Redact(<<>>) = FlattenSeq(Masked(<<>>)) /\ Masked(<<>>) \in Seq(Seq(Shown)) /\ Len(Masked(<<>>)) = 0
    BY <1>1, RedactIsMasked
  <2> QED BY <2>1, FlattenNone
<1>6. PICK o : o = <<>> OBVIOUS
<1>7. Begun(o) = 0 /\ Len(o) = 0 /\ SubSeq(o, 1, 0) = o /\ Redact(o) = o BY <1>1, <1>3, <1>4, <1>5, <1>6
<1>8. Len(o) - Begun(o) = 0 BY <1>7
<1>9. SubSeq(o, 0 + 1, Len(o)) = o BY <1>7
<1>10. Filtered(o, o, o) BY <1>7, <1>8, <1>9 DEF Filtered
<1> QED BY <1>6, <1>10

\* What is shown of a whole text.
LEMMA ShownIs ==
  ASSUME Unbordered, NEW t \in Seq(Letter), NEW out, NEW rest, Filtered(t, out, rest)
  PROVE  ShownText(t) = out \o Closing(rest)
<1>1. <<>> \in Seq(Letter) OBVIOUS
<1>2. <<>> \o t = t OBVIOUS
<1>3. Fed(<<>>, t).out = out /\ Fed(<<>>, t).held = rest BY <1>1, <1>2, FedIs DEF Filtered
<1> QED BY <1>3 DEF ShownText

-----------------------------------------------------------------------------
(* The stream. *)

Brackets == {"{", "}"}
Reasons == {"stop", "length"}

Frame ==
  [kind : {"text"}, at : Nat, data : Seq(Letter)]
  \cup [kind : {"args"}, at : Nat, data : Seq(Brackets) \ {<<>>}]
  \cup [kind : {"begin", "error", "close"}, at : Nat, data : {<<>>}]
  \cup [kind : {"open"}, at : Nat, data : {"text", "tool"}]
  \cup [kind : {"reason"}, at : Nat, data : Reasons]
  \cup [kind : {"end"}, at : Nat, data : {<<>>} \cup Reasons \cup Answers]

SeenAnswers ==
  [text : Seq(Letter), args : Seq(Brackets), begun : BOOLEAN, open : SUBSET Nat,
   reason : {"none", "stop", "length"}, over : BOOLEAN]

\* The variables hold what they are meant to (llm/adapters.py, core_adapter.py).
ModelTypeOK ==
  /\ protocol \in {"chat", "ollama", "claude", "responses"} /\ streams \in BOOLEAN
  /\ turn \in Nat /\ mine \in Nat /\ attempts \in Nat /\ published \in BOOLEAN
  /\ step \in {"idle", "asking", "reading", "got", "finished", "confirmed", "failed"}
  /\ answer \in Answers /\ frames \in Seq(Frame) /\ seen \in SeenAnswers
  /\ partial \in Seq(Letter) /\ held \in Seq(Letter)
  /\ safe \in Seq(Shown) /\ pending \in Seq(Shown) /\ public \in Seq(Shown)
  /\ record \in [text : Seq(Shown), call : BOOLEAN, given : BOOLEAN]

LEMMA TextsTyped ==
  /\ <<>> \in Texts
  /\ \A x \in Texts : x \in Seq(Letter)
<1>1. \A x \in Texts : x \in Seq(Letter)
  <2> SUFFICES ASSUME NEW x \in Texts PROVE x \in Seq(Letter) OBVIOUS
  <2>1. PICK n \in 0..MaxText : x \in [1..n -> Letter] BY DEF Texts
  <2>2. n \in Nat BY StreamingBounds
  <2> QED BY <2>1, <2>2, FunctionIsSeq
<1>2. <<>> \in Texts
  <2>1. <<>> \in [1..0 -> Letter] OBVIOUS
  <2>2. 0 \in 0..MaxText BY StreamingBounds
  <2> QED BY <2>1, <2>2 DEF Texts
<1> QED BY <1>1, <1>2

LEMMA FrameTyped ==
  /\ \A x \in Seq(Letter) : F("text", 1, x) \in Frame
  /\ \A n \in Nat, x \in Seq(Brackets) : x # <<>> => F("args", n, x) \in Frame
  /\ \A n \in Nat : \A k \in {"begin", "error", "close"} : F(k, n, <<>>) \in Frame
  /\ \A n \in Nat, d \in {"text", "tool"} : F("open", n, d) \in Frame
  /\ \A r \in Reasons : F("reason", 0, r) \in Frame
  /\ F("end", 0, <<>>) \in Frame
  /\ \A r \in Reasons : F("end", 0, r) \in Frame
  /\ \A a \in Answers : F("end", 0, a) \in Frame
<1>1. \A x \in Seq(Letter) : F("text", 1, x) \in Frame BY DEF F, Frame
<1>2. \A n \in Nat, x \in Seq(Brackets) : x # <<>> => F("args", n, x) \in Frame BY DEF F, Frame
<1>3. \A n \in Nat : \A k \in {"begin", "error", "close"} : F(k, n, <<>>) \in Frame BY DEF F, Frame
<1>4. \A n \in Nat, d \in {"text", "tool"} : F("open", n, d) \in Frame BY DEF F, Frame
<1>5. \A r \in Reasons : F("reason", 0, r) \in Frame BY DEF F, Frame
<1>6. F("end", 0, <<>>) \in Frame BY DEF F, Frame
<1>7. \A r \in Reasons : F("end", 0, r) \in Frame BY DEF F, Frame
<1>8. \A a \in Answers : F("end", 0, a) \in Frame BY DEF F, Frame
<1> QED BY <1>1, <1>2, <1>3, <1>4, <1>5, <1>6, <1>7, <1>8

LEMMA FrameParts ==
  ASSUME NEW f \in Frame
  PROVE  /\ f.kind = "text" => f.data \in Seq(Letter)
         /\ f.kind = "args" => f.data \in Seq(Brackets) /\ f.data # <<>>
         /\ f.kind = "reason" => f.data \in Reasons
         /\ f.at \in Nat
<1>1. f.kind = "text" => f.data \in Seq(Letter) BY DEF Frame
<1>2. f.kind = "args" => f.data \in Seq(Brackets) /\ f.data # <<>> BY DEF Frame
<1>3. f.kind = "reason" => f.data \in Reasons BY DEF Frame
<1>4. f.at \in Nat BY DEF Frame
<1> QED BY <1>1, <1>2, <1>3, <1>4

\* The text that frames carry.
TextOf(f) == IF f.kind = "text" THEN f.data ELSE <<>>
TextLeft(fs) == FlattenSeq([i \in DOMAIN fs |-> TextOf(fs[i])])
Has(fs, kind) == \E i \in DOMAIN fs : fs[i].kind = kind
ReasonsFit(fs, r) == \A i \in DOMAIN fs : fs[i].kind = "reason" => fs[i].data = r

LEMMA TextOfTyped ==
  ASSUME NEW f \in Frame
  PROVE  TextOf(f) \in Seq(Letter)
<1>1. CASE f.kind = "text" BY <1>1, FrameParts DEF TextOf
<1>2. CASE f.kind # "text" BY <1>2 DEF TextOf
<1> QED BY <1>1, <1>2

LEMMA TextsOf ==
  ASSUME NEW fs \in Seq(Frame)
  PROVE  /\ [i \in DOMAIN fs |-> TextOf(fs[i])] \in Seq(Seq(Letter))
         /\ Len([i \in DOMAIN fs |-> TextOf(fs[i])]) = Len(fs)
         /\ TextLeft(fs) \in Seq(Letter)
<1>1. DOMAIN fs = 1..Len(fs) /\ Len(fs) \in Nat OBVIOUS
<1>2. PICK p : p = [i \in DOMAIN fs |-> TextOf(fs[i])] OBVIOUS
<1>3. ASSUME NEW i \in 1..Len(fs) PROVE TextOf(fs[i]) \in Seq(Letter)
  <2>1. fs[i] \in Frame OBVIOUS
  <2> QED BY <2>1, TextOfTyped
<1>4. p \in [1..Len(fs) -> Seq(Letter)] BY <1>1, <1>2, <1>3
<1>5. p \in Seq(Seq(Letter)) /\ Len(p) = Len(fs) BY <1>1, <1>4, FunctionIsSeq
<1>6. FlattenSeq(p) \in Seq(Letter) BY <1>5, FlattenTyped
<1> QED BY <1>2, <1>5, <1>6 DEF TextLeft

LEMMA TextLeftJoins ==
  ASSUME NEW s \in Seq(Frame), NEW t \in Seq(Frame)
  PROVE  TextLeft(s \o t) = TextLeft(s) \o TextLeft(t)
<1>1. PICK w : w = s \o t OBVIOUS
<1>2. /\ w \in Seq(Frame) /\ Len(w) = Len(s) + Len(t)
      /\ \A i \in 1..Len(s) : w[i] = s[i]
      /\ \A i \in 1..Len(t) : w[Len(s) + i] = t[i]
  BY <1>1, BehindIt
<1>3. PICK p : p = [i \in DOMAIN s |-> TextOf(s[i])] OBVIOUS
<1>4. PICK q : q = [i \in DOMAIN t |-> TextOf(t[i])] OBVIOUS
<1>5. PICK r : r = [i \in DOMAIN w |-> TextOf(w[i])] OBVIOUS
<1>6. /\ p \in Seq(Seq(Letter)) /\ Len(p) = Len(s)
      /\ q \in Seq(Seq(Letter)) /\ Len(q) = Len(t)
      /\ r \in Seq(Seq(Letter)) /\ Len(r) = Len(w)
  BY <1>2, <1>3, <1>4, <1>5, TextsOf
<1>7. Len(s) \in Nat /\ Len(t) \in Nat /\ DOMAIN s = 1..Len(s) /\ DOMAIN t = 1..Len(t)
  OBVIOUS
<1>8. DOMAIN w = 1..(Len(s) + Len(t)) BY <1>2
<1>9. ASSUME NEW i \in 1..Len(p) PROVE r[i] = p[i]
  <2>1. i \in 1..Len(s) /\ i \in DOMAIN s /\ i \in DOMAIN w BY <1>6, <1>7, <1>8
  <2>2. w[i] = s[i] BY <2>1, <1>2
  <2> QED BY <2>1, <2>2, <1>3, <1>5
<1>10. ASSUME NEW i \in 1..Len(q) PROVE r[Len(p) + i] = q[i]
  <2>1. i \in 1..Len(t) /\ i \in DOMAIN t /\ Len(s) + i \in DOMAIN w BY <1>6, <1>7, <1>8
  <2>2. w[Len(s) + i] = t[i] BY <2>1, <1>2
  <2>3. r[Len(s) + i] = TextOf(w[Len(s) + i]) BY <2>1, <1>5
  <2>4. q[i] = TextOf(t[i]) BY <2>1, <1>4
  <2> QED BY <2>2, <2>3, <2>4, <1>6
<1>11. Len(r) = Len(p) + Len(q) BY <1>2, <1>6
<1>12. r = p \o q BY <1>6, <1>9, <1>10, <1>11, FunctionJoins
<1>13. FlattenSeq(p \o q) = FlattenSeq(p) \o FlattenSeq(q) BY <1>6, FlattenTwo
<1> QED BY <1>1, <1>3, <1>4, <1>5, <1>12, <1>13 DEF TextLeft

LEMMA NoTextLeft ==
  ASSUME NEW s \in Seq(Frame), ~Has(s, "text")
  PROVE  TextLeft(s) = <<>>
<1>1. PICK p : p = [i \in DOMAIN s |-> TextOf(s[i])] OBVIOUS
<1>2. p \in Seq(Seq(Letter)) /\ Len(p) = Len(s) BY <1>1, TextsOf
<1>3. DOMAIN s = 1..Len(s) OBVIOUS
<1>4. ASSUME NEW i \in 1..Len(p) PROVE p[i] = <<>>
  <2>1. i \in DOMAIN s BY <1>2, <1>3
  <2>2. s[i].kind # "text" BY <2>1 DEF Has
  <2> QED BY <2>1, <2>2, <1>1 DEF TextOf
<1> QED BY <1>1, <1>2, <1>4, FlattenNone DEF TextLeft

LEMMA OneText ==
  ASSUME NEW f \in Frame
  PROVE  TextLeft(<<f>>) = TextOf(f)
<1>1. PICK x : x = TextOf(f) OBVIOUS
<1>2. x \in Seq(Letter) BY <1>1, TextOfTyped
<1>3. PICK p : p = [i \in DOMAIN <<f>> |-> TextOf(<<f>>[i])] OBVIOUS
<1>4. p = <<x>> BY <1>1, <1>3
<1>5. p \in Seq(Seq(Letter)) /\ Len(p) = 1 /\ p[1] = x BY <1>2, <1>4
<1>6. PICK h : h = [i \in 1..1 |-> x] OBVIOUS
<1>7. Joins(p, 1, h) /\ h[1] = x BY <1>5, <1>6 DEF Joins
<1>8. PICK n : n = 1 OBVIOUS
<1>9. n \in Nat /\ n > 0 /\ Len(p) = n /\ Joins(p, n, h) BY <1>5, <1>7, <1>8
<1>10. FlattenSeq(p) = h[n] BY <1>5, <1>9, FlattenIs
<1> QED BY <1>1, <1>3, <1>7, <1>8, <1>10 DEF TextLeft

LEMMA HasJoins ==
  ASSUME NEW s \in Seq(Frame), NEW t \in Seq(Frame), NEW k
  PROVE  Has(s \o t, k) <=> Has(s, k) \/ Has(t, k)
<1>1. PICK w : w = s \o t OBVIOUS
<1>2. /\ w \in Seq(Frame) /\ Len(w) = Len(s) + Len(t)
      /\ \A i \in 1..Len(s) : w[i] = s[i]
      /\ \A i \in 1..Len(t) : w[Len(s) + i] = t[i]
  BY <1>1, BehindIt
<1>3. Len(s) \in Nat /\ Len(t) \in Nat /\ DOMAIN s = 1..Len(s) /\ DOMAIN t = 1..Len(t)
  OBVIOUS
<1>4. DOMAIN w = 1..(Len(s) + Len(t)) BY <1>2
<1>5. ASSUME NEW i \in DOMAIN w, w[i].kind = k PROVE Has(s, k) \/ Has(t, k)
  <2>1. CASE i <= Len(s)
    <3>1. i \in DOMAIN s /\ w[i] = s[i] BY <2>1, <1>2, <1>3, <1>4
    <3> QED BY <3>1, <1>5 DEF Has
  <2>2. CASE ~(i <= Len(s))
    <3>1. PICK j : j = i - Len(s) OBVIOUS
    <3>2. j \in 1..Len(t) /\ Len(s) + j = i BY <3>1, <2>2, <1>3, <1>4
    <3>3. w[i] = t[j] BY <3>2, <1>2
    <3>4. j \in DOMAIN t BY <3>2, <1>3
    <3> QED BY <3>3, <3>4, <1>5 DEF Has
  <2> QED BY <2>1, <2>2
<1>6. ASSUME NEW i \in DOMAIN s, s[i].kind = k PROVE Has(w, k)
  <2>1. i \in DOMAIN w /\ w[i] = s[i] BY <1>2, <1>3, <1>4
  <2> QED BY <2>1, <1>6 DEF Has
<1>7. ASSUME NEW i \in DOMAIN t, t[i].kind = k PROVE Has(w, k)
  <2>1. Len(s) + i \in DOMAIN w /\ w[Len(s) + i] = t[i] BY <1>2, <1>3, <1>4
  <2> QED BY <2>1, <1>7 DEF Has
<1> QED BY <1>1, <1>5, <1>6, <1>7 DEF Has

LEMMA ReasonsJoin ==
  ASSUME NEW s \in Seq(Frame), NEW t \in Seq(Frame), NEW r
  PROVE  ReasonsFit(s \o t, r) <=> ReasonsFit(s, r) /\ ReasonsFit(t, r)
<1>1. PICK w : w = s \o t OBVIOUS
<1>2. /\ w \in Seq(Frame) /\ Len(w) = Len(s) + Len(t)
      /\ \A i \in 1..Len(s) : w[i] = s[i]
      /\ \A i \in 1..Len(t) : w[Len(s) + i] = t[i]
  BY <1>1, BehindIt
<1>3. Len(s) \in Nat /\ Len(t) \in Nat /\ DOMAIN s = 1..Len(s) /\ DOMAIN t = 1..Len(t)
  OBVIOUS
<1>4. DOMAIN w = 1..(Len(s) + Len(t)) BY <1>2
<1>5. ASSUME ReasonsFit(s, r), ReasonsFit(t, r), NEW i \in DOMAIN w, w[i].kind = "reason"
      PROVE  w[i].data = r
  <2>1. CASE i <= Len(s)
    <3>1. i \in DOMAIN s /\ w[i] = s[i] BY <2>1, <1>2, <1>3, <1>4
    <3> QED BY <3>1, <1>5 DEF ReasonsFit
  <2>2. CASE ~(i <= Len(s))
    <3>1. PICK j : j = i - Len(s) OBVIOUS
    <3>2. j \in 1..Len(t) /\ Len(s) + j = i BY <3>1, <2>2, <1>3, <1>4
    <3>3. w[i] = t[j] BY <3>2, <1>2
    <3>4. j \in DOMAIN t BY <3>2, <1>3
    <3> QED BY <3>3, <3>4, <1>5 DEF ReasonsFit
  <2> QED BY <2>1, <2>2
<1>6. ASSUME ReasonsFit(w, r), NEW i \in DOMAIN s, s[i].kind = "reason" PROVE s[i].data = r
  <2>1. i \in DOMAIN w /\ w[i] = s[i] BY <1>2, <1>3, <1>4
  <2> QED BY <2>1, <1>6 DEF ReasonsFit
<1>7. ASSUME ReasonsFit(w, r), NEW i \in DOMAIN t, t[i].kind = "reason" PROVE t[i].data = r
  <2>1. Len(s) + i \in DOMAIN w /\ w[Len(s) + i] = t[i] BY <1>2, <1>3, <1>4
  <2> QED BY <2>1, <1>7 DEF ReasonsFit
<1> QED BY <1>1, <1>5, <1>6, <1>7 DEF ReasonsFit

-----------------------------------------------------------------------------
(* What the frames of an answer carry. *)

\* Frames within an answer: their text, and whether they call.
Body(b, text, calling) ==
  /\ b \in Seq(Frame) /\ text \in Seq(Letter) /\ calling \in BOOLEAN
  /\ TextLeft(b) = text
  /\ Has(b, "args") <=> calling
  /\ ~Has(b, "reason") /\ ~Has(b, "end")

LEMMA BodyJoins ==
  ASSUME NEW s, NEW t, NEW x, NEW y, NEW c, NEW d, Body(s, x, c), Body(t, y, d)
  PROVE  Body(s \o t, x \o y, c \/ d)
<1>1. /\ s \in Seq(Frame) /\ x \in Seq(Letter) /\ c \in BOOLEAN /\ TextLeft(s) = x
      /\ (Has(s, "args") <=> c) /\ ~Has(s, "reason") /\ ~Has(s, "end")
  BY DEF Body
<1>2. /\ t \in Seq(Frame) /\ y \in Seq(Letter) /\ d \in BOOLEAN /\ TextLeft(t) = y
      /\ (Has(t, "args") <=> d) /\ ~Has(t, "reason") /\ ~Has(t, "end")
  BY DEF Body
<1>3. s \o t \in Seq(Frame) /\ x \o y \in Seq(Letter) /\ (c \/ d) \in BOOLEAN BY <1>1, <1>2
<1>4. TextLeft(s \o t) = x \o y BY <1>1, <1>2, TextLeftJoins
<1>5. Has(s \o t, "args") <=> (c \/ d) BY <1>1, <1>2, HasJoins
<1>6. ~Has(s \o t, "reason") /\ ~Has(s \o t, "end") BY <1>1, <1>2, HasJoins
<1> QED BY <1>3, <1>4, <1>5, <1>6 DEF Body

LEMMA NoBody == Body(<<>>, <<>>, FALSE)
<1>1. <<>> \in Seq(Frame) /\ <<>> \in Seq(Letter) /\ Len(<<>>) = 0 OBVIOUS
<1>2. PICK o : o = <<>> OBVIOUS
<1>3. \A k : ~Has(o, k) BY <1>2 DEF Has
<1>4. TextLeft(o) = o BY <1>1, <1>2, <1>3, NoTextLeft
<1> QED BY <1>1, <1>2, <1>3, <1>4 DEF Body

LEMMA PlainBody ==
  ASSUME NEW b \in Seq(Frame), \A i \in DOMAIN b : b[i].kind \in {"begin", "open", "close"}
  PROVE  Body(b, <<>>, FALSE)
<1>1. ~Has(b, "text") /\ ~Has(b, "args") /\ ~Has(b, "reason") /\ ~Has(b, "end")
  <2>1. \A i \in DOMAIN b : b[i].kind # "text" /\ b[i].kind # "args" /\ b[i].kind # "reason" /\ b[i].kind # "end"
    OBVIOUS
  <2> QED BY <2>1 DEF Has
<1>2. TextLeft(b) = <<>> BY <1>1, NoTextLeft
<1>3. <<>> \in Seq(Letter) OBVIOUS
<1> QED BY <1>1, <1>2, <1>3 DEF Body

LEMMA CallBody ==
  ASSUME NEW b \in Seq(Frame), b # <<>>, \A i \in DOMAIN b : b[i].kind = "args"
  PROVE  Body(b, <<>>, TRUE)
<1>1. ~Has(b, "text") /\ ~Has(b, "reason") /\ ~Has(b, "end") BY DEF Has
<1>2. Has(b, "args")
  <2>1. 1 \in DOMAIN b OBVIOUS
  <2> QED BY <2>1 DEF Has
<1>3. TextLeft(b) = <<>> BY <1>1, NoTextLeft
<1>4. <<>> \in Seq(Letter) OBVIOUS
<1> QED BY <1>1, <1>2, <1>3, <1>4 DEF Body

LEMMA TextBody ==
  ASSUME NEW x \in Seq(Letter)
  PROVE  Body(<<F("text", 1, x)>>, x, FALSE)
<1>1. PICK f : f = F("text", 1, x) OBVIOUS
<1>2. f \in Frame BY <1>1, FrameTyped
<1>3. f.kind = "text" /\ f.data = x BY <1>1 DEF F
<1>4. PICK b : b = <<f>> OBVIOUS
<1>5. b \in Seq(Frame) /\ Len(b) = 1 /\ DOMAIN b = 1..1 /\ b[1] = f BY <1>2, <1>4
<1>6. TextLeft(b) = x
  <2>1. TextOf(f) = x BY <1>3 DEF TextOf
  <2> QED BY <2>1, <1>2, <1>4, OneText
<1>7. \A i \in DOMAIN b : b[i].kind = "text" BY <1>3, <1>5
<1>8. ~Has(b, "args") /\ ~Has(b, "reason") /\ ~Has(b, "end") BY <1>7 DEF Has
<1> QED BY <1>1, <1>4, <1>5, <1>6, <1>8 DEF Body

LEMMA PieceBody ==
  ASSUME NEW x \in Seq(Letter), NEW i \in 1..(Len(x) + 1), NEW j \in 0..Len(x)
  PROVE  Body(Piece(x, i, j), SubSeq(x, i, j), FALSE)
<1>1. CASE i > j
  <2>1. SubSeq(x, i, j) = <<>> BY <1>1, SubSeqEmpty
  <2>2. Piece(x, i, j) = <<>> BY <1>1 DEF Piece
  <2> QED BY <2>1, <2>2, NoBody
<1>2. CASE ~(i > j)
  <2>1. Piece(x, i, j) = <<F("text", 1, SubSeq(x, i, j))>> BY <1>2 DEF Piece
  <2>2. SubSeq(x, i, j) \in Seq(Letter) BY <1>2
  <2> QED BY <2>1, <2>2, TextBody
<1> QED BY <1>1, <1>2

LEMMA TextFramesBody ==
  ASSUME NEW a \in Answers, NEW k \in 0..Len(a.text)
  PROVE  Body(TextFrames(a, k), a.text, FALSE)
<1>1. PICK x : x = a.text OBVIOUS
<1>2. a.text \in Texts BY DEF Answers
<1>3. x \in Seq(Letter) BY <1>1, <1>2, TextsTyped
<1>4. Len(x) \in Nat /\ k \in 0..Len(x) BY <1>1, <1>3
<1>5. Body(Piece(x, 1, k), SubSeq(x, 1, k), FALSE)
  <2>1. 1 \in 1..(Len(x) + 1) /\ k \in 0..Len(x) BY <1>4
  <2> QED BY <2>1, <1>3, PieceBody
<1>6. Body(Piece(x, k + 1, Len(x)), SubSeq(x, k + 1, Len(x)), FALSE)
  <2>1. k + 1 \in 1..(Len(x) + 1) /\ Len(x) \in 0..Len(x) BY <1>4
  <2> QED BY <2>1, <1>3, PieceBody
<1>7. Body(TextFrames(a, k), SubSeq(x, 1, k) \o SubSeq(x, k + 1, Len(x)), FALSE)
  <2>1. Body(Piece(x, 1, k) \o Piece(x, k + 1, Len(x)), SubSeq(x, 1, k) \o SubSeq(x, k + 1, Len(x)), FALSE \/ FALSE)
    BY <1>5, <1>6, BodyJoins
  <2>2. FALSE \/ FALSE <=> FALSE OBVIOUS
  <2> QED BY <2>1, <2>2, <1>1 DEF TextFrames
<1>8. SubSeq(x, 1, k) \o SubSeq(x, k + 1, Len(x)) = x BY <1>3, <1>4, Halves
<1> QED BY <1>1, <1>7, <1>8

LEMMA ArgumentsTyped ==
  ASSUME NEW a \in Answers
  PROVE  Arguments(a) \in Seq(Brackets) /\ Arguments(a) # <<>> /\ Len(Arguments(a)) > 0 /\ Whole \in Seq(Brackets)
<1>1. PICK l : l = "{" OBVIOUS
<1>2. PICK m : m = "}" OBVIOUS
<1>3. l \in Brackets /\ m \in Brackets BY <1>1, <1>2, Zenon DEF Brackets
<1>4. PICK w : w = <<l, m>> OBVIOUS
<1>5. PICK o : o = <<l>> OBVIOUS
<1>6. w = Whole BY <1>1, <1>2, <1>4, Zenon DEF Whole
<1>7. w \in Seq(Brackets) /\ Len(w) = 2 BY <1>3, <1>4
<1>8. o \in Seq(Brackets) /\ Len(o) = 1 BY <1>3, <1>5
<1>9. PICK r : r = Arguments(a) OBVIOUS
<1>10. r = w \/ r = o BY <1>1, <1>5, <1>6, <1>9, Zenon DEF Arguments
<1>11. r \in Seq(Brackets) /\ Len(r) > 0
  <2>1. CASE r = w
    <3>1. Len(r) = 2 BY <1>7, <2>1
    <3>2. r \in Seq(Brackets) BY <1>7, <2>1, Zenon
    <3>3. Len(r) > 0 BY <3>1
    <3> QED BY <3>2, <3>3
  <2>2. CASE r = o
    <3>1. Len(r) = 1 BY <1>8, <2>2
    <3> QED BY <1>8, <2>2, <3>1
  <2> QED BY <1>10, <2>1, <2>2
<1>12. r # <<>> BY <1>11
<1> QED BY <1>6, <1>7, <1>9, <1>11, <1>12

LEMMA CallsBody ==
  ASSUME NEW a \in Answers, NEW n \in Nat
  PROVE  Body([i \in 1..Len(Arguments(a)) |-> F("args", n, <<Arguments(a)[i]>>)], <<>>, TRUE)
<1>1. PICK r : r = Arguments(a) OBVIOUS
<1>2. r \in Seq(Brackets) /\ Len(r) > 0 /\ Len(r) \in Nat BY <1>1, ArgumentsTyped
<1>3. PICK b : b = [i \in 1..Len(r) |-> F("args", n, <<r[i]>>)] OBVIOUS
<1>4. ASSUME NEW i \in 1..Len(r) PROVE F("args", n, <<r[i]>>) \in Frame /\ F("args", n, <<r[i]>>).kind = "args"
  <2>1. r[i] \in Brackets BY <1>2
  <2>2. <<r[i]>> \in Seq(Brackets) /\ <<r[i]>> # <<>> BY <2>1
  <2> QED BY <2>2, FrameTyped DEF F
<1>5. b \in [1..Len(r) -> Frame] BY <1>3, <1>4
<1>6. b \in Seq(Frame) /\ Len(b) = Len(r) BY <1>2, <1>5, FunctionIsSeq
<1>7. b # <<>> BY <1>2, <1>6
<1>8. \A i \in DOMAIN b : b[i].kind = "args" BY <1>3, <1>4
<1> QED BY <1>1, <1>3, <1>6, <1>7, <1>8, CallBody

\* The last frame of a whole stream.
LastFrame(fs) == fs[Len(fs)]
\* A stream ends once.
Ordered(fs) == \A i \in DOMAIN fs : fs[i].kind = "end" => i = Len(fs)

LEMMA Sealed ==
  ASSUME NEW b \in Seq(Frame), ~Has(b, "end"), NEW c \in Seq(Frame), c # <<>>, Ordered(c)
  PROVE  /\ b \o c \in Seq(Frame) /\ b \o c # <<>> /\ Ordered(b \o c) /\ LastFrame(b \o c) = LastFrame(c)
<1>1. PICK w : w = b \o c OBVIOUS
<1>2. /\ w \in Seq(Frame) /\ Len(w) = Len(b) + Len(c)
      /\ \A i \in 1..Len(b) : w[i] = b[i]
      /\ \A i \in 1..Len(c) : w[Len(b) + i] = c[i]
  BY <1>1, BehindIt
<1>3. /\ Len(b) \in Nat /\ Len(c) \in Nat /\ Len(c) > 0
      /\ DOMAIN b = 1..Len(b) /\ DOMAIN c = 1..Len(c)
  OBVIOUS
<1>4. DOMAIN w = 1..(Len(b) + Len(c)) BY <1>2
<1>5. w # <<>>
  <2>1. Len(w) > 0 BY <1>2, <1>3
  <2> QED BY <2>1
<1>6. LastFrame(w) = LastFrame(c)
  <2>1. Len(c) \in 1..Len(c) BY <1>3
  <2>2. w[Len(b) + Len(c)] = c[Len(c)] BY <2>1, <1>2
  <2> QED BY <2>2, <1>2 DEF LastFrame
<1>7. ASSUME NEW i \in DOMAIN w, w[i].kind = "end" PROVE i = Len(w)
  <2>1. CASE i <= Len(b)
    <3>1. i \in DOMAIN b /\ w[i] = b[i] BY <2>1, <1>2, <1>3, <1>4
    <3>2. Has(b, "end") BY <3>1, <1>7 DEF Has
    <3> QED BY <3>2
  <2>2. CASE ~(i <= Len(b))
    <3>1. PICK j : j = i - Len(b) OBVIOUS
    <3>2. j \in 1..Len(c) /\ Len(b) + j = i BY <3>1, <2>2, <1>3, <1>4
    <3>3. w[i] = c[j] BY <3>2, <1>2
    <3>4. j \in DOMAIN c BY <3>2, <1>3
    <3>5. j = Len(c) BY <3>3, <3>4, <1>7 DEF Ordered
    <3> QED BY <3>2, <3>5, <1>2
  <2> QED BY <2>1, <2>2
<1> QED BY <1>1, <1>2, <1>5, <1>6, <1>7 DEF Ordered

\* What is left of a stream that has not been broken off completes the answer.
Completes(fs, s, a, pr) ==
  /\ s.text \o TextLeft(fs) = a.text
  /\ pr # "responses" => (a.call <=> (s.args # <<>> \/ Has(fs, "args")))
  /\ pr \in {"chat", "claude"} => s.reason = a.reason \/ Has(fs, "reason")
  /\ ReasonsFit(fs, a.reason)
  /\ pr = "ollama" => LastFrame(fs).data = a.reason
  /\ pr = "responses" => LastFrame(fs).data = a /\ a.reason = "stop"

\* The frames after the text and the calls.
Tailed(c, r, pr, a) ==
  /\ c \in Seq(Frame) /\ c # <<>> /\ Ordered(c)
  /\ ~Has(c, "text") /\ ~Has(c, "args")
  /\ ReasonsFit(c, r)
  /\ LastFrame(c).kind = "end" =>
       /\ pr \in {"chat", "claude"} => Has(c, "reason")
       /\ pr = "ollama" => LastFrame(c).data = r
       /\ pr = "responses" => LastFrame(c).data = a /\ r = "stop"

LEMMA SealedCompletes ==
  ASSUME NEW b, NEW c, NEW a \in Answers, NEW pr, Body(b, a.text, IF pr = "responses" THEN FALSE ELSE a.call),
         Tailed(c, a.reason, pr, a)
  PROVE  /\ b \o c \in Seq(Frame) /\ Ordered(b \o c)
         /\ LastFrame(b \o c).kind = "end" => Completes(b \o c, Nothing, a, pr)
<1>1. PICK w : w = b \o c OBVIOUS
<1>2. /\ b \in Seq(Frame) /\ a.text \in Seq(Letter) /\ TextLeft(b) = a.text
      /\ ~Has(b, "reason") /\ ~Has(b, "end")
  BY DEF Body
<1>3. c \in Seq(Frame) /\ c # <<>> /\ Ordered(c) /\ ~Has(c, "text") /\ ~Has(c, "args") /\ ReasonsFit(c, a.reason)
  BY DEF Tailed
<1>4. w \in Seq(Frame) /\ w # <<>> /\ Ordered(w) /\ LastFrame(w) = LastFrame(c)
  BY <1>1, <1>2, <1>3, Sealed
<1>5. ASSUME LastFrame(w).kind = "end" PROVE Completes(w, Nothing, a, pr)
  <2>1. Nothing.text = <<>> /\ Nothing.args = <<>> BY DEF Nothing
  <2>2. TextLeft(w) = a.text
    <3>1. TextLeft(c) = <<>> BY <1>3, NoTextLeft
    <3>2. TextLeft(w) = TextLeft(b) \o TextLeft(c) BY <1>1, <1>2, <1>3, TextLeftJoins
    <3> QED BY <3>1, <3>2, <1>2
  <2>3. Nothing.text \o TextLeft(w) = a.text BY <2>1, <2>2, <1>2
  <2>4. pr # "responses" => (a.call <=> (Nothing.args # <<>> \/ Has(w, "args")))
    <3> SUFFICES ASSUME pr # "responses" PROVE a.call <=> (Nothing.args # <<>> \/ Has(w, "args")) OBVIOUS
    <3>1. Body(b, a.text, a.call) OBVIOUS
    <3>2. Has(b, "args") <=> a.call BY <3>1 DEF Body
    <3>3. Has(w, "args") <=> Has(b, "args") \/ Has(c, "args") BY <1>1, <1>2, <1>3, HasJoins
    <3> QED BY <3>2, <3>3, <2>1, <1>3
  <2>5. pr \in {"chat", "claude"} => Has(w, "reason")
    <3> SUFFICES ASSUME pr \in {"chat", "claude"} PROVE Has(w, "reason") OBVIOUS
    <3>1. Has(c, "reason") BY <1>4, <1>5 DEF Tailed
    <3> QED BY <3>1, <1>1, <1>2, <1>3, HasJoins
  <2>6. ReasonsFit(w, a.reason)
    <3>1. ReasonsFit(b, a.reason) BY <1>2 DEF Has, ReasonsFit
    <3> QED BY <3>1, <1>1, <1>2, <1>3, ReasonsJoin
  <2>7. pr = "ollama" => LastFrame(w).data = a.reason BY <1>4, <1>5 DEF Tailed
  <2>8. pr = "responses" => LastFrame(w).data = a /\ a.reason = "stop" BY <1>4, <1>5 DEF Tailed
  <2> QED BY <2>3, <2>4, <2>5, <2>6, <2>7, <2>8 DEF Completes
<1> QED BY <1>1, <1>4, <1>5

LEMMA ReasonAndEnd ==
  ASSUME NEW a \in Answers, NEW pr \in {"chat", "claude"}
  PROVE  Tailed(<<F("reason", 0, a.reason), F("end", 0, <<>>)>>, a.reason, pr, a)
<1>1. PICK f : f = F("reason", 0, a.reason) OBVIOUS
<1>2. PICK g : g = F("end", 0, <<>>) OBVIOUS
<1>3. a.reason \in Reasons BY DEF Answers, Reasons
<1>4. f \in Frame /\ g \in Frame BY <1>1, <1>2, <1>3, FrameTyped
<1>5. f.kind = "reason" /\ f.data = a.reason /\ g.kind = "end" BY <1>1, <1>2 DEF F
<1>6. PICK c : c = <<f, g>> OBVIOUS
<1>7. c \in Seq(Frame) /\ c # <<>> /\ Len(c) = 2 /\ DOMAIN c = 1..2 /\ c[1] = f /\ c[2] = g BY <1>4, <1>6
<1>8. \A i \in DOMAIN c : i = 1 \/ i = 2 BY <1>7
<1>9. Ordered(c) BY <1>5, <1>7, <1>8 DEF Ordered
<1>10. ~Has(c, "text") /\ ~Has(c, "args") BY <1>5, <1>7, <1>8 DEF Has
<1>11. Has(c, "reason")
  <2>1. 1 \in DOMAIN c BY <1>7
  <2> QED BY <2>1, <1>5, <1>7 DEF Has
<1>12. ReasonsFit(c, a.reason) BY <1>5, <1>7, <1>8 DEF ReasonsFit
<1>13. pr # "ollama" /\ pr # "responses" OBVIOUS
<1>14. Tailed(c, a.reason, pr, a) BY <1>7, <1>9, <1>10, <1>11, <1>12, <1>13 DEF Tailed
<1> QED BY <1>1, <1>2, <1>6, <1>14

LEMMA OneFrame ==
  ASSUME NEW f \in Frame, f.kind \in {"end", "error"}, NEW a \in Answers, NEW pr \in {"ollama", "responses"},
         f.kind = "end" => IF pr = "ollama" THEN f.data = a.reason ELSE f.data = a /\ a.reason = "stop"
  PROVE  Tailed(<<f>>, a.reason, pr, a)
<1>1. PICK c : c = <<f>> OBVIOUS
<1>2. c \in Seq(Frame) /\ c # <<>> /\ Len(c) = 1 /\ DOMAIN c = 1..1 /\ c[1] = f BY <1>1
<1>3. \A i \in DOMAIN c : i = 1 BY <1>2
<1>4. Ordered(c) BY <1>2, <1>3 DEF Ordered
<1>5. ~Has(c, "text") /\ ~Has(c, "args") BY <1>2, <1>3 DEF Has
<1>6. ReasonsFit(c, a.reason) BY <1>2, <1>3 DEF ReasonsFit
<1>7. LastFrame(c) = f BY <1>2 DEF LastFrame
<1>8. pr \notin {"chat", "claude"} OBVIOUS
<1>9. LastFrame(c).kind = "end" =>
        /\ pr = "ollama" => LastFrame(c).data = a.reason
        /\ pr = "responses" => LastFrame(c).data = a /\ a.reason = "stop"
  BY <1>7
<1>10. Tailed(c, a.reason, pr, a) BY <1>2, <1>4, <1>5, <1>6, <1>8, <1>9 DEF Tailed
<1> QED BY <1>1, <1>10

LEMMA Beginning == Body(<<F("begin", 0, <<>>), F("open", 1, "text")>>, <<>>, FALSE)
<1>1. PICK f : f = F("begin", 0, <<>>) OBVIOUS
<1>2. PICK g : g = F("open", 1, "text") OBVIOUS
<1>3. f \in Frame /\ g \in Frame BY <1>1, <1>2, FrameTyped
<1>4. f.kind = "begin" /\ g.kind = "open" BY <1>1, <1>2 DEF F
<1>5. PICK b : b = <<f, g>> OBVIOUS
<1>6. b \in Seq(Frame) /\ DOMAIN b = 1..2 /\ b[1] = f /\ b[2] = g BY <1>3, <1>5
<1>7. \A i \in DOMAIN b : i = 1 \/ i = 2 BY <1>6
<1>8. \A i \in DOMAIN b : b[i].kind \in {"begin", "open", "close"} BY <1>4, <1>6, <1>7
<1>9. Body(b, <<>>, FALSE) BY <1>6, <1>8, PlainBody
<1> QED BY <1>1, <1>2, <1>5, <1>9

LEMMA Bracket ==
  ASSUME NEW f \in Frame, f.kind \in {"open", "close"}
  PROVE  Body(<<f>>, <<>>, FALSE)
<1>1. PICK b : b = <<f>> OBVIOUS
<1>2. b \in Seq(Frame) /\ DOMAIN b = 1..1 /\ b[1] = f BY <1>1
<1>3. \A i \in DOMAIN b : i = 1 BY <1>2
<1>4. \A i \in DOMAIN b : b[i].kind \in {"begin", "open", "close"} BY <1>2, <1>3
<1> QED BY <1>1, <1>2, <1>4, PlainBody

\* A call behind what has no call.
LEMMA CalledBody ==
  ASSUME NEW s, NEW x, Body(s, x, FALSE), NEW t, NEW calling \in BOOLEAN,
         calling => Body(t, <<>>, TRUE), ~calling => t = <<>>
  PROVE  Body(s \o t, x, calling)
<1>1. x \in Seq(Letter) /\ s \in Seq(Frame) BY DEF Body
<1>2. x \o <<>> = x BY <1>1
<1>3. CASE calling
  <2>1. Body(s \o t, x \o <<>>, FALSE \/ TRUE) BY <1>3, BodyJoins
  <2>2. (FALSE \/ TRUE) = calling BY <1>3
  <2> QED BY <2>1, <2>2, <1>2
<1>4. CASE ~calling
  <2>1. s \o t = s BY <1>1, <1>4
  <2>2. calling = FALSE BY <1>4
  <2> QED BY <2>1, <2>2
<1> QED BY <1>3, <1>4

\* Frames of an answer complete it, in every protocol, where they end.
LEMMA FramesComplete ==
  ASSUME NEW a \in Answers, NEW k \in 0..Len(a.text), protocol \in {"chat", "ollama", "claude", "responses"}
  PROVE  /\ Frames(a, k) \in Seq(Frame) /\ Ordered(Frames(a, k))
         /\ LastFrame(Frames(a, k)).kind = "end" => Completes(Frames(a, k), Nothing, a, protocol)
<1> DEFINE inPieces(n) == [i \in 1..Len(Arguments(a)) |-> F("args", n, <<Arguments(a)[i]>>)]
<1>1. a.call \in BOOLEAN /\ a.reason \in Reasons BY DEF Answers, Reasons
<1>2. Body(TextFrames(a, k), a.text, FALSE) BY TextFramesBody
<1>3. Body(inPieces(1), <<>>, TRUE) /\ Body(inPieces(2), <<>>, TRUE) BY CallsBody
<1> HIDE DEF inPieces
<1>4. a.text \in Seq(Letter) BY <1>2 DEF Body
<1>5. <<>> \o a.text = a.text /\ a.text \o <<>> = a.text BY <1>4
<1>6. CASE protocol = "chat"
  <2>1. PICK t : t = IF a.call THEN inPieces(1) ELSE <<>> OBVIOUS
  <2>2. PICK b : b = TextFrames(a, k) \o t OBVIOUS
  <2>3. Body(b, a.text, a.call) BY <1>1, <1>2, <1>3, <2>1, <2>2, CalledBody
  <2>4. PICK c : c = <<F("reason", 0, a.reason), F("end", 0, <<>>)>> OBVIOUS
  <2>5. Tailed(c, a.reason, protocol, a) BY <1>6, <2>4, ReasonAndEnd
  <2>6. Frames(a, k) = b \o c BY <1>6, <2>1, <2>2, <2>4 DEF Frames, inPieces
  <2>7. protocol # "responses" BY <1>6
  <2>8. Body(b, a.text, IF protocol = "responses" THEN FALSE ELSE a.call) BY <2>3, <2>7
  <2> QED BY <2>5, <2>6, <2>8, SealedCompletes
<1>7. CASE protocol = "ollama"
  <2>1. PICK g : g = F("args", 1, Whole) OBVIOUS
  <2>2. g \in Frame /\ g.kind = "args"
    <3>1. Whole \in Seq(Brackets) BY ArgumentsTyped
    <3>2. Whole # <<>> BY DEF Whole
    <3> QED BY <2>1, <3>1, <3>2, FrameTyped DEF F
  <2>3. PICK s : s = <<g>> OBVIOUS
  <2>4. s \in Seq(Frame) /\ Len(s) = 1 /\ s # <<>> /\ DOMAIN s = 1..1 /\ s[1] = g BY <2>2, <2>3
  <2>5. \A i \in DOMAIN s : i = 1 BY <2>4
  <2>6. \A i \in DOMAIN s : s[i].kind = "args" BY <2>2, <2>4, <2>5
  <2>7. Body(s, <<>>, TRUE) BY <2>4, <2>6, CallBody
  <2>8. PICK t : t = IF a.call THEN s ELSE <<>> OBVIOUS
  <2>9. PICK b : b = TextFrames(a, k) \o t OBVIOUS
  <2>10. Body(b, a.text, a.call) BY <1>1, <1>2, <2>7, <2>8, <2>9, CalledBody
  <2>11. PICK f : f = F("end", 0, a.reason) OBVIOUS
  <2>12. f \in Frame /\ f.kind = "end" /\ f.data = a.reason BY <1>1, <2>11, FrameTyped DEF F
  <2>13. PICK c : c = <<f>> OBVIOUS
  <2>14. Tailed(c, a.reason, protocol, a) BY <1>7, <2>12, <2>13, OneFrame
  <2>15. Frames(a, k) = b \o c BY <1>7, <2>1, <2>3, <2>8, <2>9, <2>11, <2>13 DEF Frames
  <2>16. protocol # "responses" BY <1>7
  <2>17. Body(b, a.text, IF protocol = "responses" THEN FALSE ELSE a.call) BY <2>10, <2>16
  <2> QED BY <2>14, <2>15, <2>17, SealedCompletes
<1>8. CASE protocol = "claude"
  <2>1. PICK s : s = <<F("begin", 0, <<>>), F("open", 1, "text")>> OBVIOUS
  <2>2. Body(s, <<>>, FALSE) BY <2>1, Beginning
  <2>3. PICK p : p = s \o TextFrames(a, k) OBVIOUS
  <2>4. Body(p, a.text, FALSE)
    <3>1. Body(p, <<>> \o a.text, FALSE \/ FALSE) BY <2>2, <2>3, <1>2, BodyJoins
    <3>2. FALSE \/ FALSE <=> FALSE OBVIOUS
    <3> QED BY <3>1, <3>2, <1>5
  <2>5. PICK e1 : e1 = <<F("close", 1, <<>>)>> OBVIOUS
  <2>6. PICK o2 : o2 = <<F("open", 2, "tool")>> OBVIOUS
  <2>7. PICK e2 : e2 = <<F("close", 2, <<>>)>> OBVIOUS
  <2>8. Body(e1, <<>>, FALSE) /\ Body(o2, <<>>, FALSE) /\ Body(e2, <<>>, FALSE)
    <3>1. F("close", 1, <<>>) \in Frame /\ F("open", 2, "tool") \in Frame /\ F("close", 2, <<>>) \in Frame
      BY FrameTyped
    <3>2. F("close", 1, <<>>).kind = "close" /\ F("open", 2, "tool").kind = "open" /\ F("close", 2, <<>>).kind = "close"
      BY DEF F
    <3> QED BY <3>1, <3>2, <2>5, <2>6, <2>7, Bracket
  <2>9. PICK q : q = p \o e1 OBVIOUS
  <2>10. Body(q, a.text, FALSE)
    <3>1. Body(q, a.text \o <<>>, FALSE \/ FALSE) BY <2>4, <2>8, <2>9, BodyJoins
    <3>2. FALSE \/ FALSE <=> FALSE OBVIOUS
    <3> QED BY <3>1, <3>2, <1>5
  <2>11. PICK u : u = o2 \o inPieces(2) OBVIOUS
  <2>12. PICK v : v = u \o e2 OBVIOUS
  <2>13. Body(v, <<>>, TRUE)
    <3>1. <<>> \o <<>> = <<>> OBVIOUS
    <3>2. Body(u, <<>> \o <<>>, FALSE \/ TRUE) BY <2>8, <2>11, <1>3, BodyJoins
    <3>3. Body(u, <<>>, TRUE) BY <3>1, <3>2
    <3>4. Body(v, <<>> \o <<>>, TRUE \/ FALSE) BY <2>8, <2>12, <3>3, BodyJoins
    <3> QED BY <3>1, <3>4
  <2>14. PICK t : t = IF a.call THEN v ELSE <<>> OBVIOUS
  <2>15. PICK b : b = q \o t OBVIOUS
  <2>16. Body(b, a.text, a.call) BY <1>1, <2>10, <2>13, <2>14, <2>15, CalledBody
  <2>17. PICK c : c = <<F("reason", 0, a.reason), F("end", 0, <<>>)>> OBVIOUS
  <2>18. Tailed(c, a.reason, protocol, a) BY <1>8, <2>17, ReasonAndEnd
  <2>19. Frames(a, k) = b \o c
    BY <1>8, <2>1, <2>3, <2>5, <2>6, <2>7, <2>9, <2>11, <2>12, <2>14, <2>15, <2>17 DEF Frames, inPieces
  <2>20. protocol # "responses" BY <1>8
  <2>21. Body(b, a.text, IF protocol = "responses" THEN FALSE ELSE a.call) BY <2>16, <2>20
  <2> QED BY <2>18, <2>19, <2>21, SealedCompletes
<1>9. CASE protocol = "responses"
  <2>1. PICK s : s = <<F("begin", 0, <<>>), F("open", 1, "text")>> OBVIOUS
  <2>2. Body(s, <<>>, FALSE) BY <2>1, Beginning
  <2>3. PICK b : b = s \o TextFrames(a, k) OBVIOUS
  <2>4. Body(b, a.text, FALSE)
    <3>1. Body(b, <<>> \o a.text, FALSE \/ FALSE) BY <2>2, <2>3, <1>2, BodyJoins
    <3>2. FALSE \/ FALSE <=> FALSE OBVIOUS
    <3> QED BY <3>1, <3>2, <1>5
  <2>5. PICK f : f = IF a.reason = "stop" THEN F("end", 0, a) ELSE F("error", 0, <<>>) OBVIOUS
  <2>6. f \in Frame /\ f.kind \in {"end", "error"} /\ (f.kind = "end" => f.data = a /\ a.reason = "stop")
    <3>1. CASE a.reason = "stop"
      <4>1. f = F("end", 0, a) BY <2>5, <3>1
      <4> QED BY <4>1, <3>1, FrameTyped DEF F
    <3>2. CASE a.reason # "stop"
      <4>1. f = F("error", 0, <<>>) BY <2>5, <3>2
      <4>2. F("error", 0, <<>>) \in Frame BY FrameTyped
      <4> QED BY <4>1, <4>2 DEF F
    <3> QED BY <3>1, <3>2
  <2>7. PICK c : c = <<f>> OBVIOUS
  <2>8. Tailed(c, a.reason, protocol, a) BY <1>9, <2>6, <2>7, OneFrame
  <2>9. Frames(a, k) = b \o c
    <3>1. Frames(a, k) = b \o (IF a.reason = "stop" THEN <<F("end", 0, a)>> ELSE <<F("error", 0, <<>>)>>)
      BY <1>9, <2>1, <2>3 DEF Frames
    <3> QED BY <3>1, <2>5, <2>7
  <2>10. Body(b, a.text, IF protocol = "responses" THEN FALSE ELSE a.call) BY <2>4, <1>9
  <2> QED BY <2>8, <2>9, <2>10, SealedCompletes
<1> QED BY <1>6, <1>7, <1>8, <1>9

-----------------------------------------------------------------------------
(* A frame is read. *)

LEMMA FirstFrame ==
  ASSUME NEW fs \in Seq(Frame), fs # <<>>
  PROVE  /\ Head(fs) \in Frame /\ Tail(fs) \in Seq(Frame)
         /\ TextLeft(fs) = TextOf(Head(fs)) \o TextLeft(Tail(fs))
         /\ \A k : Has(fs, k) <=> Head(fs).kind = k \/ Has(Tail(fs), k)
         /\ \A r : ReasonsFit(fs, r) => ReasonsFit(Tail(fs), r) /\ (Head(fs).kind = "reason" => Head(fs).data = r)
         /\ Tail(fs) # <<>> => LastFrame(Tail(fs)) = LastFrame(fs)
         /\ Tail(fs) = <<>> => LastFrame(fs) = Head(fs)
         /\ Ordered(fs) => Ordered(Tail(fs)) /\ (Head(fs).kind = "end" => Tail(fs) = <<>>)
<1>1. PICK f : f = Head(fs) OBVIOUS
<1>2. PICK g : g = Tail(fs) OBVIOUS
<1>3. PICK s : s = <<f>> OBVIOUS
<1>4. f \in Frame /\ g \in Seq(Frame) /\ s \in Seq(Frame) BY <1>1, <1>2, <1>3
<1>5. Len(fs) \in Nat /\ Len(fs) > 0 /\ Len(g) = Len(fs) - 1 /\ fs[1] = f BY <1>1, <1>2
<1>6. \A i \in 1..Len(g) : g[i] = fs[i + 1] BY <1>2
<1>7. DOMAIN fs = 1..Len(fs) /\ DOMAIN g = 1..Len(g) /\ Len(g) \in Nat BY <1>4, <1>5
<1>8. Len(s) = 1 /\ s[1] = f /\ DOMAIN s = 1..1 BY <1>3
<1>9. fs = s \o g
  <2>1. ASSUME NEW i \in 1..Len(s) PROVE fs[i] = s[i] BY <1>5, <1>8
  <2>2. ASSUME NEW i \in 1..Len(g) PROVE fs[Len(s) + i] = g[i]
    <3>1. i + 1 = Len(s) + i BY <1>8, <1>7
    <3> QED BY <3>1, <1>6
  <2>3. Len(fs) = Len(s) + Len(g) BY <1>5, <1>8
  <2> QED BY <1>4, <2>1, <2>2, <2>3, FunctionJoins
<1>10. TextLeft(fs) = TextOf(f) \o TextLeft(g)
  <2>1. TextLeft(fs) = TextLeft(s) \o TextLeft(g) BY <1>4, <1>9, TextLeftJoins
  <2>2. TextLeft(s) = TextOf(f) BY <1>3, <1>4, OneText
  <2> QED BY <2>1, <2>2
<1>11. ASSUME NEW k PROVE Has(fs, k) <=> f.kind = k \/ Has(g, k)
  <2>1. Has(fs, k) <=> Has(s, k) \/ Has(g, k) BY <1>4, <1>9, HasJoins
  <2>2. Has(s, k) <=> f.kind = k
    <3>1. \A i \in DOMAIN s : i = 1 BY <1>8
    <3>2. 1 \in DOMAIN s BY <1>8
    <3> QED BY <3>1, <3>2, <1>8 DEF Has
  <2> QED BY <2>1, <2>2
<1>12. ASSUME NEW r, ReasonsFit(fs, r)
       PROVE  ReasonsFit(g, r) /\ (f.kind = "reason" => f.data = r)
  <2>1. ReasonsFit(g, r) BY <1>4, <1>9, <1>12, ReasonsJoin
  <2>2. 1 \in DOMAIN fs BY <1>5, <1>7
  <2>3. f.kind = "reason" => f.data = r BY <2>2, <1>5, <1>12 DEF ReasonsFit
  <2> QED BY <2>1, <2>3
<1>13. ASSUME g # <<>> PROVE LastFrame(g) = LastFrame(fs)
  <2>1. Len(g) \in 1..Len(g) BY <1>4, <1>7, <1>13
  <2>2. g[Len(g)] = fs[Len(g) + 1] BY <2>1, <1>6
  <2>3. Len(g) + 1 = Len(fs) BY <1>5, <1>7
  <2> QED BY <2>2, <2>3 DEF LastFrame
<1>14. ASSUME g = <<>> PROVE LastFrame(fs) = f
  <2>1. Len(g) = 0 BY <1>14
  <2>2. Len(fs) = 1 BY <2>1, <1>5
  <2> QED BY <2>2, <1>5 DEF LastFrame
<1>15. ASSUME Ordered(fs) PROVE Ordered(g) /\ (f.kind = "end" => g = <<>>)
  <2>1. ASSUME NEW i \in DOMAIN g, g[i].kind = "end" PROVE i = Len(g)
    <3>1. i \in 1..Len(g) /\ i + 1 \in DOMAIN fs BY <1>5, <1>7
    <3>2. fs[i + 1].kind = "end" BY <3>1, <2>1, <1>6
    <3>3. i + 1 = Len(fs) BY <3>1, <3>2, <1>15 DEF Ordered
    <3> QED BY <3>1, <3>3, <1>5, <1>7
  <2>2. ASSUME f.kind = "end" PROVE g = <<>>
    <3>1. 1 \in DOMAIN fs BY <1>5, <1>7
    <3>2. 1 = Len(fs) BY <3>1, <2>2, <1>5, <1>15 DEF Ordered
    <3>3. Len(g) = 0 BY <3>2, <1>5
    <3> QED BY <3>3, <1>4
  <2> QED BY <2>1, <2>2 DEF Ordered
<1> QED BY <1>1, <1>2, <1>4, <1>10, <1>11, <1>12, <1>13, <1>14, <1>15

\* A frame that is not the last leaves the rest of the answer.
LEMMA StillCompletes ==
  ASSUME NEW fs \in Seq(Frame), fs # <<>>, NEW s \in SeenAnswers, NEW n \in SeenAnswers,
         NEW a \in Answers, NEW pr, Completes(fs, s, a, pr), Tail(fs) # <<>>,
         n.text = s.text \o TextOf(Head(fs)),
         n.args = IF Head(fs).kind = "args" THEN s.args \o Head(fs).data ELSE s.args,
         n.reason = IF Head(fs).kind = "reason" THEN Head(fs).data ELSE s.reason
  PROVE  Completes(Tail(fs), n, a, pr)
<1>1. PICK f : f = Head(fs) OBVIOUS
<1>2. PICK g : g = Tail(fs) OBVIOUS
<1>3. /\ f \in Frame /\ g \in Seq(Frame)
      /\ TextLeft(fs) = TextOf(f) \o TextLeft(g)
      /\ (\A k : Has(fs, k) <=> f.kind = k \/ Has(g, k))
      /\ (\A r : ReasonsFit(fs, r) => ReasonsFit(g, r) /\ (f.kind = "reason" => f.data = r))
      /\ LastFrame(g) = LastFrame(fs)
  BY <1>1, <1>2, FirstFrame
<1>4. n.text \o TextLeft(g) = a.text
  <2>1. s.text \in Seq(Letter) /\ TextOf(f) \in Seq(Letter) /\ TextLeft(g) \in Seq(Letter)
    BY <1>3, TextOfTyped, TextsOf DEF SeenAnswers
  <2>2. (s.text \o TextOf(f)) \o TextLeft(g) = s.text \o (TextOf(f) \o TextLeft(g))
    <3>1. \A x, y, z \in Seq(Letter) : (x \o y) \o z = x \o (y \o z) BY ONLY ConcatAssociative, SMTT(30)
    <3> QED BY <2>1, <3>1
  <2>3. s.text \o TextLeft(fs) = a.text BY DEF Completes
  <2>4. n.text = s.text \o TextOf(f) BY <1>1
  <2> QED BY <2>2, <2>3, <2>4, <1>3
<1>5. ASSUME pr # "responses" PROVE a.call <=> (n.args # <<>> \/ Has(g, "args"))
  <2>1. a.call <=> (s.args # <<>> \/ Has(fs, "args")) BY <1>5 DEF Completes
  <2>2. Has(fs, "args") <=> f.kind = "args" \/ Has(g, "args") BY <1>3
  <2>3. CASE f.kind = "args"
    <3>1. f.data \in Seq(Brackets) /\ f.data # <<>> BY <1>3, <2>3, FrameParts
    <3>2. s.args \in Seq(Brackets) BY DEF SeenAnswers
    <3>3. n.args = s.args \o f.data BY <1>1, <2>3
    <3>4. n.args # <<>>
      <4>1. PICK p : p = s.args OBVIOUS
      <4>2. PICK q : q = f.data OBVIOUS
      <4>3. p \in Seq(Brackets) /\ q \in Seq(Brackets) /\ q # <<>> BY <3>1, <3>2, <4>1, <4>2
      <4>4. Len(p \o q) > 0 BY <4>3
      <4>5. p \o q # <<>> BY <4>4
      <4> QED BY <3>3, <4>1, <4>2, <4>5
    <3> QED BY <3>4, <2>1, <2>2, <2>3
  <2>4. CASE f.kind # "args"
    <3>1. n.args = s.args BY <1>1, <2>4
    <3> QED BY <3>1, <2>1, <2>2, <2>4
  <2> QED BY <2>3, <2>4
<1>6. ReasonsFit(fs, a.reason) BY DEF Completes
<1>7. ASSUME pr \in {"chat", "claude"} PROVE n.reason = a.reason \/ Has(g, "reason")
  <2>1. s.reason = a.reason \/ Has(fs, "reason") BY <1>7 DEF Completes
  <2>2. Has(fs, "reason") <=> f.kind = "reason" \/ Has(g, "reason") BY <1>3
  <2>3. CASE f.kind = "reason"
    <3>1. f.data = a.reason BY <1>3, <1>6, <2>3
    <3> QED BY <3>1, <2>3, <1>1
  <2>4. CASE f.kind # "reason"
    <3>1. n.reason = s.reason BY <1>1, <2>4
    <3> QED BY <3>1, <2>1, <2>2, <2>4
  <2> QED BY <2>3, <2>4
<1>8. ReasonsFit(g, a.reason) BY <1>3, <1>6
<1>9. pr = "ollama" => LastFrame(g).data = a.reason BY <1>3 DEF Completes
<1>10. pr = "responses" => LastFrame(g).data = a /\ a.reason = "stop" BY <1>3 DEF Completes
<1> QED BY <1>2, <1>4, <1>5, <1>7, <1>8, <1>9, <1>10 DEF Completes

\* The last frame of a stream that ends: the adapter has it all.
LEMMA CompletesAtEnd ==
  ASSUME NEW fs \in Seq(Frame), fs # <<>>, NEW s \in SeenAnswers,
         NEW a \in Answers, NEW pr \in {"chat", "ollama", "claude", "responses"},
         Completes(fs, s, a, pr), Head(fs).kind = "end", Tail(fs) = <<>>
  PROVE  /\ s.text = a.text
         /\ pr # "responses" => (a.call <=> s.args # <<>>)
         /\ pr \in {"chat", "claude"} => s.reason = a.reason
         /\ pr = "ollama" => Head(fs).data = a.reason
         /\ pr = "responses" => Head(fs).data = a
<1>1. PICK f : f = Head(fs) OBVIOUS
<1>2. PICK g : g = Tail(fs) OBVIOUS
<1>3. /\ f \in Frame /\ g \in Seq(Frame)
      /\ TextLeft(fs) = TextOf(f) \o TextLeft(g)
      /\ (\A k : Has(fs, k) <=> f.kind = k \/ Has(g, k))
      /\ LastFrame(fs) = f
  BY <1>1, <1>2, FirstFrame
<1>4. Len(g) = 0 /\ DOMAIN g = {} BY <1>2
<1>5. \A k : ~Has(g, k) BY <1>4 DEF Has
<1>6. f.kind = "end" BY <1>1
<1>7. ~Has(fs, "args") /\ ~Has(fs, "reason") BY <1>3, <1>5, <1>6
<1>8. TextLeft(fs) = <<>>
  <2>1. TextLeft(g) = <<>> BY <1>3, <1>5, NoTextLeft
  <2>2. TextOf(f) = <<>> BY <1>6 DEF TextOf
  <2> QED BY <2>1, <2>2, <1>3
<1>9. s.text = a.text
  <2>1. s.text \in Seq(Letter) BY DEF SeenAnswers
  <2>2. s.text \o TextLeft(fs) = a.text BY DEF Completes
  <2> QED BY <2>1, <2>2, <1>8
<1>10. pr # "responses" => (a.call <=> s.args # <<>>) BY <1>7 DEF Completes
<1>11. pr \in {"chat", "claude"} => s.reason = a.reason BY <1>7 DEF Completes
<1>12. pr = "ollama" => f.data = a.reason BY <1>3 DEF Completes
<1>13. pr = "responses" => f.data = a BY <1>3 DEF Completes
<1> QED BY <1>1, <1>9, <1>10, <1>11, <1>12, <1>13

-----------------------------------------------------------------------------
(* The filter keeps its types, for any secret. *)

LEMMA RedactTyped ==
  ASSUME NEW t \in Seq(Shown)
  PROVE  Redact(t) \in Seq(Shown)
<1>1. PICK T : T = Replaced(t) OBVIOUS
<1>2. PICK p : p = [i \in DOMAIN t |->
    IF i \in T THEN <<Mark>> ELSE IF \E j \in T : j < i /\ i < j + Len(Secret) THEN <<>> ELSE <<t[i]>>]
  OBVIOUS
<1>3. DOMAIN t = 1..Len(t) /\ Len(t) \in Nat OBVIOUS
<1>4. ASSUME NEW i \in DOMAIN t
      PROVE (IF i \in T THEN <<Mark>>
             ELSE IF \E j \in T : j < i /\ i < j + Len(Secret) THEN <<>> ELSE <<t[i]>>) \in Seq(Shown)
  <2>1. t[i] \in Shown BY <1>3
  <2>2. Mark \in Shown BY DEF Shown
  <2> QED BY <2>1, <2>2
<1>5. p \in [1..Len(t) -> Seq(Shown)] BY <1>2, <1>3, <1>4
<1>6. p \in Seq(Seq(Shown)) BY <1>3, <1>5, FunctionIsSeq
<1>7. FlattenSeq(p) \in Seq(Shown) BY <1>6, FlattenTyped
<1>8. Redact(t) = FlattenSeq(p) BY <1>1, <1>2 DEF Redact
<1> QED BY <1>7, <1>8

LEMMA LettersShown ==
  ASSUME NEW t \in Seq(Letter)
  PROVE  t \in Seq(Shown)
<1>1. DOMAIN t = 1..Len(t) /\ Len(t) \in Nat OBVIOUS
<1>2. ASSUME NEW i \in 1..Len(t) PROVE t[i] \in Shown
  <2>1. t[i] \in Letter OBVIOUS
  <2> QED BY <2>1 DEF Shown
<1>3. t \in [1..Len(t) -> Shown] BY <1>2
<1> QED BY <1>1, <1>3, FunctionIsSeq

LEMMA CutoffTyped ==
  ASSUME NEW t \in Seq(Letter)
  PROVE  Cutoff(t) \in 0..Len(t)
<1>1. PICK n \in Nat : n = Len(Secret) /\ n > 1 BY SecretBits
<1>2. PICK e \in Nat : e = Len(t) - Begun(t) /\ e <= Len(t)
  <2>1. Begun(t) \in 0..(n - 1) /\ Begun(t) <= Len(t) BY <1>1, BegunIs
  <2>2. Len(t) - Begun(t) \in Nat /\ Len(t) - Begun(t) <= Len(t) BY <1>1, <2>1
  <2> QED BY <2>2
<1>3. PICK T : T = {0} \cup {i \in 1..e : StandsAt(t, i)} OBVIOUS
<1>4. PICK x : x = Max(T) OBVIOUS
<1>5. x \in 0..e
  <2>1. T \in SUBSET (0..e) /\ T # {} BY <1>3
  <2> QED BY <2>1, <1>4, MaxInside
<1>6. Cutoff(t) = IF x > 0 /\ e < x + n - 1 THEN x - 1 ELSE e BY <1>1, <1>2, <1>3, <1>4 DEF Cutoff
<1>7. Len(t) \in Nat OBVIOUS
<1> QED BY <1>2, <1>5, <1>6, <1>7

LEMMA FedTyped ==
  ASSUME NEW h \in Seq(Letter), NEW x \in Seq(Letter)
  PROVE  Fed(h, x).out \in Seq(Shown) /\ Fed(h, x).held \in Seq(Letter)
<1>1. PICK w : w = h \o x OBVIOUS
<1>2. w \in Seq(Letter) BY <1>1, BehindIt
<1>3. PICK c : c = Cutoff(w) OBVIOUS
<1>4. c \in 0..Len(w) BY <1>2, <1>3, CutoffTyped
<1>5. PICK u : u = SubSeq(w, 1, c) OBVIOUS
<1>6. PICK v : v = SubSeq(w, c + 1, Len(w)) OBVIOUS
<1>7. u \in Seq(Letter) /\ v \in Seq(Letter) BY <1>2, <1>4, <1>5, <1>6, Halves
<1>8. u \in Seq(Shown) BY <1>7, LettersShown
<1>9. Redact(u) \in Seq(Shown) BY <1>8, RedactTyped
<1>10. Fed(h, x) = [out |-> Redact(u), held |-> v] BY <1>1, <1>3, <1>5, <1>6 DEF Fed
<1> QED BY <1>7, <1>9, <1>10

LEMMA ClosingTyped ==
  ASSUME NEW b \in Seq(Letter)
  PROVE  Closing(b) \in Seq(Shown)
<1>1. PICK n \in Nat : n = Len(Secret) /\ n > 1 BY SecretBits
<1>2. PICK T : T = {0} \cup {k \in MinPrefix..(n - 1) : EndsIn(b, k)} OBVIOUS
<1>3. PICK x : x = Max(T) OBVIOUS
<1>4. x \in T /\ x \in Nat
  <2>1. PICK m \in Nat : m = n - 1 BY <1>1
  <2>2. MinPrefix \in Nat BY StreamingBounds
  <2>3. T \in SUBSET (0..m) /\ T # {} BY <1>2, <2>1, <2>2
  <2>4. x \in T BY <1>3, <2>3, MaxInside
  <2> QED BY <2>3, <2>4
<1>5. PICK y : y = IF x = 0 THEN b ELSE SubSeq(b, 1, Len(b) - x) \o <<Mark>> OBVIOUS
<1>6. Closing(b) = Redact(y) BY <1>1, <1>2, <1>3, <1>5 DEF Closing
<1>7. y \in Seq(Shown)
  <2>1. CASE x = 0
    <3>1. y = b BY <1>5, <2>1
    <3> QED BY <3>1, LettersShown
  <2>2. CASE x # 0
    <3>1. EndsIn(b, x) BY <1>2, <1>4, <2>2
    <3>2. x <= Len(b) BY <3>1 DEF EndsIn
    <3>3. PICK c : c = Len(b) - x OBVIOUS
    <3>4. c \in 0..Len(b) BY <1>4, <3>2, <3>3
    <3>5. PICK u : u = SubSeq(b, 1, c) OBVIOUS
    <3>6. u \in Seq(Letter) BY <3>4, <3>5, Halves
    <3>7. u \in Seq(Shown) BY <3>6, LettersShown
    <3>8. PICK o : o = <<Mark>> OBVIOUS
    <3>9. o \in Seq(Shown) BY <3>8 DEF Shown
    <3>10. u \o o \in Seq(Shown) BY <3>7, <3>9, BehindIt
    <3>11. y = u \o o BY <1>5, <2>2, <3>3, <3>5, <3>8
    <3> QED BY <3>10, <3>11
  <2> QED BY <2>1, <2>2
<1> QED BY <1>6, <1>7, RedactTyped

-----------------------------------------------------------------------------
(* The attempt. *)

\* The adapter has all of the answer.
AllSeen(s, a) == s.text = a.text /\ s.reason = a.reason /\ (a.call <=> s.args # <<>>)

\* What has been read and what is on its way.
ReadsWell(fs, s, a, pr, p) ==
  /\ p = s.text
  /\ Ordered(fs)
  /\ s.over => fs = <<>> /\ AllSeen(s, a)
  /\ fs # <<>> /\ LastFrame(fs).kind = "end" => Completes(fs, s, a, pr)

\* Where the attempt stands.
StandsWell ==
  /\ step = "reading" => ReadsWell(frames, seen, answer, protocol, partial)
  /\ AtWork => published \/ partial = <<>>
  /\ step = "asking" => ~published
  /\ step = "got" => AllSeen(seen, answer) /\ partial \in {<<>>, seen.text}
  /\ step = "finished" => AllSeen(seen, answer) /\ answer.reason = "stop"
  /\ record.given => step = "confirmed" /\ AllSeen(seen, answer) /\ answer.reason = "stop" /\ record.call = answer.call

StreamInv == ModelTypeOK /\ StandsWell

LEMMA Begins == ModelInit => StreamInv
<1> SUFFICES ASSUME ModelInit PROVE StreamInv OBVIOUS
<1>1. <<>> \in Texts BY TextsTyped
<1>2. answer \in Answers BY <1>1 DEF ModelInit, Answers, NoAnswer
<1>3. seen \in SeenAnswers BY DEF ModelInit, Nothing, SeenAnswers
<1>4. record \in [text : Seq(Shown), call : BOOLEAN, given : BOOLEAN] /\ ~record.given BY DEF ModelInit, NoRecord
<1>5. protocol \in {"chat", "ollama", "claude", "responses"} BY StreamingBounds DEF ModelInit
<1>6. ModelTypeOK
  <2>1. streams \in BOOLEAN /\ published \in BOOLEAN BY DEF ModelInit
  <2>2. turn \in Nat /\ mine \in Nat /\ attempts \in Nat BY DEF ModelInit
  <2>3. step \in {"idle", "asking", "reading", "got", "finished", "confirmed", "failed"} BY DEF ModelInit
  <2>4. frames \in Seq(Frame) /\ partial \in Seq(Letter) /\ held \in Seq(Letter) BY DEF ModelInit
  <2>5. safe \in Seq(Shown) /\ pending \in Seq(Shown) /\ public \in Seq(Shown) BY DEF ModelInit
  <2> QED BY <1>2, <1>3, <1>4, <1>5, <2>1, <2>2, <2>3, <2>4, <2>5 DEF ModelTypeOK
<1>7. StandsWell BY <1>4 DEF ModelInit, StandsWell, AtWork
<1> QED BY <1>6, <1>7 DEF StreamInv

LEMMA NothingTyped == Nothing \in SeenAnswers /\ Nothing.over = FALSE
BY DEF Nothing, SeenAnswers

LEMMA BeginAttemptKeeps ==
  ASSUME StreamInv, BeginAttempt
  PROVE  StreamInv'
<1>1. NoRecord \in [text : Seq(Shown), call : BOOLEAN, given : BOOLEAN] /\ ~NoRecord.given BY DEF NoRecord
<1>2. ModelTypeOK'
  <2>0. answer' \in Answers
    <3>1. <<>> \in Texts BY TextsTyped
    <3> QED BY <3>1 DEF BeginAttempt, Answers, NoAnswer
  <2>1. frames' \in Seq(Frame) /\ UNCHANGED <<protocol, streams, turn>> BY DEF BeginAttempt
  <2>2. step' = "asking" /\ mine' = turn /\ attempts' = 1 /\ published' = FALSE BY DEF BeginAttempt
  <2>3. partial' \in Seq(Letter) /\ held' \in Seq(Letter) BY DEF BeginAttempt
  <2>4. safe' \in Seq(Shown) /\ pending' \in Seq(Shown) /\ public' \in Seq(Shown) BY DEF BeginAttempt
  <2>5. seen' \in SeenAnswers BY NothingTyped DEF BeginAttempt
  <2>6. record' \in [text : Seq(Shown), call : BOOLEAN, given : BOOLEAN] BY <1>1 DEF BeginAttempt
  <2> QED BY <2>0, <2>1, <2>2, <2>3, <2>4, <2>5, <2>6 DEF StreamInv, ModelTypeOK
<1>3. StandsWell' BY <1>1 DEF StandsWell, AtWork, BeginAttempt
<1> QED BY <1>2, <1>3 DEF StreamInv

LEMMA OvertakeKeeps ==
  ASSUME StreamInv, OvertakeAttempt
  PROVE  StreamInv'
<1>1. turn' \in Nat BY DEF StreamInv, ModelTypeOK, OvertakeAttempt
<1>2. ModelTypeOK' BY <1>1 DEF StreamInv, ModelTypeOK, OvertakeAttempt
<1>3. StandsWell' BY DEF StreamInv, StandsWell, AtWork, OvertakeAttempt
<1> QED BY <1>2, <1>3 DEF StreamInv

LEMMA FlushedTyped ==
  ASSUME public \in Seq(Shown), NEW d \in Seq(Shown), Flushed(d)
  PROVE  public' \in Seq(Shown)
<1>1. public \o d \in Seq(Shown) BY BehindIt
<1> QED BY <1>1 DEF Flushed

LEMMA FlushKeeps ==
  ASSUME StreamInv, FlushPending
  PROVE  StreamInv'
<1>1. public' \in Seq(Shown)
  <2>1. public \in Seq(Shown) /\ pending \in Seq(Shown) /\ Flushed(pending)
    BY DEF StreamInv, ModelTypeOK, FlushPending
  <2> QED BY <2>1, FlushedTyped
<1>2. ModelTypeOK' BY <1>1 DEF StreamInv, ModelTypeOK, FlushPending
<1>3. StandsWell' BY DEF StreamInv, StandsWell, AtWork, FlushPending
<1> QED BY <1>2, <1>3 DEF StreamInv

LEMMA InterruptedKeeps ==
  ASSUME StreamInv, AtWork, NEW how \in {"idle", "failed"}, Interrupted(how)
  PROVE  StreamInv'
<1>1. public' \in Seq(Shown)
  <2>1. public \in Seq(Shown) /\ pending \in Seq(Shown) /\ held \in Seq(Letter)
    BY DEF StreamInv, ModelTypeOK
  <2>2. Closing(held) \in Seq(Shown) BY <2>1, ClosingTyped
  <2>3. pending \o Closing(held) \in Seq(Shown) BY <2>1, <2>2, BehindIt
  <2>4. Flushed(pending \o Closing(held)) BY DEF Interrupted
  <2> QED BY <2>1, <2>3, <2>4, FlushedTyped
<1>2. ModelTypeOK' BY <1>1 DEF StreamInv, ModelTypeOK, Interrupted
<1>3. ~record.given BY DEF StreamInv, StandsWell, AtWork
<1>4. StandsWell' BY <1>3 DEF StandsWell, AtWork, Interrupted
<1> QED BY <1>2, <1>4 DEF StreamInv

LEMMA GatewayFailsKeeps ==
  ASSUME StreamInv, AtWork, step # "got", NEW t \in BOOLEAN, GatewayFails(t)
  PROVE  StreamInv'
<1>1. CASE MayRetry(t)
  <2>1. ~published BY <1>1 DEF MayRetry
  <2>2. partial = <<>> BY <2>1 DEF StreamInv, StandsWell
  <2>3. ~record.given BY DEF StreamInv, StandsWell, AtWork
  <2>4. /\ step' = "asking" /\ attempts' = attempts + 1 /\ frames' = <<>> /\ seen' = Nothing
        /\ UNCHANGED <<protocol, streams, turn, mine, published, answer, partial, safe, held, pending, public, record>>
    BY <1>1 DEF GatewayFails
  <2>5. ModelTypeOK' BY <2>4, NothingTyped DEF StreamInv, ModelTypeOK
  <2>6. StandsWell' BY <2>1, <2>2, <2>3, <2>4 DEF StandsWell, AtWork
  <2> QED BY <2>5, <2>6 DEF StreamInv
<1>2. CASE ~MayRetry(t)
  <2>1. Interrupted("failed") BY <1>2 DEF GatewayFails
  <2> QED BY <2>1, InterruptedKeeps
<1> QED BY <1>1, <1>2

LEMMA OpenKeeps ==
  ASSUME StreamInv, OpenStream
  PROVE  StreamInv'
<1>0. PICK a \in Answers : \E k \in 0..Len(a.text) : answer' = a /\ frames' = Frames(a, k) BY DEF OpenStream
<1>1. PICK k \in 0..Len(a.text) : answer' = a /\ frames' = Frames(a, k) BY <1>0
<1>2. protocol \in {"chat", "ollama", "claude", "responses"} BY DEF StreamInv, ModelTypeOK
<1>3. /\ Frames(a, k) \in Seq(Frame) /\ Ordered(Frames(a, k))
      /\ LastFrame(Frames(a, k)).kind = "end" => Completes(Frames(a, k), Nothing, a, protocol)
  BY <1>1, <1>2, FramesComplete
<1>4. /\ step = "asking" /\ step' = "reading" /\ seen' = Nothing
      /\ UNCHANGED <<protocol, streams, turn, mine, attempts, published, partial, safe, held, pending, public, record>>
  BY DEF OpenStream
<1>5. ModelTypeOK' BY <1>1, <1>3, <1>4, NothingTyped DEF StreamInv, ModelTypeOK
<1>6. ~published /\ partial = <<>> /\ ~record.given BY <1>4 DEF StreamInv, StandsWell, AtWork
<1>7. Nothing.text = <<>> BY DEF Nothing
<1>8. ReadsWell(frames', seen', answer', protocol', partial') BY <1>1, <1>3, <1>4, <1>6, <1>7, NothingTyped DEF ReadsWell
<1>9. StandsWell' BY <1>4, <1>6, <1>8 DEF StandsWell, AtWork
<1> QED BY <1>5, <1>9 DEF StreamInv

LEMMA CompleteKeeps ==
  ASSUME StreamInv, Complete
  PROVE  StreamInv'
<1>1. PICK a \in Answers :
        /\ answer' = a
        /\ seen' = [Nothing EXCEPT !.text = a.text, !.args = IF a.call THEN Arguments(a) ELSE <<>>,
                                   !.reason = a.reason, !.over = TRUE]
  BY DEF Complete
<1>2. /\ step = "asking" /\ step' = "got"
      /\ UNCHANGED <<protocol, streams, turn, mine, attempts, published, frames, partial, safe, held, pending, public, record>>
  BY DEF Complete
<1>3. a.text \in Texts /\ a.call \in BOOLEAN /\ a.reason \in {"stop", "length"} BY DEF Answers
<1>4. a.text \in Seq(Letter) BY <1>3, TextsTyped
<1>5. PICK r : r = IF a.call THEN Arguments(a) ELSE <<>> OBVIOUS
<1>6. r \in Seq(Brackets) /\ (a.call <=> r # <<>>) BY <1>3, <1>5, ArgumentsTyped
<1>7. seen' = [text |-> a.text, args |-> r, begun |-> FALSE, open |-> {}, reason |-> a.reason, over |-> TRUE]
  BY <1>1, <1>5 DEF Nothing
<1>8. seen' \in SeenAnswers BY <1>3, <1>4, <1>6, <1>7 DEF SeenAnswers
<1>9. AllSeen(seen', answer')
  <2>1. seen'.text = a.text /\ seen'.args = r /\ seen'.reason = a.reason BY <1>7
  <2>2. answer' = a BY <1>1
  <2> QED BY <2>1, <2>2, <1>6 DEF AllSeen
<1>10. ModelTypeOK' BY <1>1, <1>2, <1>8 DEF StreamInv, ModelTypeOK
<1>11. ~published /\ partial = <<>> /\ ~record.given BY <1>2 DEF StreamInv, StandsWell, AtWork
<1>12. StandsWell' BY <1>2, <1>9, <1>11 DEF StandsWell, AtWork
<1> QED BY <1>10, <1>12 DEF StreamInv

LEMMA BreakKeeps ==
  ASSUME StreamInv, BreakOff
  PROVE  StreamInv'
<1>1. PICK end \in {<<>>, <<F("error", 0, <<>>)>>} : frames' = end BY DEF BreakOff
<1>2. /\ step = "reading" /\ frames # <<>>
      /\ UNCHANGED <<protocol, streams, turn, mine, step, attempts, published, answer, seen, partial, safe, held, pending, public, record>>
  BY DEF BreakOff, Active
<1>3. PICK f : f = F("error", 0, <<>>) OBVIOUS
<1>4. f \in Frame /\ f.kind = "error" BY <1>3, FrameTyped DEF F
<1>5. PICK o : o = <<f>> OBVIOUS
<1>6. o \in Seq(Frame) /\ Len(o) = 1 /\ DOMAIN o = 1..1 /\ o[1] = f BY <1>4, <1>5
<1>7. \A i \in DOMAIN o : i = 1 BY <1>6
<1>8. Ordered(o) /\ LastFrame(o).kind = "error" BY <1>4, <1>6, <1>7 DEF Ordered, LastFrame
<1>9. PICK z : z = <<>> OBVIOUS
<1>10. z \in Seq(Frame) /\ Len(z) = 0 /\ DOMAIN z = {} BY <1>9
<1>11. Ordered(z) BY <1>10 DEF Ordered
<1>12. frames' = z \/ frames' = o BY <1>1, <1>3, <1>5, <1>9
<1>13. frames' \in Seq(Frame) /\ Ordered(frames') /\ (frames' = <<>> \/ LastFrame(frames').kind = "error")
  BY <1>6, <1>8, <1>9, <1>10, <1>11, <1>12, Zenon
<1>14. ModelTypeOK' BY <1>2, <1>13 DEF StreamInv, ModelTypeOK
<1>15. ReadsWell(frames, seen, answer, protocol, partial) BY <1>2 DEF StreamInv, StandsWell
<1>16. ReadsWell(frames', seen', answer', protocol', partial') BY <1>2, <1>13, <1>15 DEF ReadsWell
<1>17. StandsWell' BY <1>2, <1>16 DEF StreamInv, StandsWell, AtWork
<1> QED BY <1>14, <1>17 DEF StreamInv

LEMMA KeepIs ==
  ASSUME Keep
  PROVE  UNCHANGED <<protocol, streams, turn, mine, attempts, answer, public, record>>
BY DEF Keep

\* A frame that is not the last one is read.
LEMMA FrameKeeps ==
  ASSUME StreamInv, Reading, frames' = Tail(frames), Head(frames).kind # "end", Keep, step' = step,
         seen' \in SeenAnswers, seen'.over = seen.over,
         seen'.text = seen.text \o TextOf(Head(frames)),
         seen'.args = IF Head(frames).kind = "args" THEN seen.args \o Head(frames).data ELSE seen.args,
         seen'.reason = IF Head(frames).kind = "reason" THEN Head(frames).data ELSE seen.reason,
         partial' = partial \o TextOf(Head(frames)),
         published' \in BOOLEAN, published' \/ partial' = <<>>,
         held' \in Seq(Letter), safe' \in Seq(Shown), pending' \in Seq(Shown)
  PROVE  StreamInv'
<1>1. step = "reading" /\ frames # <<>> BY DEF Reading
<1>2. frames \in Seq(Frame) /\ seen \in SeenAnswers /\ answer \in Answers /\ partial \in Seq(Letter)
  BY DEF StreamInv, ModelTypeOK
<1>3. ReadsWell(frames, seen, answer, protocol, partial) BY <1>1 DEF StreamInv, StandsWell
<1>4. UNCHANGED <<protocol, streams, turn, mine, attempts, answer, public, record>> BY KeepIs
<1>5. /\ Head(frames) \in Frame /\ Tail(frames) \in Seq(Frame)
      /\ (Tail(frames) # <<>> => LastFrame(Tail(frames)) = LastFrame(frames))
      /\ (Ordered(frames) => Ordered(Tail(frames)))
  BY <1>1, <1>2, FirstFrame
<1>6. partial' \in Seq(Letter)
  <2>1. TextOf(Head(frames)) \in Seq(Letter) BY <1>5, TextOfTyped
  <2>2. partial \o TextOf(Head(frames)) \in Seq(Letter) BY <1>2, <2>1, BehindIt
  <2> QED BY <2>2
<1>7. ModelTypeOK' BY <1>4, <1>5, <1>6 DEF StreamInv, ModelTypeOK
<1>8. ReadsWell(frames', seen', answer', protocol', partial')
  <2>1. partial' = seen'.text BY <1>3 DEF ReadsWell
  <2>2. Ordered(frames') BY <1>3, <1>5 DEF ReadsWell
  <2>3. ~seen'.over BY <1>1, <1>2, <1>3 DEF ReadsWell, SeenAnswers
  <2>4. ASSUME frames' # <<>>, LastFrame(frames').kind = "end"
        PROVE  Completes(frames', seen', answer', protocol')
    <3>1. Tail(frames) # <<>> BY <2>4
    <3>2. LastFrame(frames).kind = "end" BY <2>4, <3>1, <1>5
    <3>3. Completes(frames, seen, answer, protocol) BY <1>1, <1>3, <3>2 DEF ReadsWell
    <3>4. Completes(Tail(frames), seen', answer, protocol) BY <1>1, <1>2, <3>1, <3>3, StillCompletes
    <3> QED BY <3>4, <1>4
  <2> QED BY <2>1, <2>2, <2>3, <2>4 DEF ReadsWell
<1>9. ~record.given BY <1>1 DEF StreamInv, StandsWell, AtWork
<1>10. StandsWell' BY <1>1, <1>4, <1>8, <1>9 DEF StandsWell, AtWork
<1> QED BY <1>7, <1>10 DEF StreamInv

\* A frame without text.
LEMMA QuietKeeps ==
  ASSUME StreamInv, Reading, frames' = Tail(frames), Head(frames).kind # "end", Head(frames).kind # "text", Quiet,
         seen' \in SeenAnswers, seen'.over = seen.over, seen'.text = seen.text,
         seen'.args = IF Head(frames).kind = "args" THEN seen.args \o Head(frames).data ELSE seen.args,
         seen'.reason = IF Head(frames).kind = "reason" THEN Head(frames).data ELSE seen.reason
  PROVE  StreamInv'
<1>1. Keep /\ step' = step /\ published' = published /\ partial' = partial /\ safe' = safe /\ held' = held /\ pending' = pending
  BY DEF Quiet
<1>2. /\ seen \in SeenAnswers /\ partial \in Seq(Letter) /\ published \in BOOLEAN
      /\ held \in Seq(Letter) /\ safe \in Seq(Shown) /\ pending \in Seq(Shown)
  BY DEF StreamInv, ModelTypeOK
<1>3. seen.text \in Seq(Letter) BY <1>2 DEF SeenAnswers
<1>4. TextOf(Head(frames)) = <<>> BY DEF TextOf
<1>5. seen'.text = seen.text \o TextOf(Head(frames))
  <2>1. PICK y : y = seen.text OBVIOUS
  <2>2. y \o <<>> = y BY <1>3, <2>1
  <2> QED BY <2>1, <2>2, <1>4
<1>6. partial' = partial \o TextOf(Head(frames)) BY <1>1, <1>2, <1>4
<1>7. published' \/ partial' = <<>> BY <1>1 DEF StreamInv, StandsWell, Reading, AtWork
<1>8. published' \in BOOLEAN /\ held' \in Seq(Letter) /\ safe' \in Seq(Shown) /\ pending' \in Seq(Shown)
  BY <1>1, <1>2
<1> QED BY <1>1, <1>5, <1>6, <1>7, <1>8, FrameKeeps

LEMMA ReadingFrame ==
  ASSUME StreamInv, Reading
  PROVE  /\ frames \in Seq(Frame) /\ frames # <<>> /\ Head(frames) \in Frame /\ seen \in SeenAnswers
         /\ seen.text \in Seq(Letter) /\ seen.args \in Seq(Brackets) /\ seen.open \in SUBSET Nat
<1>1. frames \in Seq(Frame) /\ frames # <<>> /\ seen \in SeenAnswers BY DEF StreamInv, ModelTypeOK, Reading
<1>2. seen.text \in Seq(Letter) /\ seen.args \in Seq(Brackets) /\ seen.open \in SUBSET Nat BY <1>1 DEF SeenAnswers
<1> QED BY <1>1, <1>2, FirstFrame

\* What a step may write into seen.
LEMMA SeenChanges ==
  ASSUME NEW s \in SeenAnswers
  PROVE  /\ \A x \in Seq(Letter) : [s EXCEPT !.text = x] \in SeenAnswers
         /\ \A x \in Seq(Brackets) : [s EXCEPT !.args = x] \in SeenAnswers
         /\ [s EXCEPT !.begun = TRUE] \in SeenAnswers
         /\ \A x \in SUBSET Nat : [s EXCEPT !.open = x] \in SeenAnswers
         /\ \A x \in Reasons : [s EXCEPT !.reason = x] \in SeenAnswers
BY DEF SeenAnswers, Reasons

LEMMA TextFrameKeeps ==
  ASSUME StreamInv, TextFrame
  PROVE  StreamInv'
<1>1. PICK x : x = Head(frames).data OBVIOUS
<1>2. /\ Reading /\ Head(frames).kind = "text" /\ frames' = Tail(frames)
      /\ seen' = [seen EXCEPT !.text = seen.text \o x] /\ Received(x)
      /\ published' = TRUE /\ Keep /\ step' = step
  BY <1>1 DEF TextFrame, NextFrame
<1>3. /\ Head(frames) \in Frame /\ seen \in SeenAnswers /\ seen.text \in Seq(Letter) BY <1>2, ReadingFrame
<1>4. x \in Seq(Letter) BY <1>1, <1>2, <1>3, FrameParts
<1>5. TextOf(Head(frames)) = x BY <1>1, <1>2 DEF TextOf
<1>6. seen' \in SeenAnswers
  <2>1. seen.text \o x \in Seq(Letter) BY <1>3, <1>4, BehindIt
  <2> QED BY <2>1, <1>2, <1>3, SeenChanges
<1>7. seen'.text = seen.text \o x /\ seen'.args = seen.args /\ seen'.reason = seen.reason /\ seen'.over = seen.over
  BY <1>2, <1>3 DEF SeenAnswers
<1>8. partial' = partial \o x BY <1>2 DEF Received
<1>9. held' \in Seq(Letter) /\ safe' \in Seq(Shown) /\ pending' \in Seq(Shown)
  <2>1. held \in Seq(Letter) /\ safe \in Seq(Shown) /\ pending \in Seq(Shown) BY DEF StreamInv, ModelTypeOK
  <2>2. PICK o : o = Fed(held, x).out OBVIOUS
  <2>3. o \in Seq(Shown) /\ Fed(held, x).held \in Seq(Letter) BY <1>4, <2>1, <2>2, FedTyped
  <2>4. safe \o o \in Seq(Shown) /\ pending \o o \in Seq(Shown) BY <2>1, <2>3, BehindIt
  <2>5. held' = Fed(held, x).held /\ safe' = safe \o o /\ pending' = pending \o o BY <1>2, <2>2 DEF Received
  <2> QED BY <2>3, <2>4, <2>5
<1>10. Head(frames).kind # "end" /\ Head(frames).kind # "args" /\ Head(frames).kind # "reason" BY <1>2
<1> QED BY <1>2, <1>5, <1>6, <1>7, <1>8, <1>9, <1>10, FrameKeeps

LEMMA ArgumentFrameKeeps ==
  ASSUME StreamInv, ArgumentFrame
  PROVE  StreamInv'
<1>1. PICK x : x = Head(frames).data OBVIOUS
<1>2. /\ Reading /\ Head(frames).kind = "args" /\ frames' = Tail(frames)
      /\ seen' = [seen EXCEPT !.args = seen.args \o x] /\ Quiet
  BY <1>1 DEF ArgumentFrame, NextFrame
<1>3. Head(frames) \in Frame /\ seen \in SeenAnswers /\ seen.args \in Seq(Brackets) BY <1>2, ReadingFrame
<1>4. x \in Seq(Brackets) BY <1>1, <1>2, <1>3, FrameParts
<1>5. seen' \in SeenAnswers
  <2>1. seen.args \o x \in Seq(Brackets) BY <1>3, <1>4, BehindIt
  <2> QED BY <2>1, <1>2, <1>3, SeenChanges
<1>6. seen'.text = seen.text /\ seen'.args = seen.args \o x /\ seen'.reason = seen.reason /\ seen'.over = seen.over
  BY <1>2, <1>3 DEF SeenAnswers
<1>7. Head(frames).kind # "end" /\ Head(frames).kind # "text" /\ Head(frames).kind # "reason" BY <1>2
<1> QED BY <1>1, <1>2, <1>5, <1>6, <1>7, QuietKeeps

LEMMA LifeCycleFrameKeeps ==
  ASSUME StreamInv, LifeCycleFrame
  PROVE  StreamInv'
<1>1. Quiet BY DEF LifeCycleFrame
<1>2. Reading /\ frames' = Tail(frames) /\ Head(frames).kind \in {"begin", "open", "close", "reason"}
  BY DEF LifeCycleFrame, NextFrame
<1>3. Head(frames) \in Frame /\ seen \in SeenAnswers /\ seen.open \in SUBSET Nat BY <1>2, ReadingFrame
<1>4. Head(frames).at \in Nat BY <1>3, FrameParts
<1>5. seen' \in SeenAnswers /\ seen'.text = seen.text /\ seen'.args = seen.args /\ seen'.over = seen.over
      /\ seen'.reason = IF Head(frames).kind = "reason" THEN Head(frames).data ELSE seen.reason
  <2>1. CASE Head(frames).kind = "begin"
    <3>1. seen' = [seen EXCEPT !.begun = TRUE] BY <2>1 DEF LifeCycleFrame, NextFrame
    <3>2. seen' \in SeenAnswers BY <3>1, <1>3, SeenChanges
    <3> QED BY <3>1, <3>2, <2>1, <1>3 DEF SeenAnswers
  <2>2. CASE Head(frames).kind = "open"
    <3>1. seen' = [seen EXCEPT !.open = seen.open \cup {Head(frames).at}] BY <2>2 DEF LifeCycleFrame, NextFrame
    <3>2. seen.open \cup {Head(frames).at} \in SUBSET Nat BY <1>3, <1>4
    <3>3. seen' \in SeenAnswers BY <3>1, <3>2, <1>3, SeenChanges
    <3> QED BY <3>1, <3>3, <2>2, <1>3 DEF SeenAnswers
  <2>3. CASE Head(frames).kind = "close"
    <3>1. seen' = [seen EXCEPT !.open = seen.open \ {Head(frames).at}] BY <2>3 DEF LifeCycleFrame, NextFrame
    <3>2. seen.open \ {Head(frames).at} \in SUBSET Nat BY <1>3
    <3>3. seen' \in SeenAnswers BY <3>1, <3>2, <1>3, SeenChanges
    <3> QED BY <3>1, <3>3, <2>3, <1>3 DEF SeenAnswers
  <2>4. CASE Head(frames).kind = "reason"
    <3>1. seen' = [seen EXCEPT !.reason = Head(frames).data] BY <2>4 DEF LifeCycleFrame, NextFrame
    <3>2. Head(frames).data \in Reasons BY <2>4, <1>3, FrameParts
    <3>3. seen' \in SeenAnswers BY <3>1, <3>2, <1>3, SeenChanges
    <3> QED BY <3>1, <3>3, <2>4, <1>3 DEF SeenAnswers
  <2> QED BY <1>2, <2>1, <2>2, <2>3, <2>4
<1>6. Head(frames).kind # "end" /\ Head(frames).kind # "text" /\ Head(frames).kind # "args" BY <1>2
<1> QED BY <1>1, <1>2, <1>5, <1>6, QuietKeeps

LEMMA ErrorFrameKeeps ==
  ASSUME StreamInv, ErrorFrame
  PROVE  StreamInv'
<1>1. Reading BY DEF ErrorFrame
<1>2. AtWork /\ step # "got" BY <1>1 DEF Reading, Active
<1>3. PICK t \in {protocol = "claude", FALSE} : GatewayFails(t) BY DEF ErrorFrame
<1>4. t \in BOOLEAN BY <1>3
<1> QED BY <1>2, <1>3, <1>4, GatewayFailsKeeps

LEMMA EndFrameKeeps ==
  ASSUME StreamInv, EndFrame
  PROVE  StreamInv'
<1>1. PICK f : f = Head(frames) OBVIOUS
<1>2. PICK r : r = (IF protocol = "ollama" THEN f.data ELSE IF protocol = "responses" THEN f.data.reason ELSE seen.reason)
  OBVIOUS
<1>3. PICK g : g = (IF protocol = "responses" THEN (IF f.data.call THEN Whole ELSE <<>>) ELSE seen.args)
  OBVIOUS
<1>4. Reading /\ Head(frames).kind = "end" /\ frames' = Tail(frames) /\ Quiet BY DEF EndFrame, NextFrame
<1>5. seen' = [seen EXCEPT !.over = TRUE, !.reason = r, !.args = g] BY <1>1, <1>2, <1>3 DEF EndFrame
<1>6. frames \in Seq(Frame) /\ frames # <<>> /\ f \in Frame /\ seen \in SeenAnswers /\ seen.args \in Seq(Brackets)
  BY <1>1, <1>4, ReadingFrame
<1>7. step = "reading" BY <1>4 DEF Reading
<1>8. ReadsWell(frames, seen, answer, protocol, partial) BY <1>7 DEF StreamInv, StandsWell
<1>9. answer \in Answers /\ protocol \in {"chat", "ollama", "claude", "responses"} BY DEF StreamInv, ModelTypeOK
<1>10. Tail(frames) = <<>> /\ LastFrame(frames) = f
  <2>1. Ordered(frames) BY <1>8 DEF ReadsWell
  <2> QED BY <2>1, <1>1, <1>4, <1>6, FirstFrame
<1>11. Completes(frames, seen, answer, protocol) BY <1>1, <1>4, <1>6, <1>8, <1>10 DEF ReadsWell
<1>12. /\ seen.text = answer.text
       /\ (protocol # "responses" => (answer.call <=> seen.args # <<>>))
       /\ (protocol \in {"chat", "claude"} => seen.reason = answer.reason)
       /\ (protocol = "ollama" => f.data = answer.reason)
       /\ (protocol = "responses" => f.data = answer)
  BY <1>1, <1>4, <1>6, <1>9, <1>10, <1>11, CompletesAtEnd
<1>13. answer.call \in BOOLEAN /\ answer.reason \in {"stop", "length"} BY <1>9 DEF Answers
<1>14. r = answer.reason BY <1>2, <1>9, <1>12
<1>15. g \in Seq(Brackets) /\ (answer.call <=> g # <<>>)
  <2>1. CASE protocol = "responses"
    <3>1. g = IF answer.call THEN Whole ELSE <<>> BY <1>3, <1>12, <2>1
    <3>2. PICK w : w = Whole OBVIOUS
    <3>3. w \in Seq(Brackets) /\ w # <<>>
      <4>1. w \in Seq(Brackets) BY <3>2, <1>9, ArgumentsTyped
      <4>2. Whole # <<>> BY DEF Whole
      <4> QED BY <4>1, <4>2, <3>2
    <3> QED BY <3>1, <3>2, <3>3, <1>13
  <2>2. CASE protocol # "responses"
    <3>1. g = seen.args BY <1>3, <2>2
    <3> QED BY <3>1, <2>2, <1>6, <1>12
  <2> QED BY <2>1, <2>2
<1>16. seen' \in SeenAnswers /\ seen'.text = seen.text /\ seen'.args = g /\ seen'.reason = r /\ seen'.over = TRUE
  BY <1>5, <1>6, <1>13, <1>14, <1>15 DEF SeenAnswers
<1>17. AllSeen(seen', answer) BY <1>12, <1>14, <1>15, <1>16 DEF AllSeen
<1>18. /\ UNCHANGED <<protocol, streams, turn, mine, attempts, answer, public, record>>
       /\ UNCHANGED <<step, published, partial, safe, held, pending>>
  BY <1>4, KeepIs DEF Quiet
<1>19. frames' \in Seq(Frame) /\ frames' = <<>>
  <2>1. Tail(frames) \in Seq(Frame) BY <1>6, FirstFrame
  <2> QED BY <2>1, <1>4, <1>10
<1>20. ModelTypeOK' BY <1>16, <1>18, <1>19 DEF StreamInv, ModelTypeOK
<1>21. Ordered(frames')
  <2>1. PICK z : z = <<>> OBVIOUS
  <2>2. DOMAIN z = {} BY <2>1
  <2>3. Ordered(z) BY <2>2 DEF Ordered
  <2> QED BY <2>1, <2>3, <1>19
<1>22. ReadsWell(frames', seen', answer', protocol', partial') BY <1>8, <1>16, <1>17, <1>18, <1>19, <1>21 DEF ReadsWell
<1>23. StandsWell' BY <1>7, <1>18, <1>22 DEF StreamInv, StandsWell, AtWork
<1> QED BY <1>20, <1>23 DEF StreamInv

LEMMA StreamEndsKeeps ==
  ASSUME StreamInv, StreamEnds
  PROVE  StreamInv'
<1>1. AtWork /\ step = "reading" /\ frames = <<>> BY DEF StreamEnds, Active
<1>2. CASE Terminal(seen) /\ Parses(seen.args)
  <2>1. step' = "got" /\ UNCHANGED <<frames, seen, published, partial, safe, held, pending>> /\ Keep BY <1>2 DEF StreamEnds
  <2>2. UNCHANGED <<protocol, streams, turn, mine, attempts, answer, public, record>> BY <2>1, KeepIs
  <2>3. ReadsWell(frames, seen, answer, protocol, partial) BY <1>1 DEF StreamInv, StandsWell
  <2>4. AllSeen(seen, answer) /\ partial = seen.text BY <2>3, <1>2 DEF ReadsWell, Terminal
  <2>5. ModelTypeOK' BY <2>1, <2>2 DEF StreamInv, ModelTypeOK
  <2>6. StandsWell' BY <1>1, <2>1, <2>2, <2>4 DEF StreamInv, StandsWell, AtWork
  <2> QED BY <2>5, <2>6 DEF StreamInv
<1>3. CASE ~(Terminal(seen) /\ Parses(seen.args))
  <2>1. GatewayFails(FALSE) BY <1>3 DEF StreamEnds
  <2> QED BY <2>1, <1>1, GatewayFailsKeeps
<1> QED BY <1>2, <1>3

LEMMA FinishesKeeps ==
  ASSUME StreamInv, Finishes
  PROVE  StreamInv'
<1>1. AtWork /\ step = "got" BY DEF Finishes, Active
<1>2. CASE CompleteAnswer(seen) /\ partial \in {<<>>, seen.text} /\ Parses(seen.args)
  <2>1. PICK x : x = IF partial = <<>> THEN seen.text ELSE <<>> OBVIOUS
  <2>2. PICK o : o = Fed(held, x).out OBVIOUS
  <2>3. PICK c : c = Closing(Fed(held, x).held) OBVIOUS
  <2>4. /\ step' = "finished" /\ held' = <<>> /\ pending' = <<>>
        /\ safe' = safe \o o \o c /\ Flushed(pending \o o \o c)
        /\ UNCHANGED <<protocol, streams, turn, mine, attempts, published, answer, frames, seen, partial, record>>
    BY <1>2, <2>1, <2>2, <2>3 DEF Finishes
  <2>5. /\ seen \in SeenAnswers /\ answer \in Answers /\ held \in Seq(Letter)
        /\ safe \in Seq(Shown) /\ pending \in Seq(Shown) /\ public \in Seq(Shown)
    BY DEF StreamInv, ModelTypeOK
  <2>6. x \in Seq(Letter)
    <3>1. seen.text \in Seq(Letter) BY <2>5 DEF SeenAnswers
    <3>2. CASE partial = <<>>
      <4>1. x = seen.text BY <2>1, <3>2
      <4> QED BY <3>1, <4>1
    <3>3. CASE partial # <<>>
      <4>1. x = <<>> BY <2>1, <3>3
      <4> QED BY <4>1
    <3> QED BY <3>2, <3>3
  <2>7. o \in Seq(Shown) /\ c \in Seq(Shown)
    <3>1. Fed(held, x).out \in Seq(Shown) /\ Fed(held, x).held \in Seq(Letter) BY <2>5, <2>6, FedTyped
    <3> QED BY <3>1, <2>2, <2>3, ClosingTyped
  <2>8. safe' \in Seq(Shown)
    <3>1. safe \o o \in Seq(Shown) BY <2>5, <2>7, BehindIt
    <3>2. safe \o o \o c \in Seq(Shown) BY <3>1, <2>7, BehindIt
    <3> QED BY <3>2, <2>4
  <2>9. public' \in Seq(Shown)
    <3>1. pending \o o \in Seq(Shown) BY <2>5, <2>7, BehindIt
    <3>2. pending \o o \o c \in Seq(Shown) BY <3>1, <2>7, BehindIt
    <3> QED BY <3>2, <2>4, <2>5, FlushedTyped
  <2>10. ModelTypeOK' BY <2>4, <2>8, <2>9 DEF StreamInv, ModelTypeOK
  <2>11. AllSeen(seen, answer) BY <1>1 DEF StreamInv, StandsWell
  <2>12. answer.reason = "stop"
    <3>1. answer.reason \in {"stop", "length"} BY <2>5 DEF Answers
    <3> QED BY <3>1, <2>11, <1>2 DEF AllSeen, CompleteAnswer
  <2>13. ~record.given BY <1>1 DEF StreamInv, StandsWell
  <2>14. StandsWell' BY <2>4, <2>11, <2>12, <2>13 DEF StandsWell, AtWork
  <2> QED BY <2>10, <2>14 DEF StreamInv
<1>3. CASE ~(CompleteAnswer(seen) /\ partial \in {<<>>, seen.text} /\ Parses(seen.args))
  <2>1. Interrupted("failed") BY <1>3 DEF Finishes
  <2> QED BY <1>1, <2>1, InterruptedKeeps
<1> QED BY <1>2, <1>3

LEMMA ConfirmsKeeps ==
  ASSUME StreamInv, Confirms
  PROVE  StreamInv'
<1>1. /\ step = "finished" /\ step' = "confirmed" /\ record' = [text |-> safe, call |-> seen.args # <<>>, given |-> TRUE]
      /\ UNCHANGED <<protocol, streams, turn, mine, attempts, published, answer, frames, seen, partial, safe, held, pending, public>>
  BY DEF Confirms
<1>2. safe \in Seq(Shown) /\ answer \in Answers BY DEF StreamInv, ModelTypeOK
<1>3. (seen.args # <<>>) \in BOOLEAN OBVIOUS
<1>4. record' \in [text : Seq(Shown), call : BOOLEAN, given : BOOLEAN] BY <1>1, <1>2, <1>3
<1>5. ModelTypeOK' BY <1>1, <1>4 DEF StreamInv, ModelTypeOK
<1>6. AllSeen(seen, answer) /\ answer.reason = "stop" BY <1>1 DEF StreamInv, StandsWell
<1>7. record'.call = answer.call
  <2>1. answer.call \in BOOLEAN BY <1>2 DEF Answers
  <2>2. record'.call <=> seen.args # <<>> BY <1>1
  <2>3. record'.call \in BOOLEAN BY <1>4
  <2> QED BY <2>1, <2>2, <2>3, <1>6 DEF AllSeen
<1>8. StandsWell' BY <1>1, <1>6, <1>7 DEF StandsWell, AtWork
<1> QED BY <1>5, <1>8 DEF StreamInv

LEMMA DiscardsKeeps ==
  ASSUME StreamInv, Discards
  PROVE  StreamInv'
<1>1. ModelTypeOK' BY DEF StreamInv, ModelTypeOK, Discards
<1>2. StandsWell' BY DEF StreamInv, StandsWell, AtWork, Discards
<1> QED BY <1>1, <1>2 DEF StreamInv

LEMMA StreamStepKeeps ==
  ASSUME StreamInv, StreamStep
  PROVE  StreamInv'
<1>1. CASE TextFrame BY <1>1, TextFrameKeeps
<1>2. CASE ArgumentFrame BY <1>2, ArgumentFrameKeeps
<1>3. CASE LifeCycleFrame BY <1>3, LifeCycleFrameKeeps
<1>4. CASE ErrorFrame BY <1>4, ErrorFrameKeeps
<1>5. CASE EndFrame BY <1>5, EndFrameKeeps
<1>6. CASE StreamEnds BY <1>6, StreamEndsKeeps
<1> QED BY <1>1, <1>2, <1>3, <1>4, <1>5, <1>6 DEF StreamStep

LEMMA StreamKeeps ==
  ASSUME StreamInv, [ModelNext]_modelVars
  PROVE  StreamInv'
<1>1. CASE BeginAttempt BY <1>1, BeginAttemptKeeps
<1>2. CASE OvertakeAttempt BY <1>2, OvertakeKeeps
<1>3. CASE CutAttempt
  <2>1. AtWork /\ Interrupted("idle") BY <1>3 DEF CutAttempt
  <2> QED BY <2>1, InterruptedKeeps
<1>4. CASE FlushPending BY <1>4, FlushKeeps
<1>5. CASE AskFails
  <2>1. AtWork /\ step # "got" BY <1>5 DEF AskFails, Active
  <2>2. PICK t \in BOOLEAN : GatewayFails(t) BY <1>5 DEF AskFails
  <2> QED BY <2>1, <2>2, GatewayFailsKeeps
<1>6. CASE RequestTimesOut
  <2>1. AtWork /\ step # "got" /\ GatewayFails(TRUE) BY <1>6 DEF RequestTimesOut, Active
  <2> QED BY <2>1, GatewayFailsKeeps
<1>7. CASE RunTimesOut
  <2>1. AtWork /\ Interrupted("failed") BY <1>7 DEF RunTimesOut, Active
  <2> QED BY <2>1, InterruptedKeeps
<1>8. CASE OpenStream BY <1>8, OpenKeeps
<1>9. CASE Complete BY <1>9, CompleteKeeps
<1>10. CASE BreakOff BY <1>10, BreakKeeps
<1>11. CASE StreamStep BY <1>11, StreamStepKeeps
<1>12. CASE Finishes BY <1>12, FinishesKeeps
<1>13. CASE Confirms BY <1>13, ConfirmsKeeps
<1>14. CASE Discards BY <1>14, DiscardsKeeps
<1>15. CASE UNCHANGED modelVars
  <2>1. ModelTypeOK' BY <1>15 DEF StreamInv, ModelTypeOK, modelVars
  <2>2. StandsWell' BY <1>15 DEF StreamInv, StandsWell, AtWork, modelVars
  <2> QED BY <2>1, <2>2 DEF StreamInv
<1> QED
  BY <1>1, <1>2, <1>3, <1>4, <1>5, <1>6, <1>7, <1>8, <1>9, <1>10, <1>11, <1>12, <1>13, <1>14, <1>15 DEF ModelNext

LEMMA StreamHolds == ModelSpec => []StreamInv
<1>1. ModelInit => StreamInv BY Begins
<1>2. StreamInv /\ [ModelNext]_modelVars => StreamInv' BY StreamKeeps
<1> QED BY <1>1, <1>2, PTL DEF ModelSpec

\* The variables of a model turn hold what they are meant to hold, for every answer, secret
\* and number of attempts: only whole frames are on their way, and an Ollama or Responses
\* stream that ends hands over a reason (llm/adapters.py, core_adapter.py).
THEOREM ModelTypeCorrect == ModelSpec => []ModelTypeOK
<1>1. StreamInv => ModelTypeOK BY DEF StreamInv
<1> QED BY <1>1, StreamHolds, PTL

-----------------------------------------------------------------------------
(* What is shown. *)

\* The text that has gone through the filter is as if it had come in one piece.
ShowsWell ==
  /\ AtWork => Filtered(partial, safe, held)
  /\ step = "finished" => safe = ShownText(answer.text)
  /\ record.given => record.text = ShownText(answer.text)

ShownInv == StreamInv /\ ShowsWell

\* A step that leaves the filter alone.
LEMMA UnfilteredShows ==
  ASSUME ShownInv, UNCHANGED <<partial, safe, held>>, AtWork' => AtWork,
         step' = "finished" => step = "finished" /\ UNCHANGED answer,
         record'.given => record.given /\ UNCHANGED <<record, answer>>
  PROVE  ShowsWell'
<1>1. ShowsWell BY DEF ShownInv
<1>2. AtWork' => Filtered(partial', safe', held') BY <1>1 DEF ShowsWell
<1>3. step' = "finished" => safe' = ShownText(answer'.text) BY <1>1 DEF ShowsWell
<1>4. record'.given => record'.text = ShownText(answer'.text) BY <1>1 DEF ShowsWell
<1> QED BY <1>1, <1>2, <1>3, <1>4 DEF ShowsWell

LEMMA InterruptedShows ==
  ASSUME ShownInv, AtWork, NEW how \in {"idle", "failed"}, Interrupted(how)
  PROVE  ShowsWell'
<1>1. ~record.given BY DEF ShownInv, StreamInv, StandsWell, AtWork
<1>2. step' = how /\ record' = record BY DEF Interrupted
<1> QED BY <1>1, <1>2 DEF ShowsWell, AtWork

LEMMA GatewayFailsShows ==
  ASSUME ShownInv, AtWork, step # "got", NEW t \in BOOLEAN, GatewayFails(t)
  PROVE  ShowsWell'
<1>1. CASE MayRetry(t)
  <2>1. /\ step' = "asking"
        /\ UNCHANGED <<protocol, streams, turn, mine, published, answer, partial, safe, held, pending, public, record>>
    BY <1>1 DEF GatewayFails
  <2> QED BY <2>1, UnfilteredShows
<1>2. CASE ~MayRetry(t)
  <2>1. Interrupted("failed") BY <1>2 DEF GatewayFails
  <2> QED BY <2>1, InterruptedShows
<1> QED BY <1>1, <1>2

LEMMA QuietShows ==
  ASSUME ShownInv, Quiet
  PROVE  ShowsWell'
<1>1. UNCHANGED <<step, partial, safe, held, answer, record>> BY KeepIs DEF Quiet
<1>2. AtWork' => AtWork BY <1>1 DEF AtWork
<1> QED BY <1>1, <1>2, UnfilteredShows

LEMMA TextFrameShows ==
  ASSUME Unbordered, ShownInv, TextFrame
  PROVE  ShowsWell'
<1>1. PICK x : x = Head(frames).data OBVIOUS
<1>2. Reading /\ Head(frames).kind = "text" /\ Received(x) /\ Keep /\ step' = step
  BY <1>1 DEF TextFrame, NextFrame
<1>3. StreamInv /\ step = "reading" BY <1>2 DEF ShownInv, Reading
<1>4. Head(frames) \in Frame BY <1>2, <1>3, ReadingFrame
<1>5. x \in Seq(Letter) BY <1>1, <1>2, <1>4, FrameParts
<1>6. partial \in Seq(Letter) BY <1>3 DEF StreamInv, ModelTypeOK
<1>7. Filtered(partial, safe, held) BY <1>3 DEF ShownInv, ShowsWell, AtWork
<1>8. Filtered(partial \o x, safe \o Fed(held, x).out, Fed(held, x).held) BY <1>5, <1>6, <1>7, Feeding
<1>9. partial' = partial \o x /\ held' = Fed(held, x).held /\ safe' = safe \o Fed(held, x).out BY <1>2 DEF Received
<1>10. ~record.given /\ record' = record
  <2>1. record' = record BY <1>2, KeepIs
  <2> QED BY <1>3, <2>1 DEF StreamInv, StandsWell
<1> QED BY <1>2, <1>3, <1>8, <1>9, <1>10 DEF ShowsWell

LEMMA FinishesShows ==
  ASSUME Unbordered, ShownInv, Finishes
  PROVE  ShowsWell'
<1>1. AtWork /\ step = "got" /\ StreamInv BY DEF Finishes, Active, ShownInv
<1>2. CASE CompleteAnswer(seen) /\ partial \in {<<>>, seen.text} /\ Parses(seen.args)
  <2>1. PICK x : x = IF partial = <<>> THEN seen.text ELSE <<>> OBVIOUS
  <2>2. PICK o : o = Fed(held, x).out OBVIOUS
  <2>3. PICK h : h = Fed(held, x).held OBVIOUS
  <2>4. /\ step' = "finished" /\ safe' = safe \o o \o Closing(h)
        /\ UNCHANGED <<answer, record>>
    BY <1>2, <2>1, <2>2, <2>3 DEF Finishes
  <2>5. seen.text \in Seq(Letter) /\ partial \in Seq(Letter) /\ answer.text = seen.text
    <3>1. seen \in SeenAnswers /\ partial \in Seq(Letter) BY <1>1 DEF StreamInv, ModelTypeOK
    <3>2. AllSeen(seen, answer) BY <1>1 DEF StreamInv, StandsWell
    <3> QED BY <3>1, <3>2 DEF SeenAnswers, AllSeen
  <2>6. x \in Seq(Letter) /\ partial \o x = seen.text
    <3>1. PICK p : p = partial OBVIOUS
    <3>2. PICK z : z = seen.text OBVIOUS
    <3>3. p \in Seq(Letter) /\ z \in Seq(Letter) BY <2>5, <3>1, <3>2
    <3>4. CASE p = <<>>
      <4>1. x = z BY <2>1, <3>1, <3>2, <3>4
      <4>2. <<>> \o z = z BY <3>3
      <4> QED BY <3>1, <3>2, <3>3, <3>4, <4>1, <4>2
    <3>5. CASE p # <<>>
      <4>1. x = <<>> BY <2>1, <3>1, <3>5
      <4>2. p = z BY <1>2, <3>1, <3>2, <3>5
      <4>3. p \o <<>> = p BY <3>3
      <4> QED BY <3>1, <3>2, <4>1, <4>2, <4>3
    <3> QED BY <3>4, <3>5
  <2>7. Filtered(partial, safe, held) BY <1>1 DEF ShownInv, ShowsWell
  <2>8. Filtered(partial \o x, safe \o o, h) BY <2>2, <2>3, <2>5, <2>6, <2>7, Feeding
  <2>9. PICK y : y = safe \o o OBVIOUS
  <2>10. ShownText(seen.text) = y \o Closing(h)
    <3>1. Filtered(seen.text, y, h) BY <2>6, <2>8, <2>9
    <3> QED BY <3>1, <2>5, ShownIs
  <2>11. safe' = ShownText(answer'.text) BY <2>4, <2>5, <2>9, <2>10
  <2>12. ~record.given BY <1>1 DEF StreamInv, StandsWell
  <2> QED BY <2>4, <2>11, <2>12 DEF ShowsWell, AtWork
<1>3. CASE ~(CompleteAnswer(seen) /\ partial \in {<<>>, seen.text} /\ Parses(seen.args))
  <2>1. Interrupted("failed") BY <1>3 DEF Finishes
  <2> QED BY <1>1, <2>1, InterruptedShows
<1> QED BY <1>2, <1>3

LEMMA StreamStepShows ==
  ASSUME Unbordered, ShownInv, StreamStep
  PROVE  ShowsWell'
<1>1. CASE TextFrame BY <1>1, TextFrameShows
<1>2. CASE ArgumentFrame BY <1>2, QuietShows DEF ArgumentFrame
<1>3. CASE LifeCycleFrame BY <1>3, QuietShows DEF LifeCycleFrame
<1>4. CASE ErrorFrame
  <2>1. AtWork /\ step # "got" BY <1>4 DEF ErrorFrame, Reading, Active
  <2>2. PICK t \in {protocol = "claude", FALSE} : GatewayFails(t) BY <1>4 DEF ErrorFrame
  <2>3. t \in BOOLEAN BY <2>2
  <2> QED BY <2>1, <2>2, <2>3, GatewayFailsShows
<1>5. CASE EndFrame BY <1>5, QuietShows DEF EndFrame
<1>6. CASE StreamEnds
  <2>1. AtWork /\ step = "reading" BY <1>6 DEF StreamEnds, Active
  <2>2. CASE Terminal(seen) /\ Parses(seen.args)
    <3>1. step' = "got" /\ UNCHANGED <<frames, seen, published, partial, safe, held, pending>> /\ Keep
      BY <1>6, <2>2 DEF StreamEnds
    <3>2. UNCHANGED <<answer, record>> BY <3>1, KeepIs
    <3> QED BY <2>1, <3>1, <3>2, UnfilteredShows
  <2>3. CASE ~(Terminal(seen) /\ Parses(seen.args))
    <3>1. GatewayFails(FALSE) BY <1>6, <2>3 DEF StreamEnds
    <3> QED BY <2>1, <3>1, GatewayFailsShows
  <2> QED BY <2>2, <2>3
<1> QED BY <1>1, <1>2, <1>3, <1>4, <1>5, <1>6 DEF StreamStep

LEMMA BeginAttemptShows ==
  ASSUME Unbordered, ShownInv, BeginAttempt
  PROVE  ShowsWell'
<1>1. PICK o : o = <<>> OBVIOUS
<1>2. Filtered(o, o, o) BY <1>1, FilteredNothing
<1>3. /\ step' = "asking" /\ partial' = o /\ safe' = o /\ held' = o /\ record' = NoRecord BY <1>1 DEF BeginAttempt
<1>4. ~NoRecord.given BY DEF NoRecord
<1> QED BY <1>2, <1>3, <1>4 DEF ShowsWell

LEMMA StreamShows ==
  ASSUME Unbordered, ShownInv, [ModelNext]_modelVars
  PROVE  ShowsWell'
<1>0. StreamInv /\ ShowsWell BY DEF ShownInv
<1>1. CASE BeginAttempt BY <1>1, BeginAttemptShows
<1>2. CASE OvertakeAttempt
  <2>1. UNCHANGED <<step, answer, partial, safe, held, record>> BY <1>2 DEF OvertakeAttempt
  <2> QED BY <1>0, <2>1 DEF ShowsWell, AtWork
<1>3. CASE CutAttempt
  <2>1. AtWork /\ Interrupted("idle") BY <1>3 DEF CutAttempt
  <2> QED BY <2>1, InterruptedShows
<1>4. CASE FlushPending
  <2>1. UNCHANGED <<step, answer, partial, safe, held, record>> BY <1>4 DEF FlushPending
  <2> QED BY <1>0, <2>1 DEF ShowsWell, AtWork
<1>5. CASE AskFails
  <2>1. AtWork /\ step # "got" BY <1>5 DEF AskFails, Active
  <2>2. PICK t \in BOOLEAN : GatewayFails(t) BY <1>5 DEF AskFails
  <2> QED BY <2>1, <2>2, GatewayFailsShows
<1>6. CASE RequestTimesOut
  <2>1. AtWork /\ step # "got" /\ GatewayFails(TRUE) BY <1>6 DEF RequestTimesOut, Active
  <2> QED BY <2>1, GatewayFailsShows
<1>7. CASE RunTimesOut
  <2>1. AtWork /\ Interrupted("failed") BY <1>7 DEF RunTimesOut, Active
  <2> QED BY <2>1, InterruptedShows
<1>8. CASE OpenStream
  <2>1. step = "asking" /\ step' = "reading" /\ UNCHANGED <<partial, safe, held, record>> BY <1>8 DEF OpenStream
  <2>2. ~record.given BY <1>0, <2>1 DEF StreamInv, StandsWell
  <2> QED BY <1>0, <2>1, <2>2 DEF ShowsWell, AtWork
<1>9. CASE Complete
  <2>1. step = "asking" /\ step' = "got" /\ UNCHANGED <<partial, safe, held, record>> BY <1>9 DEF Complete
  <2>2. ~record.given BY <1>0, <2>1 DEF StreamInv, StandsWell
  <2> QED BY <1>0, <2>1, <2>2 DEF ShowsWell, AtWork
<1>10. CASE BreakOff
  <2>1. UNCHANGED <<step, answer, partial, safe, held, record>> BY <1>10 DEF BreakOff
  <2> QED BY <1>0, <2>1 DEF ShowsWell, AtWork
<1>11. CASE StreamStep BY <1>11, StreamStepShows
<1>12. CASE Finishes BY <1>12, FinishesShows
<1>13. CASE Confirms
  <2>1. /\ step = "finished" /\ step' = "confirmed" /\ UNCHANGED <<answer, safe>>
        /\ record' = [text |-> safe, call |-> seen.args # <<>>, given |-> TRUE]
    BY <1>13 DEF Confirms
  <2>2. record'.text = ShownText(answer'.text) BY <1>0, <2>1 DEF ShowsWell
  <2> QED BY <2>1, <2>2 DEF ShowsWell, AtWork
<1>14. CASE Discards
  <2>1. step = "finished" /\ step' = "idle" /\ UNCHANGED record BY <1>14 DEF Discards
  <2>2. ~record.given BY <1>0, <2>1 DEF StreamInv, StandsWell
  <2> QED BY <2>1, <2>2 DEF ShowsWell, AtWork
<1>15. CASE UNCHANGED modelVars
  <2>1. UNCHANGED <<step, answer, partial, safe, held, record>> BY <1>15 DEF modelVars
  <2> QED BY <1>0, <2>1 DEF ShowsWell, AtWork
<1> QED
  BY <1>1, <1>2, <1>3, <1>4, <1>5, <1>6, <1>7, <1>8, <1>9, <1>10, <1>11, <1>12, <1>13, <1>14, <1>15 DEF ModelNext

\* A confirmed response is all that the provider answered, in each of the four protocols, however
\* its text was cut into frames and whichever streams broke off, timed out or were tried again
\* before it (llm/gateway.py, llm/adapters.py, core_adapter.py, secret_filter.py), for a secret
\* no beginning of which is its end as well: the filter masks any other by how the text is cut.
THEOREM AnswersAreWhole ==
  ASSUME Unbordered
  PROVE  ModelSpec => []AnswerIsWhole
<1>1. ModelInit => ShowsWell
  <2>1. ~NoRecord.given BY DEF NoRecord
  <2> QED BY <2>1 DEF ModelInit, ShowsWell, AtWork
<1>2. StreamInv /\ ShowsWell /\ [ModelNext]_modelVars => ShowsWell' BY StreamShows DEF ShownInv
<1>3. StreamInv /\ ShowsWell => AnswerIsWhole BY DEF StreamInv, StandsWell, ShowsWell, AnswerIsWhole
<1> QED BY <1>1, <1>2, <1>3, StreamHolds, PTL DEF ModelSpec

\* What a run goes on with is what the provider answered, whatever the secret: its text and
\* its call are those of the answer, and the answer had reached its own end.
ConfirmedInFull == record.given => AllSeen(seen, answer) /\ answer.reason = "stop" /\ record.call = answer.call

\* No stream that broke off, hit its limit or was tried again is taken for an answer
\* (llm/adapters.py, llm/gateway.py), for any secret: only what is shown of it needs Unbordered.
THEOREM AnswersAreComplete == ModelSpec => []ConfirmedInFull
<1>1. StreamInv => ConfirmedInFull BY DEF StreamInv, StandsWell, ConfirmedInFull
<1> QED BY <1>1, StreamHolds, PTL

=============================================================================
