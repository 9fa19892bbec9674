-------------------------- MODULE RunControlProofs --------------------------
(* What RunControl guarantees for every set of requests and number of runs. *)
EXTENDS RunControl, TLAPS

-----------------------------------------------------------------------------
(* The type invariant, by the actors of the specification. *)

LEMMA InitTyped == Init => TypeOK
  BY DEF Init, TypeOK, ActiveStatus, FinalStatus, Places, Slotted, Acting, Returns,
         Tools, ToolKind, NoTool, NewTool

USE DEF ActiveStatus, FinalStatus, Places, Slotted, Acting, Returns,
        At, Goto, Toward, SetStatus

LEMMA ToolsTyped == NoTool \in Tools /\ \A k \in ToolKind : NewTool(k) \in Tools
  BY DEF NoTool, NewTool, Tools, ToolKind

\* Updating a field of a tool's locals keeps them locals of a tool.
LEMMA ToolUpdated ==
  ASSUME NEW t \in Tools, NEW g \in Nat, NEW b \in BOOLEAN,
         NEW v \in {"none", "accepted", "rejected", "timeout", "invalid"}
  PROVE  /\ [t EXCEPT !.gen = g, !.overtaken = b] \in Tools
         /\ [t EXCEPT !.asked = g] \in Tools
         /\ [t EXCEPT !.verdict = v] \in Tools
         /\ [t EXCEPT !.overtaken = b, !.verdict = v] \in Tools
  BY DEF Tools

LEMMA LocalsTyped ==
  ASSUME TypeOK, NEW r \in Runs
  PROVE  tool[r] \in Tools /\ tool[r].verdict \in {"none", "accepted", "rejected", "timeout", "invalid"} /\ gen[r] \in Nat
  BY DEF TypeOK, Tools

LEMMA AppliedTyped ==
  ASSUME TypeOK, NEW r \in Runs, NEW S, Applied(r, S)
  PROVE  ctl' \in [Runs -> [Request -> {"none", "received", "applied", "interrupted"}]]
  BY DEF TypeOK, Applied

(* The coroutine: waiting for the workspace, boundaries and the end. *)
LEMMA QueueTyped ==
  ASSUME TypeOK, NEW r \in Runs, QueueStep(r)
  PROVE  TypeOK'
  <1>1. CASE AcquireCancelled(r)
    BY <1>1, ToolsTyped DEF TypeOK, AcquireCancelled, Unwind, recordVars, runVars, ctlVars, denyVars, handlerVars
  <1>2. CASE AcquirePaused(r)
    BY <1>2 DEF TypeOK, AcquirePaused, Park, Applied, denyVars, handlerVars
  <1>3. CASE AcquireWait(r)
    <2>1. ctl' \in [Runs -> [Request -> {"none", "received", "applied", "interrupted"}]]
      BY <1>3, AppliedTyped DEF AcquireWait, TypeOK
    <2>2. status' \in [Runs -> ActiveStatus \cup FinalStatus \cup {"none"}] /\ UNCHANGED <<gen, ver, pausing, cancelling, anc>>
      BY <1>3 DEF AcquireWait, TypeOK, runVars
    <2>3. pc' \in [Runs -> Places] /\ UNCHANGED <<ret, outcome, managed>>
      BY <1>3 DEF AcquireWait, TypeOK
    <2>4. UNCHANGED <<ctx, pending, denyVars, plan, tool, handlerVars>>
      BY <1>3 DEF AcquireWait
    <2> QED BY <2>1, <2>2, <2>3, <2>4 DEF TypeOK, denyVars, handlerVars
  <1>4. CASE AcquireTake(r)
    BY <1>4 DEF TypeOK, AcquireTake, Applied, runVars, denyVars, handlerVars
  <1> QED BY <1>1, <1>2, <1>3, <1>4 DEF QueueStep

(* Boundaries and the end of the coroutine. *)
LEMMA BoundaryTyped ==
  ASSUME TypeOK, NEW r \in Runs, BoundaryStep(r)
  PROVE  TypeOK'
  <1>1. CASE BoundaryPause(r)
    BY <1>1 DEF TypeOK, BoundaryPause, Park, Applied, denyVars, handlerVars
  <1>2. CASE BoundaryCancelled(r)
    BY <1>2, ToolsTyped DEF TypeOK, BoundaryCancelled, Unwind, recordVars, runVars, ctlVars, denyVars, handlerVars
  <1>3. CASE Prepare(r)
    BY <1>3 DEF TypeOK, Prepare, recordVars, runVars, ctlVars, denyVars, handlerVars
  <1>4. CASE PrepareFails(r)
    BY <1>4 DEF TypeOK, PrepareFails, Finish, Settled, Told, denyVars, handlerVars, Steers
  <1>5. CASE FinishClosing(r)
    BY <1>5 DEF TypeOK, FinishClosing, Finish, Settled, Told, denyVars, handlerVars, Steers
  <1>6. CASE FinishUnwound(r)
    BY <1>6 DEF TypeOK, FinishUnwound, Finish, Settled, Told, denyVars, handlerVars, Steers
  <1> QED BY <1>1, <1>2, <1>3, <1>4, <1>5, <1>6 DEF BoundaryStep

(* The model attempts and the verification. *)
LEMMA ModelTyped ==
  ASSUME TypeOK, NEW r \in Runs, ModelStep(r)
  PROVE  TypeOK'
  <1>1. CASE ModelStart(r)
    BY <1>1, ToolsTyped DEF TypeOK, ModelStart, Pass, Applied, Told, Steers, NoTool, runVars, denyVars, handlerVars
  <1>2. CASE ModelReplies(r)
    BY <1>2 DEF TypeOK, ModelReplies, recordVars, runVars, ctlVars, denyVars, handlerVars
  <1>3. CASE ModelFails(r)
    BY <1>3 DEF TypeOK, ModelFails, Ending, recordVars, runVars, ctlVars, denyVars, handlerVars
  <1>4. CASE ModelConfirm(r)
    BY <1>4 DEF TypeOK, ModelConfirm, recordVars, runVars, ctlVars, denyVars, handlerVars
  <1>5. CASE ModelCut(r)
    BY <1>5, ToolsTyped DEF TypeOK, ModelCut, Unwind, recordVars, runVars, ctlVars, denyVars, handlerVars
  <1>6. CASE PassVerify(r)
    BY <1>6 DEF TypeOK, PassVerify, Pass, Applied, runVars, denyVars, handlerVars
  <1>7. CASE VerifyAccepts(r)
    BY <1>7 DEF TypeOK, VerifyAccepts, Ending, recordVars, runVars, ctlVars, denyVars, handlerVars
  <1>8. CASE VerifyRetries(r)
    BY <1>8 DEF TypeOK, VerifyRetries, recordVars, runVars, ctlVars, denyVars, handlerVars
  <1>9. CASE VerifyFails(r)
    BY <1>9 DEF TypeOK, VerifyFails, Ending, recordVars, runVars, ctlVars, denyVars, handlerVars
  <1> QED BY <1>1, <1>2, <1>3, <1>4, <1>5, <1>6, <1>7, <1>8, <1>9 DEF ModelStep

(* A tool from its call to its identity check. *)
LEMMA ToolTyped ==
  ASSUME TypeOK, NEW r \in Runs, CallStep(r)
  PROVE  TypeOK'
  <1>1. CASE CallStale(r)
    BY <1>1 DEF TypeOK, CallStale, Pass, Applied, runVars, denyVars, handlerVars
  <1>2. CASE CallTool(r)
    BY <1>2, ToolsTyped DEF TypeOK, CallTool, Pass, Applied, runVars, denyVars, handlerVars
  <1>3. CASE PassResult(r)
    BY <1>3, ToolsTyped DEF TypeOK, PassResult, Pass, Applied, NoTool, runVars, denyVars, handlerVars
  <1>4. CASE ToolRefused(r)
    BY <1>4, ToolsTyped DEF TypeOK, ToolRefused, ToolOver, recordVars, runVars, ctlVars, denyVars, handlerVars
  <1>5. CASE ToolBegins(r)
    <2>1. UNCHANGED <<recordVars, plan, handlerVars, outcome, managed>>
      BY <1>5 DEF ToolBegins, ToolOver
    <2>2. CASE ToolOver(r)
      BY <2>1, <2>2, ToolsTyped DEF TypeOK, ToolOver, recordVars, runVars, ctlVars, denyVars, handlerVars
    <2>3. CASE tool' = [tool EXCEPT ![r].gen = gen[r], ![r].overtaken = FALSE] /\ Goto(r, "auth")
      <3>1. tool' = [tool EXCEPT ![r] = [tool[r] EXCEPT !.gen = gen[r], !.overtaken = FALSE]]
        BY <2>3 DEF TypeOK
      <3>2. [tool[r] EXCEPT !.gen = gen[r], !.overtaken = FALSE] \in Tools
        BY LocalsTyped, ToolUpdated
      <3>3. tool' \in [Runs -> Tools]
        BY <3>1, <3>2 DEF TypeOK
      <3> QED BY <2>1, <2>3, <3>3 DEF TypeOK, recordVars, runVars, ctlVars, denyVars, handlerVars
    <2> QED BY <1>5, <2>2, <2>3 DEF ToolBegins
  <1>6. CASE ToolUnwinds(r)
    BY <1>6, ToolsTyped DEF TypeOK, ToolUnwinds, Unwind, recordVars, runVars, ctlVars, denyVars, handlerVars
  <1>7. CASE ToolFails(r)
    BY <1>7, ToolsTyped DEF TypeOK, ToolFails, ToolOver, recordVars, runVars, ctlVars, denyVars, handlerVars
  <1> QED BY <1>1, <1>2, <1>3, <1>4, <1>5, <1>6, <1>7 DEF CallStep

(* The approval of a tool. *)
LEMMA ApprovalTyped ==
  ASSUME TypeOK, NEW r \in Runs, ApprovalStep(r)
  PROVE  TypeOK'
  <1>1. CASE AskApproval(r)
    <2>1. tool' \in [Runs -> Tools]
      <3>1. tool' = [tool EXCEPT ![r] = [tool[r] EXCEPT !.asked = gen[r]]]
        BY <1>1 DEF TypeOK, AskApproval
      <3>2. [tool[r] EXCEPT !.asked = gen[r]] \in Tools
        BY LocalsTyped, ToolUpdated
      <3> QED BY <3>1, <3>2 DEF TypeOK
    <2> QED BY <1>1, <2>1 DEF TypeOK, AskApproval, recordVars, runVars, ctlVars, denyVars, handlerVars
  <1>2. CASE AskTimeout(r)
    <2>1. tool' \in [Runs -> Tools]
      <3>1. tool' = [tool EXCEPT ![r] = [tool[r] EXCEPT !.verdict = "timeout"]]
        BY <1>2 DEF TypeOK, AskTimeout
      <3>2. [tool[r] EXCEPT !.verdict = "timeout"] \in Tools
        BY LocalsTyped, ToolUpdated
      <3> QED BY <3>1, <3>2 DEF TypeOK
    <2> QED BY <1>2, <2>1 DEF TypeOK, AskTimeout, recordVars, runVars, ctlVars, denyVars, handlerVars
  <1>3. CASE ResolveInvalid(r)
    BY <1>3, ToolsTyped DEF TypeOK, ResolveInvalid, Resolve, ToolOver, recordVars, runVars, ctlVars, denyVars, handlerVars
  <1>4. CASE ResolveRefused(r)
    BY <1>4, ToolsTyped DEF TypeOK, ResolveRefused, Resolve, ToolOver, recordVars, runVars, ctlVars, denyVars, handlerVars
  <1>5. CASE ResolveAccepted(r)
    <2>1. /\ status' \in [Runs -> ActiveStatus \cup FinalStatus \cup {"none"}]
          /\ pending' \in [Runs -> BOOLEAN]
          /\ UNCHANGED <<gen, ver, pausing, cancelling, anc, ctlVars, denyVars, plan, handlerVars>>
      BY <1>5 DEF TypeOK, ResolveAccepted, Resolve
    <2>2. UNCHANGED <<outcome, managed>> /\ ret' \in [Runs -> Returns] /\ pc' \in [Runs -> Places]
      <3>1. \/ Goto(r, "unwind")
            \/ Goto(r, "auth2")
            \/ ToolOver(r)
        BY <1>5 DEF ResolveAccepted
      <3>2. CASE Goto(r, "unwind") \/ Goto(r, "auth2")
        BY <3>2 DEF TypeOK
      <3>3. CASE ToolOver(r)
        BY <3>3 DEF TypeOK, ToolOver
      <3> QED BY <3>1, <3>2, <3>3
    <2>3. tool' = [tool EXCEPT ![r] = NoTool] \/ tool' = tool
      BY <1>5 DEF ResolveAccepted, ToolOver
    <2>4. tool' \in [Runs -> Tools]
      BY <2>3, ToolsTyped DEF TypeOK
    <2> QED BY <2>1, <2>2, <2>4 DEF TypeOK, ctlVars, denyVars, handlerVars
  <1>6. CASE AutoApprove(r)
    BY <1>6 DEF TypeOK, AutoApprove, recordVars, runVars, ctlVars, denyVars, handlerVars
  <1> QED BY <1>1, <1>2, <1>3, <1>4, <1>5, <1>6 DEF ApprovalStep

(* The effect of a tool. *)
LEMMA EffectTyped ==
  ASSUME TypeOK, NEW r \in Runs, EffectStep(r)
  PROVE  TypeOK'
  <1>1. CASE Authorize(r)
    BY <1>1 DEF TypeOK, Authorize, recordVars, runVars, ctlVars, denyVars, handlerVars
  <1>2. CASE ReadEnds(r)
    BY <1>2, ToolsTyped DEF TypeOK, ReadEnds, ToolOver, recordVars, runVars, ctlVars, denyVars, handlerVars
  <1>3. CASE Act(r)
    <2>1. UNCHANGED <<recordVars, plan, handlerVars>>
      BY <1>3 DEF Act
    <2>2. \/ Goto(r, "command") /\ UNCHANGED tool
          \/ Goto(r, "effect") /\ UNCHANGED tool
          \/ ToolOver(r)
          \/ ProcessStarts(r)
      BY <1>3 DEF Act
    <2>3. CASE ToolOver(r)
      BY <2>1, <2>3, ToolsTyped DEF TypeOK, ToolOver, recordVars, runVars, ctlVars, denyVars, handlerVars
    <2>4. CASE ProcessStarts(r)
      BY <2>1, <2>4, ToolsTyped DEF TypeOK, ProcessStarts, recordVars, runVars, ctlVars, denyVars, handlerVars
    <2>5. CASE (Goto(r, "command") \/ Goto(r, "effect")) /\ UNCHANGED tool
      BY <2>1, <2>5, ZenonT(40) DEF TypeOK, recordVars, runVars, ctlVars, denyVars, handlerVars
    <2> QED BY <2>2, <2>3, <2>4, <2>5
  <1>4. CASE CommandEnds(r)
    BY <1>4, ToolsTyped DEF TypeOK, CommandEnds, ToolOver, recordVars, runVars, ctlVars, denyVars, handlerVars
  <1> QED BY <1>1, <1>2, <1>3, <1>4 DEF EffectStep

LEMMA StrikeTyped ==
  ASSUME TypeOK, NEW r \in Runs, NEW cut \in BOOLEAN, Strike(r, cut)
  PROVE  pc' \in [Runs -> Places] /\ ret' \in [Runs -> Returns] /\ tool' \in [Runs -> Tools]
  <1>1. ret' \in [Runs -> Returns]
    BY DEF TypeOK, Strike
  <1>2. pc' \in [Runs -> Places]
    BY DEF TypeOK, Strike
  <1>3. CASE cut \/ pc[r] \notin Slotted
    <2>1. tool' = [tool EXCEPT ![r] = NoTool]
      BY <1>3 DEF TypeOK, Strike
    <2> QED BY <1>1, <1>2, <2>1, ToolsTyped DEF TypeOK
  <1>4. CASE ~cut /\ pc[r] \in Slotted
    <2>1. tool' = [tool EXCEPT ![r] = Struck(tool[r], pc[r])]
      BY <1>4 DEF TypeOK, Strike
    <2>2. Struck(tool[r], pc[r]) \in Tools
      BY LocalsTyped DEF Struck, Tools
    <2> QED BY <1>1, <1>2, <2>1, <2>2 DEF TypeOK
  <1> QED BY <1>3, <1>4

LEMMA OverruleTyped ==
  ASSUME TypeOK, NEW r \in Runs, NEW q \in Request, NEW s \in {"received", "applied"}, Overrule(r, q, s)
  PROVE  /\ gen' \in [Runs -> Nat] /\ ver' \in [Runs -> Nat]
         /\ ctl' \in [Runs -> [Request -> {"none", "received", "applied", "interrupted"}]]
         /\ UNCHANGED <<status, anc, ctx, pending, denied, refused, outcome, plan, managed, asks>>
  BY DEF TypeOK, Overrule, denyVars

(* The handlers of the controls. *)
LEMMA HandleTyped ==
  ASSUME TypeOK, NEW r \in Runs, NEW q \in Request,
         Steer(r, q) \/ Pause(r, q) \/ Cancel(r, q) \/ AskResume(r, q) \/ PauseScans(r, q) \/ CancelAnswers(r, q)
  PROVE  TypeOK'
  <1>1. CASE Steer(r, q)
    <2>1. PICK cut \in BOOLEAN, s \in {"received", "applied"} : Strike(r, cut) /\ Overrule(r, q, s)
      BY <1>1 DEF Steer
    <2>2. pausing' \in [Runs -> BOOLEAN] /\ cancelling' \in [Runs -> BOOLEAN] /\ scans' \subseteq Runs \X Request /\ cancels' \subseteq Runs \X Request
      BY <1>1 DEF TypeOK, Steer
    <2> QED BY <2>1, <2>2, StrikeTyped, OverruleTyped DEF TypeOK
  <1>2. CASE Pause(r, q)
    <2>1. PICK s \in {"received", "applied"} : Overrule(r, q, s)
      BY <1>2, Zenon DEF Pause
    <2>2. UNCHANGED scans \/ scans' = scans \cup {<<r, q>>}
      BY <1>2 DEF Pause
    <2>3. scans' \subseteq Runs \X Request
      BY <2>2 DEF TypeOK
    <2>4. pausing' \in [Runs -> BOOLEAN] /\ cancelling' \in [Runs -> BOOLEAN] /\ cancels' \subseteq Runs \X Request
      BY <1>2 DEF TypeOK, Pause
    <2> DEFINE cut == tool[r].kind \in {"read", "command"}
    <2>5. Strike(r, cut) \/ Strike(r, FALSE)
      BY <1>2 DEF Pause
    <2>6. cut \in BOOLEAN
      OBVIOUS
    <2> HIDE DEF cut
    <2>7. pc' \in [Runs -> Places] /\ ret' \in [Runs -> Returns] /\ tool' \in [Runs -> Tools]
      BY <2>5, <2>6, StrikeTyped
    <2> QED BY <2>1, <2>3, <2>4, <2>7, OverruleTyped DEF TypeOK
  <1>3. CASE Cancel(r, q)
    <2>1. PICK cut \in BOOLEAN, s \in {"received", "applied"} : Strike(r, cut) /\ Overrule(r, q, s)
      BY <1>3 DEF Cancel
    <2>2. pausing' \in [Runs -> BOOLEAN] /\ cancelling' \in [Runs -> BOOLEAN] /\ scans' \subseteq Runs \X Request /\ cancels' \subseteq Runs \X Request
      BY <1>3 DEF TypeOK, Cancel
    <2> QED BY <2>1, <2>2, StrikeTyped, OverruleTyped DEF TypeOK
  <1>4. CASE AskResume(r, q)
    BY <1>4 DEF TypeOK, AskResume, coVars, recordVars, runVars, ctlVars, denyVars
  <1>5. CASE PauseScans(r, q)
    <2>1. tool' \in [Runs -> Tools]
      BY <1>5, ToolsTyped DEF TypeOK, PauseScans
    <2>2. pc' \in [Runs -> Places] /\ ret' \in [Runs -> Returns]
      BY <1>5, ZenonT(40) DEF TypeOK, PauseScans
    <2>3. scans' \subseteq Runs \X Request /\ UNCHANGED <<recordVars, outcome, plan, managed, asks, cancels>>
      BY <1>5 DEF TypeOK, PauseScans
    <2> QED BY <1>5, <2>1, <2>2, <2>3 DEF TypeOK, recordVars, runVars, ctlVars, denyVars
  <1>6. CASE CancelAnswers(r, q)
    BY <1>6 DEF TypeOK, CancelAnswers, coVars, recordVars, runVars, ctlVars, denyVars
  <1> QED BY <1>1, <1>2, <1>3, <1>4, <1>5, <1>6

(* A resume, in place and by a child. *)
LEMMA ResumeTyped ==
  ASSUME TypeOK, NEW a \in asks, ResumeInPlace(a) \/ \E n \in Runs : ResumeFork(a, n)
  PROVE  TypeOK'
  <1>1. CASE ResumeInPlace(a)
    BY <1>1 DEF TypeOK, ResumeInPlace, denyVars, coVars, handlerVars
  <1>2. ASSUME NEW n \in Runs, ResumeFork(a, n) PROVE TypeOK'
    <2>1. a.run \in Runs /\ a.req \in Request
      BY DEF TypeOK
    <2>2. Carried(a.run) \in [Request -> {"none", "received", "applied", "interrupted"}]
      BY DEF Carried
    <2>3. ctl' \in [Runs -> [Request -> {"none", "received", "applied", "interrupted"}]]
      BY <1>2, <2>1, <2>2 DEF TypeOK, ResumeFork
    <2>4. anc' \in [Runs -> SUBSET Runs] /\ gen' \in [Runs -> Nat] /\ denied' \in [Runs -> BOOLEAN]
      BY <1>2, <2>1 DEF TypeOK, ResumeFork, Denials
    <2> QED BY <1>2, <2>3, <2>4 DEF TypeOK, ResumeFork, handlerVars
  <1> QED BY <1>1, <1>2

(* A turn, an abort, a decision and a restart. *)
LEMMA RunTyped ==
  ASSUME TypeOK, NEW r \in Runs, Submit(r) \/ Abort(r)
  PROVE  TypeOK'
  <1>1. CASE Submit(r)
    BY <1>1 DEF TypeOK, Submit, ctlVars, denyVars, handlerVars
  <1>2. CASE Abort(r)
    BY <1>2, ToolsTyped DEF TypeOK, Abort, Unwind, recordVars, runVars, ctlVars, denyVars, handlerVars
  <1> QED BY <1>1, <1>2

LEMMA DecideTyped ==
  ASSUME TypeOK, NEW r \in Runs, NEW v \in {"accepted", "rejected"}, Decide(r, v)
  PROVE  TypeOK'
  <1>1. tool' = [tool EXCEPT ![r] = [tool[r] EXCEPT !.verdict = v]]
    BY DEF TypeOK, Decide
  <1>2. [tool[r] EXCEPT !.verdict = v] \in Tools
    BY LocalsTyped, ToolUpdated
  <1>3. tool' \in [Runs -> Tools]
    BY <1>1, <1>2 DEF TypeOK
  <1> QED BY <1>3 DEF TypeOK, Decide, recordVars, runVars, ctlVars, denyVars, handlerVars

LEMMA RestartTyped ==
  ASSUME TypeOK, Restart
  PROVE  TypeOK'
  BY ToolsTyped DEF TypeOK, Restart, Recovered, Settled, Told, Steers, denyVars

(* Every step keeps the types. *)
LEMMA NextTyped == TypeOK /\ [Next]_vars => TypeOK'
  <1> SUFFICES ASSUME TypeOK, [Next]_vars PROVE TypeOK'
    OBVIOUS
  <1>1. ASSUME NEW r \in Runs, Step(r) PROVE TypeOK'
    BY <1>1, QueueTyped, BoundaryTyped, ModelTyped, ToolTyped, ApprovalTyped, EffectTyped DEF Step
  <1>2. ASSUME NEW r \in Runs, NEW q \in Request, Handle(r, q) PROVE TypeOK'
    BY <1>2, HandleTyped DEF Handle
  <1>3. CASE UNCHANGED vars
    BY <1>3 DEF TypeOK, vars, recordVars, runVars, ctlVars, denyVars, coVars, handlerVars
  <1> QED BY <1>1, <1>2, <1>3, ResumeTyped, RunTyped, DecideTyped, RestartTyped DEF Next

(* TypeOK: every variable stays within its type, so that no run is ever at a
   place, or in a status, the code does not know. *)
THEOREM TypeCorrect == Spec => []TypeOK
  BY InitTyped, NextTyped, PTL DEF Spec
-----------------------------------------------------------------------------
(* The inductive invariant: what a run's status, the locals of its tool and its
   refusals say of where its coroutine is. *)

\* A run is active while it has a coroutine.
LiveAt(r) ==
  /\ Active(r) <=> pc[r] \notin {"unborn", "over"}
  /\ status[r] = "none" <=> pc[r] = "unborn"

\* A tool that a control has overtaken carries an older generation.
FreshAt(r) ==
  pc[r] \in Acting => /\ tool[r].gen <= gen[r]
                      /\ tool[r].overtaken => tool[r].gen < gen[r]

ParkedAt(r) == status[r] = "paused" => pc[r] \in {"park", "unwind"} /\ pausing[r]

\* Refusals are inherited, and a tool that is under way was not refused.
RefusedAt(r) ==
  /\ refused[r] => denied[r] /\ pc[r] # "unborn"
  /\ \A s \in anc[r] : pc[s] = "over" /\ (refused[s] => denied[r])
  /\ pc[r] \in Acting /\ tool[r].kind # "read" => ~denied[r]

\* What the handlers that wait are there for.
HandlersSound ==
  /\ \A r \in Runs, q \in Request : <<r, q>> \in cancels => Kind[q] = "cancel" /\ pc[r] # "unborn"
  /\ \A a \in asks : Kind[a.req] = "resume"

SoundAt(r) == LiveAt(r) /\ FreshAt(r) /\ ParkedAt(r) /\ RefusedAt(r)

IInv == TypeOK /\ HandlersSound /\ \A r \in Runs : SoundAt(r)

(* A step of the coroutine of a run leaves the others and what the handlers own
   alone; its coroutine was not over. *)
LEMMA StepFrame ==
  ASSUME TypeOK, NEW r \in Runs, Step(r)
  PROVE  /\ UNCHANGED <<gen, ver, pausing, cancelling, anc, handlerVars>>
         /\ pc[r] \notin {"unborn", "over"} /\ pc'[r] # "unborn"
         /\ \A s \in Runs \ {r} : /\ pc'[s] = pc[s] /\ tool'[s] = tool[s] /\ status'[s] = status[s]
                                /\ ctl'[s] = ctl[s] /\ denied'[s] = denied[s] /\ refused'[s] = refused[s]
  <1>1. CASE QueueStep(r)
    BY <1>1 DEF TypeOK, QueueStep, AcquireCancelled, Unwind, recordVars, runVars, ctlVars, denyVars,
         handlerVars, AcquirePaused, Park, Applied, AcquireWait, AcquireTake, Queueing, Woken
  <1>2. CASE BoundaryStep(r)
    BY <1>2 DEF TypeOK, BoundaryStep, BoundaryPause, Park, Applied, denyVars, handlerVars,
         BoundaryCancelled, Unwind, recordVars, runVars, ctlVars, Prepare, PrepareFails, Finish,
         FinishClosing, FinishUnwound, AtBoundary, Woken, Outdated, CutAnswered
  <1>3. CASE ModelStep(r)
    BY <1>3 DEF TypeOK, ModelStep, ModelStart, Pass, Applied, runVars, denyVars, handlerVars,
         ModelReplies, recordVars, ctlVars, ModelFails, Ending, ModelConfirm, ModelCut, Unwind,
         PassVerify, VerifyAccepts, VerifyRetries, VerifyFails, AtBoundary, Woken, Outdated,
         CutAnswered
  <1>4. CASE CallStep(r)
    BY <1>4 DEF TypeOK, CallStep, CallStale, Pass, Applied, runVars, denyVars, handlerVars, CallTool,
         PassResult, ToolRefused, ToolOver, recordVars, ctlVars, ToolBegins, ToolUnwinds, Unwind,
         ToolFails, AtBoundary, Woken, Outdated, CutAnswered
  <1>5. CASE ApprovalStep(r)
    BY <1>5 DEF TypeOK, ApprovalStep, AskApproval, recordVars, runVars, ctlVars, denyVars,
         handlerVars, AskTimeout, ResolveInvalid, Resolve, ToolOver, ResolveRefused, ResolveAccepted,
         AutoApprove
  <1>6. CASE EffectStep(r)
    BY <1>6 DEF TypeOK, EffectStep, Authorize, recordVars, runVars, ctlVars, denyVars, handlerVars,
         ReadEnds, ToolOver, Act, ProcessStarts, CommandEnds
  <1> QED BY <1>1, <1>2, <1>3, <1>4, <1>5, <1>6 DEF Step

(* The step keeps status and coroutine in line, *)
LEMMA StepLive ==
  ASSUME TypeOK, NEW r \in Runs, LiveAt(r), ParkedAt(r), Step(r)
  PROVE  LiveAt(r)'
  <1>1. CASE QueueStep(r)
    BY <1>1 DEF TypeOK, LiveAt, ParkedAt, Active, QueueStep, AcquireCancelled, Unwind, recordVars,
         runVars, ctlVars, denyVars, handlerVars, AcquirePaused, Park, Applied, AcquireWait,
         AcquireTake, Queueing, Woken
  <1>2. CASE BoundaryStep(r)
    <2>1. CASE BoundaryPause(r) \/ BoundaryCancelled(r)
      BY <2>1 DEF TypeOK, LiveAt, ParkedAt, Active, BoundaryPause, Park, BoundaryCancelled, Unwind, recordVars, runVars, AtBoundary, Woken, Outdated, CutAnswered
    <2>2. CASE Prepare(r)
      BY <2>2 DEF TypeOK, LiveAt, ParkedAt, Active, Prepare
    <2>3. CASE PrepareFails(r)
      BY <2>3 DEF TypeOK, LiveAt, ParkedAt, Active, PrepareFails, Finish
    <2>4. CASE FinishClosing(r)
      BY <2>4 DEF TypeOK, LiveAt, ParkedAt, Active, FinishClosing, Finish
    <2>5. CASE FinishUnwound(r)
      BY <2>5 DEF TypeOK, LiveAt, ParkedAt, Active, FinishUnwound, Finish
    <2> QED BY <1>2, <2>1, <2>2, <2>3, <2>4, <2>5 DEF BoundaryStep
  <1>3. CASE ModelStep(r)
    BY <1>3 DEF TypeOK, LiveAt, ParkedAt, Active, ModelStep, ModelStart, Pass, Applied, runVars,
         denyVars, handlerVars, ModelReplies, recordVars, ctlVars, ModelFails, Ending, ModelConfirm,
         ModelCut, Unwind, PassVerify, VerifyAccepts, VerifyRetries, VerifyFails, AtBoundary, Woken,
         Outdated, CutAnswered
  <1>4. CASE CallStep(r)
    BY <1>4 DEF TypeOK, LiveAt, ParkedAt, Active, CallStep, CallStale, Pass, Applied, runVars,
         denyVars, handlerVars, CallTool, PassResult, ToolRefused, ToolOver, recordVars, ctlVars,
         ToolBegins, ToolUnwinds, Unwind, ToolFails, AtBoundary, Woken, Outdated, CutAnswered
  <1>5. CASE ApprovalStep(r)
    BY <1>5 DEF TypeOK, LiveAt, ParkedAt, Active, ApprovalStep, AskApproval, recordVars, runVars,
         ctlVars, denyVars, handlerVars, AskTimeout, ResolveInvalid, Resolve, ToolOver,
         ResolveRefused, ResolveAccepted, AutoApprove
  <1>6. CASE EffectStep(r)
    BY <1>6 DEF TypeOK, LiveAt, ParkedAt, Active, EffectStep, Authorize, recordVars, runVars,
         ctlVars, denyVars, handlerVars, ReadEnds, ToolOver, Act, ProcessStarts, CommandEnds
  <1> QED BY <1>1, <1>2, <1>3, <1>4, <1>5, <1>6 DEF Step

(* parks the run when it says paused, *)
LEMMA StepParked ==
  ASSUME TypeOK, NEW r \in Runs, LiveAt(r), ParkedAt(r), Step(r)
  PROVE  ParkedAt(r)'
  <1>1. CASE QueueStep(r)
    BY <1>1 DEF TypeOK, ParkedAt, QueueStep, AcquireCancelled, Unwind, recordVars, runVars, ctlVars,
         denyVars, handlerVars, AcquirePaused, Park, Applied, AcquireWait, AcquireTake, Queueing,
         Woken
  <1>2. CASE BoundaryStep(r)
    BY <1>2 DEF TypeOK, ParkedAt, BoundaryStep, BoundaryPause, Park, Applied, denyVars, handlerVars,
         BoundaryCancelled, Unwind, recordVars, runVars, ctlVars, Prepare, PrepareFails, Finish,
         FinishClosing, FinishUnwound, AtBoundary, Woken, Outdated, CutAnswered
  <1>3. CASE ModelStep(r)
    BY <1>3 DEF TypeOK, ParkedAt, ModelStep, ModelStart, Pass, Applied, runVars, denyVars,
         handlerVars, ModelReplies, recordVars, ctlVars, ModelFails, Ending, ModelConfirm, ModelCut,
         Unwind, PassVerify, VerifyAccepts, VerifyRetries, VerifyFails, AtBoundary, Woken, Outdated,
         CutAnswered
  <1>4. CASE CallStep(r)
    BY <1>4 DEF TypeOK, ParkedAt, CallStep, CallStale, Pass, Applied, runVars, denyVars, handlerVars,
         CallTool, PassResult, ToolRefused, ToolOver, recordVars, ctlVars, ToolBegins, ToolUnwinds,
         Unwind, ToolFails, AtBoundary, Woken, Outdated, CutAnswered
  <1>5. CASE ApprovalStep(r)
    BY <1>5 DEF TypeOK, ParkedAt, ApprovalStep, AskApproval, recordVars, runVars, ctlVars, denyVars,
         handlerVars, AskTimeout, ResolveInvalid, Resolve, ToolOver, ResolveRefused, ResolveAccepted,
         AutoApprove
  <1>6. CASE EffectStep(r)
    BY <1>6 DEF TypeOK, ParkedAt, EffectStep, Authorize, recordVars, runVars, ctlVars, denyVars,
         handlerVars, ReadEnds, ToolOver, Act, ProcessStarts, CommandEnds
  <1> QED BY <1>1, <1>2, <1>3, <1>4, <1>5, <1>6 DEF Step

(* and gives a tool the generation of the moment it begins. *)
LEMMA StepFresh ==
  ASSUME TypeOK, NEW r \in Runs, FreshAt(r), Step(r)
  PROVE  FreshAt(r)'
  <1>1. CASE QueueStep(r)
    BY <1>1 DEF TypeOK, FreshAt, Tools, QueueStep, AcquireCancelled, Unwind, recordVars, runVars,
         ctlVars, denyVars, handlerVars, AcquirePaused, Park, Applied, AcquireWait, AcquireTake
  <1>2. CASE BoundaryStep(r)
    BY <1>2 DEF TypeOK, FreshAt, Tools, BoundaryStep, BoundaryPause, Park, Applied, denyVars,
         handlerVars, BoundaryCancelled, Unwind, recordVars, runVars, ctlVars, Prepare, PrepareFails,
         Finish, FinishClosing, FinishUnwound
  <1>3. CASE ModelStep(r)
    BY <1>3 DEF TypeOK, FreshAt, Tools, ModelStep, ModelStart, Pass, Applied, runVars, denyVars,
         handlerVars, ModelReplies, recordVars, ctlVars, ModelFails, Ending, ModelConfirm, ModelCut,
         Unwind, PassVerify, VerifyAccepts, VerifyRetries, VerifyFails
  <1>4. CASE CallStep(r)
    BY <1>4 DEF TypeOK, FreshAt, Tools, CallStep, CallStale, Pass, Applied, runVars, denyVars,
         handlerVars, CallTool, PassResult, ToolRefused, ToolOver, recordVars, ctlVars, ToolBegins,
         ToolUnwinds, Unwind, ToolFails
  <1>5. CASE ApprovalStep(r)
    <2>1. CASE AskApproval(r)
      BY <2>1 DEF TypeOK, FreshAt, Tools, AskApproval
    <2>2. CASE AskTimeout(r)
      BY <2>2 DEF TypeOK, FreshAt, Tools, AskTimeout, recordVars, runVars
    <2>3. CASE ResolveInvalid(r) \/ ResolveRefused(r)
      BY <2>3 DEF TypeOK, FreshAt, Tools, ResolveInvalid, ResolveRefused, Resolve, ToolOver
    <2>4. CASE ResolveAccepted(r)
      BY <2>4 DEF TypeOK, FreshAt, Tools, ResolveAccepted, Resolve, ToolOver
    <2>5. CASE AutoApprove(r)
      BY <2>5 DEF TypeOK, FreshAt, Tools, AutoApprove, recordVars, runVars
    <2> QED BY <1>5, <2>1, <2>2, <2>3, <2>4, <2>5 DEF ApprovalStep
  <1>6. CASE EffectStep(r)
    BY <1>6 DEF TypeOK, FreshAt, Tools, EffectStep, Authorize, recordVars, runVars, ctlVars,
         denyVars, handlerVars, ReadEnds, ToolOver, Act, ProcessStarts, CommandEnds
  <1> QED BY <1>1, <1>2, <1>3, <1>4, <1>5, <1>6 DEF Step

(* A refusal is recorded together with the denial that goes with it, and no tool
   begins that the denials cover. *)
LEMMA StepDenied ==
  ASSUME TypeOK, NEW r \in Runs, RefusedAt(r), Step(r)
  PROVE  /\ refused'[r] => denied'[r]
         /\ denied[r] => denied'[r]
         /\ pc'[r] \in Acting /\ tool'[r].kind # "read" => ~denied'[r]
  <1>1. CASE QueueStep(r)
    BY <1>1 DEF TypeOK, RefusedAt, Tools, NoTool, NewTool, QueueStep, AcquireCancelled, Unwind,
         recordVars, runVars, ctlVars, denyVars, handlerVars, AcquirePaused, Park, Applied,
         AcquireWait, AcquireTake
  <1>2. CASE BoundaryStep(r)
    BY <1>2 DEF TypeOK, RefusedAt, Tools, NoTool, NewTool, BoundaryStep, BoundaryPause, Park,
         Applied, denyVars, handlerVars, BoundaryCancelled, Unwind, recordVars, runVars, ctlVars,
         Prepare, PrepareFails, Finish, FinishClosing, FinishUnwound
  <1>3. CASE ModelStep(r)
    BY <1>3 DEF TypeOK, RefusedAt, Tools, NoTool, NewTool, ModelStep, ModelStart, Pass, Applied,
         runVars, denyVars, handlerVars, ModelReplies, recordVars, ctlVars, ModelFails, Ending,
         ModelConfirm, ModelCut, Unwind, PassVerify, VerifyAccepts, VerifyRetries, VerifyFails
  <1>4. CASE CallStep(r)
    BY <1>4 DEF TypeOK, RefusedAt, Tools, NoTool, NewTool, CallStep, CallStale, Pass, Applied,
         runVars, denyVars, handlerVars, CallTool, PassResult, ToolRefused, ToolOver, recordVars,
         ctlVars, ToolBegins, ToolUnwinds, Unwind, ToolFails
  <1>5. CASE ApprovalStep(r)
    BY <1>5 DEF TypeOK, RefusedAt, Tools, NoTool, NewTool, ApprovalStep, AskApproval, recordVars,
         runVars, ctlVars, denyVars, handlerVars, AskTimeout, ResolveInvalid, Resolve, ToolOver,
         ResolveRefused, ResolveAccepted, AutoApprove
  <1>6. CASE EffectStep(r)
    BY <1>6 DEF TypeOK, RefusedAt, Tools, NoTool, NewTool, EffectStep, Authorize, recordVars,
         runVars, ctlVars, denyVars, handlerVars, ReadEnds, ToolOver, Act, ProcessStarts,
         CommandEnds
  <1> QED BY <1>1, <1>2, <1>3, <1>4, <1>5, <1>6 DEF Step

LEMMA StepSound ==
  ASSUME IInv, NEW r \in Runs, Step(r)
  PROVE  HandlersSound' /\ \A s \in Runs : SoundAt(s)'
  <1> USE DEF IInv, SoundAt
  <1>1. HandlersSound'
    BY StepFrame DEF HandlersSound, handlerVars
  <1>2. LiveAt(r)' /\ FreshAt(r)' /\ ParkedAt(r)'
    BY StepLive, StepFresh, StepParked
  <1>3. RefusedAt(r)'
    <2>1. \A s \in anc[r] : s \in Runs \ {r}
      BY StepFrame DEF RefusedAt, TypeOK
    <2> QED BY <2>1, StepFrame, StepDenied DEF RefusedAt, TypeOK
  <1>4. ASSUME NEW s \in Runs \ {r} PROVE SoundAt(s)'
    <2>1. LiveAt(s)' /\ FreshAt(s)' /\ ParkedAt(s)'
      BY StepFrame DEF LiveAt, FreshAt, ParkedAt, Active
    <2>2. \A t \in anc[s] : t \in Runs \ {r}
      BY StepFrame DEF RefusedAt, TypeOK
    <2>3. RefusedAt(s)'
      BY <2>2, StepFrame DEF RefusedAt, TypeOK
    <2> QED BY <2>1, <2>3
  <1> QED BY <1>1, <1>2, <1>3, <1>4

(* A control that overrules the run. *)
LEMMA StrikeSound ==
  ASSUME TypeOK, NEW r \in Runs, NEW cut \in BOOLEAN, Active(r), SoundAt(r), Strike(r, cut)
  PROVE  /\ pc'[r] \notin {"unborn", "over"}
         /\ pc[r] \in {"park", "unwind"} => pc'[r] = pc[r]
         /\ pc'[r] \in Acting => /\ pc[r] \in Acting
                                 /\ tool'[r].gen = tool[r].gen /\ tool'[r].kind = tool[r].kind
         /\ \A s \in Runs \ {r} : pc'[s] = pc[s] /\ tool'[s] = tool[s]
  BY DEF TypeOK, Tools, SoundAt, LiveAt, Strike, Struck

LEMMA OverruleSound ==
  ASSUME IInv, NEW r \in Runs, NEW q \in Request, NEW cut \in BOOLEAN,
         NEW state \in {"received", "applied"}, Overrule(r, q, state), Strike(r, cut)
  PROVE  /\ \A s \in Runs : LiveAt(s)' /\ FreshAt(s)' /\ (refused' = refused => RefusedAt(s)')
         /\ \A s \in Runs : pc[s] # "unborn" => pc'[s] # "unborn"
         /\ \A s \in Runs : (pausing[s] => pausing'[s]) => ParkedAt(s)'
  <1> USE DEF IInv, SoundAt
  <1>1. Active(r)
    BY DEF Overrule
  <1>2. /\ UNCHANGED <<status, anc, denied, refused>>
        /\ gen'[r] = gen[r] + 1 /\ \A s \in Runs \ {r} : gen'[s] = gen[s]
    BY DEF Overrule, denyVars, TypeOK
  <1>3. \A s \in Runs : LiveAt(s)'
    BY <1>1, <1>2, StrikeSound DEF LiveAt, Active
  <1>4. \A s \in Runs : FreshAt(s)'
    <2>1. FreshAt(r)'
      BY <1>1, <1>2, StrikeSound, LocalsTyped DEF FreshAt, Tools
    <2> QED BY <2>1, <1>1, <1>2, StrikeSound DEF FreshAt
  <1>5. \A s \in Runs : RefusedAt(s)'
    <2>1. pc[r] # "over"
      BY <1>1 DEF LiveAt
    <2>2. \A s \in Runs : \A t \in anc[s] : t \in Runs \ {r}
      BY <2>1 DEF RefusedAt, TypeOK
    <2> QED BY <1>1, <1>2, <2>2, StrikeSound DEF RefusedAt
  <1>6. \A s \in Runs : (pausing[s] => pausing'[s]) => ParkedAt(s)'
    BY <1>1, <1>2, StrikeSound DEF ParkedAt
  <1>7. \A s \in Runs : pc[s] # "unborn" => pc'[s] # "unborn"
    BY <1>1, StrikeSound
  <1> QED BY <1>3, <1>4, <1>5, <1>6, <1>7

LEMMA HandleSound ==
  ASSUME IInv, NEW r \in Runs, NEW q \in Request, Handle(r, q)
  PROVE  HandlersSound' /\ \A s \in Runs : SoundAt(s)'
  <1> USE DEF IInv, SoundAt
  <1>1. CASE Steer(r, q)
    <2> DEFINE cut == tool[r].kind = "read"
    <2>1. Overrule(r, q, "received") /\ Strike(r, cut) /\ cut \in BOOLEAN /\ UNCHANGED <<pausing, cancels, asks>>
      BY <1>1 DEF Steer, Overrule
    <2> HIDE DEF cut
    <2>2. refused' = refused
      BY <2>1 DEF Overrule, denyVars
    <2> QED BY <2>1, <2>2, OverruleSound DEF HandlersSound
  <1>2. CASE Pause(r, q)
    <2>1. PICK state \in {"received", "applied"} : Overrule(r, q, state)
      BY <1>2, Zenon DEF Pause
    <2> DEFINE cut == tool[r].kind \in {"read", "command"}
    <2>2. Strike(r, cut) \/ Strike(r, FALSE)
      BY <1>2 DEF Pause
    <2>3. cut \in BOOLEAN
      OBVIOUS
    <2> HIDE DEF cut
    <2>4. UNCHANGED <<cancels, asks, refused>> /\ \A s \in Runs : pausing[s] => pausing'[s]
      BY <1>2, <2>1 DEF Pause, Overrule, denyVars, TypeOK
    <2>5. /\ \A s \in Runs : LiveAt(s)' /\ FreshAt(s)' /\ RefusedAt(s)' /\ ParkedAt(s)'
          /\ \A s \in Runs : pc[s] # "unborn" => pc'[s] # "unborn"
      <3>1. CASE Strike(r, cut)
        BY <2>1, <2>3, <2>4, <3>1, OverruleSound
      <3>2. CASE Strike(r, FALSE)
        BY <2>1, <2>4, <3>2, OverruleSound
      <3> QED BY <2>2, <3>1, <3>2
    <2> QED BY <2>4, <2>5 DEF HandlersSound
  <1>3. CASE Cancel(r, q)
    <2>1. Overrule(r, q, "received") /\ Strike(r, FALSE) /\ UNCHANGED <<pausing, asks>> /\ Kind[q] = "cancel"
      BY <1>3 DEF Cancel, Overrule
    <2>2. cancels' = cancels \cup {<<r, q>>}
      BY <1>3 DEF Cancel
    <2>3. refused' = refused /\ pc[r] # "unborn"
      BY <2>1 DEF Overrule, denyVars, LiveAt
    <2> QED BY <2>1, <2>2, <2>3, OverruleSound DEF HandlersSound
  <1>4. CASE AskResume(r, q) \/ CancelAnswers(r, q)
    <2>1. UNCHANGED <<pc, tool, status, gen, pausing, anc, denied, refused>>
      BY <1>4 DEF AskResume, CancelAnswers, coVars, recordVars, runVars, denyVars
    <2>2. HandlersSound'
      BY <1>4, <2>1 DEF AskResume, CancelAnswers, HandlersSound
    <2> QED BY <2>1, <2>2 DEF LiveAt, FreshAt, ParkedAt, RefusedAt, Active
  <1>5. CASE PauseScans(r, q)
    <2>1. UNCHANGED <<status, gen, pausing, anc, denied, refused, asks, cancels>>
      BY <1>5 DEF PauseScans, recordVars, runVars, denyVars
    <2>2. \/ UNCHANGED <<pc, tool>>
          \/ pc[r] \in Slotted /\ pc' = [pc EXCEPT ![r] = "tool_cut"] /\ tool' = [tool EXCEPT ![r] = NoTool]
      BY <1>5, Zenon DEF PauseScans, At
    <2> QED BY <2>1, <2>2 DEF TypeOK, HandlersSound, LiveAt, FreshAt, ParkedAt, RefusedAt, Active
  <1> QED BY <1>1, <1>2, <1>3, <1>4, <1>5 DEF Handle

(* A new turn, an abort, a decision. *)
LEMMA RunSound ==
  ASSUME IInv, NEW r \in Runs, Submit(r) \/ Abort(r) \/ Decide(r, "accepted") \/ Decide(r, "rejected")
  PROVE  HandlersSound' /\ \A s \in Runs : SoundAt(s)'
  <1> USE DEF IInv, SoundAt
  <1>1. CASE Submit(r)
    <2>1. /\ pc[r] = "unborn" /\ pc' = [pc EXCEPT ![r] = "start"]
          /\ status' = [status EXCEPT ![r] = "created"]
          /\ UNCHANGED <<tool, gen, pausing, anc, denied, refused, asks, cancels>>
      BY <1>1 DEF Submit, Unborn, denyVars, handlerVars
    <2> QED BY <2>1 DEF TypeOK, HandlersSound, LiveAt, FreshAt, ParkedAt, RefusedAt, Active
  <1>2. CASE Abort(r)
    <2>1. pc[r] \notin {"unborn", "over"}
      BY <1>2 DEF Abort, HandlersSound
    <2>2. /\ pc' = [pc EXCEPT ![r] = "unwind"] /\ tool' = [tool EXCEPT ![r] = NoTool]
          /\ UNCHANGED <<status, gen, pausing, anc, denied, refused, asks, cancels>>
      BY <1>2 DEF Abort, Unwind, recordVars, runVars, denyVars, handlerVars
    <2> QED BY <2>1, <2>2 DEF TypeOK, HandlersSound, LiveAt, FreshAt, ParkedAt, RefusedAt, Active
  <1>3. ASSUME NEW v \in {"accepted", "rejected"}, Decide(r, v) PROVE HandlersSound' /\ \A s \in Runs : SoundAt(s)'
    <2>1. /\ pc[r] = "ask" /\ pc' = [pc EXCEPT ![r] = "decided"]
          /\ tool' = [tool EXCEPT ![r].verdict = v]
          /\ status[r] = "waiting_approval"
          /\ UNCHANGED <<status, gen, pausing, anc, denied, refused, asks, cancels>>
      BY <1>3 DEF Decide, recordVars, runVars, denyVars, handlerVars
    <2>2. \A s \in Runs : tool'[s].gen = tool[s].gen /\ tool'[s].overtaken = tool[s].overtaken /\ tool'[s].kind = tool[s].kind
      BY <2>1 DEF TypeOK, Tools
    <2> QED BY <2>1, <2>2 DEF TypeOK, HandlersSound, LiveAt, FreshAt, ParkedAt, RefusedAt, Active
  <1> QED BY <1>1, <1>2, <1>3

(* A resume.  The run that is forked has ended, so its child inherits denials
   that nothing changes any more. *)
LEMMA ResumeSound ==
  ASSUME IInv, NEW a \in asks, ResumeInPlace(a) \/ \E n \in Runs : ResumeFork(a, n)
  PROVE  HandlersSound' /\ \A s \in Runs : SoundAt(s)'
  <1> USE DEF IInv, SoundAt
  <1>1. a.run \in Runs
    BY DEF TypeOK
  <1>2. CASE ResumeInPlace(a)
    <2>1. /\ status[a.run] = "paused" /\ status' = [status EXCEPT ![a.run] = "running"]
          /\ UNCHANGED <<pc, tool, gen, anc, denied, refused, asks, cancels>>
      BY <1>2 DEF ResumeInPlace, denyVars, coVars, handlerVars
    <2>2. \A s \in Runs \ {a.run} : pausing'[s] = pausing[s]
      BY <1>2 DEF ResumeInPlace, TypeOK
    <2> QED BY <1>1, <2>1, <2>2 DEF TypeOK, HandlersSound, LiveAt, FreshAt, ParkedAt, RefusedAt, Active
  <1>3. ASSUME NEW n \in Runs, ResumeFork(a, n) PROVE HandlersSound' /\ \A s \in Runs : SoundAt(s)'
    <2>1. /\ pc[n] = "unborn" /\ pc' = [pc EXCEPT ![n] = "start"]
          /\ status' = [status EXCEPT ![n] = "created"]
          /\ gen' = [gen EXCEPT ![n] = gen[a.run]]
          /\ denied' = [denied EXCEPT ![n] = denied[a.run]]
          /\ anc' = [anc EXCEPT ![n] = anc[a.run] \cup {a.run}]
          /\ UNCHANGED <<tool, pausing, refused, asks, cancels>>
      BY <1>3 DEF ResumeFork, Unborn, Denials, handlerVars
    <2>2. pc[a.run] = "over" /\ a.run # n
      <3>1. status[a.run] \in {"interrupted", "cancelled"}
        BY <1>3 DEF ResumeFork, Resumable
      <3> QED BY <1>1, <2>1, <3>1 DEF LiveAt, Active
    <2>3. \A s \in Runs : \A t \in anc[s] : t \in Runs \ {n}
      BY <2>1 DEF RefusedAt, TypeOK
    <2>4. RefusedAt(n)'
      BY <1>1, <2>1, <2>2, <2>3 DEF RefusedAt, TypeOK
    <2>5. \A s \in Runs \ {n} : RefusedAt(s)'
      BY <2>1, <2>3 DEF RefusedAt, TypeOK
    <2>6. \A s \in Runs : LiveAt(s)' /\ FreshAt(s)' /\ ParkedAt(s)'
      BY <1>1, <2>1 DEF LiveAt, FreshAt, ParkedAt, Active, TypeOK
    <2>7. HandlersSound'
      BY <2>1 DEF HandlersSound, TypeOK
    <2> QED BY <2>4, <2>5, <2>6, <2>7
  <1> QED BY <1>2, <1>3

(* A restart ends every coroutine and every handler. *)
LEMMA RestartSound ==
  ASSUME IInv, Restart
  PROVE  HandlersSound' /\ \A s \in Runs : SoundAt(s)'
  <1> USE DEF IInv, SoundAt
  <1>1. /\ UNCHANGED <<gen, pausing, anc, denied, refused>> /\ asks' = {} /\ cancels' = {}
        /\ \A s \in Runs : pc'[s] = IF pc[s] # "unborn" THEN "over" ELSE "unborn"
        /\ \A s \in Runs : status'[s] = IF Active(s) THEN "interrupted" ELSE status[s]
    BY DEF Restart, Recovered, Born, denyVars
  <1>2. \A s \in Runs : LiveAt(s)'
    BY <1>1 DEF LiveAt, Active
  <1> QED BY <1>1, <1>2 DEF HandlersSound, FreshAt, ParkedAt, RefusedAt, Active, TypeOK

LEMMA InitSound == Init => IInv
  <1> SUFFICES ASSUME Init PROVE IInv
    OBVIOUS
  <1>1. HandlersSound /\ \A r \in Runs : SoundAt(r)
    BY DEF Init, HandlersSound, SoundAt, LiveAt, FreshAt, ParkedAt, RefusedAt, Active
  <1> QED BY <1>1, InitTyped DEF IInv

LEMMA NextSound == IInv /\ [Next]_vars => IInv'
  <1> SUFFICES ASSUME IInv, [Next]_vars PROVE IInv'
    OBVIOUS
  <1>1. TypeOK'
    BY NextTyped DEF IInv
  <1>2. CASE UNCHANGED vars
    BY <1>1, <1>2 DEF IInv, HandlersSound, SoundAt, LiveAt, FreshAt, ParkedAt, RefusedAt, Active,
       vars, recordVars, runVars, ctlVars, denyVars, coVars, handlerVars
  <1>3. CASE Next
    <2>1. ASSUME NEW r \in Runs, Submit(r) \/ Step(r) \/ Abort(r) PROVE IInv'
      BY <1>1, <2>1, RunSound, StepSound DEF IInv
    <2>2. ASSUME NEW r \in Runs, NEW v \in {"accepted", "rejected"}, Decide(r, v) PROVE IInv'
      BY <1>1, <2>2, RunSound DEF IInv
    <2>3. ASSUME NEW r \in Runs, NEW q \in Request, Handle(r, q) PROVE IInv'
      BY <1>1, <2>3, HandleSound DEF IInv
    <2> QED BY <1>1, <1>3, <2>1, <2>2, <2>3, ResumeSound, RestartSound DEF Next, IInv
  <1> QED BY <1>2, <1>3

LEMMA Inductive == Spec => []IInv
  BY InitSound, NextSound, PTL DEF Spec

-----------------------------------------------------------------------------
(* Who may change a status: a run that is active, or the first step of a run
   in a session that is idle. *)
LEMMA StatusMoves ==
  ASSUME IInv, [Next]_vars
  PROVE  \/ \A s \in Runs : status'[s] = status[s] \/ (Active(s) /\ ~(status[s] \in FinalStatus))
         \/ \E n \in Runs : /\ SessionIdle /\ status[n] = "none"
                            /\ \A s \in Runs \ {n} : status'[s] = status[s]
  <1> USE DEF IInv, SoundAt
  <1>1. \A s \in Runs : Active(s) => ~(status[s] \in FinalStatus)
    BY DEF Active
  <1>2. ASSUME NEW r \in Runs, Step(r) PROVE \A s \in Runs : status'[s] = status[s] \/ Active(s)
    BY <1>2, StepFrame DEF LiveAt
  <1>3. ASSUME NEW r \in Runs, NEW q \in Request, Handle(r, q) PROVE UNCHANGED status
    BY <1>3 DEF Handle, Steer, Pause, Cancel, Overrule, AskResume, PauseScans, CancelAnswers, recordVars, runVars
  <1>4. ASSUME NEW r \in Runs, Abort(r) \/ Decide(r, "accepted") \/ Decide(r, "rejected") PROVE UNCHANGED status
    BY <1>4 DEF Abort, Unwind, Decide, recordVars, runVars
  <1>5. ASSUME NEW n \in Runs, Submit(n) \/ \E a \in asks : ResumeFork(a, n)
        PROVE  SessionIdle /\ status[n] = "none" /\ \A s \in Runs \ {n} : status'[s] = status[s]
    <2>1. SessionIdle /\ pc[n] = "unborn" /\ status' = [status EXCEPT ![n] = "created"]
      BY <1>5 DEF Submit, ResumeFork, Unborn
    <2> QED BY <2>1 DEF LiveAt, TypeOK
  <1>6. ASSUME NEW a \in asks, ResumeInPlace(a) PROVE \A s \in Runs : status'[s] = status[s] \/ Active(s)
    BY <1>6 DEF ResumeInPlace, Active, TypeOK
  <1>7. ASSUME Restart PROVE \A s \in Runs : status'[s] = status[s] \/ Active(s)
    BY <1>7 DEF Restart, Recovered
  <1>8. ASSUME UNCHANGED vars PROVE UNCHANGED status
    BY <1>8 DEF vars, recordVars, runVars
  <1> QED BY <1>1, <1>2, <1>3, <1>4, <1>5, <1>6, <1>7, <1>8 DEF Next

(* NoLateEffect: a tool that a control has overtaken changes nothing.  Its
   generation is older than the run's, and the guard compares them. *)
THEOREM LateEffectsAreStopped == Spec => NoLateEffect
  <1>1. IInv /\ [Next]_vars => [\A r \in Runs : Act(r) => ~tool[r].overtaken]_vars
    BY DEF IInv, SoundAt, FreshAt, Act, Guard, TypeOK, Tools
  <1> QED BY <1>1, Inductive, PTL DEF Spec, NoLateEffect

(* RefusalHolds: what the user has refused is not carried out, neither in the
   run nor in one that is resumed from it. *)
THEOREM RefusalsHold == Spec => RefusalHolds
  <1>1. IInv /\ [Next]_vars => [\A r \in Runs : Act(r) => \A s \in anc[r] \cup {r} : ~refused[s]]_vars
    BY DEF IInv, SoundAt, RefusedAt, Act
  <1> QED BY <1>1, Inductive, PTL DEF Spec, RefusalHolds

(* PausedIsParked: while the record says paused the coroutine is parked. *)
THEOREM PausedRunsAreParked == Spec => []PausedIsParked
  <1>1. IInv => PausedIsParked
    BY DEF IInv, SoundAt, ParkedAt, PausedIsParked
  <1> QED BY <1>1, Inductive, PTL

(* OneActiveRun: a session never has two active runs. *)
THEOREM SessionsAreSequential == Spec => []OneActiveRun
  <1>1. Init => OneActiveRun
    BY DEF Init, OneActiveRun, Active
  <1>2. IInv /\ OneActiveRun /\ [Next]_vars => OneActiveRun'
    BY StatusMoves DEF OneActiveRun, SessionIdle, Active
  <1> QED BY <1>1, <1>2, Inductive, PTL DEF Spec

(* FinalIsFinal: the status of a run that has ended does not change. *)
THEOREM EndedRunsAreLeftAlone == Spec => FinalIsFinal
  <1>1. IInv /\ [Next]_vars => [\A r \in Runs : status[r] \in FinalStatus => status'[r] = status[r]]_vars
    BY StatusMoves
  <1> QED BY <1>1, Inductive, PTL DEF Spec, FinalIsFinal

-----------------------------------------------------------------------------
(* Steers.  Nothing is taken out of the history, and a step after which a run
   is no longer active is its Finish. *)
LEMMA StepSteers ==
  ASSUME TypeOK, NEW r \in Runs, Active(r), ParkedAt(r), Step(r)
  PROVE  /\ ctx \subseteq ctx'
         /\ ~Active(r)' => ctl'[r] = Settled(r) /\ Told(r) \subseteq ctx'
  <1> DEFINE Kept == ctx \subseteq ctx' /\ Active(r)'
  <1>1. CASE QueueStep(r)
    <2>1. Kept
      BY <1>1 DEF TypeOK, Active, QueueStep, AcquireCancelled, Unwind, recordVars, runVars, ctlVars,
           AcquirePaused, Park, AcquireWait, AcquireTake
    <2> QED BY <2>1
  <1>2. CASE BoundaryStep(r)
    <2>1. ASSUME NEW s, Finish(r, s) PROVE ctx \subseteq ctx' /\ ctl'[r] = Settled(r) /\ Told(r) \subseteq ctx'
      BY <2>1 DEF TypeOK, Finish
    <2>2. CASE BoundaryPause(r) \/ BoundaryCancelled(r) \/ Prepare(r)
      <3>1. Kept
        BY <2>2 DEF TypeOK, Active, BoundaryPause, Park, BoundaryCancelled, Unwind, Prepare, recordVars, runVars, ctlVars
      <3> QED BY <3>1
    <2> QED BY <1>2, <2>1, <2>2 DEF BoundaryStep, PrepareFails, FinishClosing, FinishUnwound
  <1>3. CASE ModelStep(r)
    <2>1. Kept
      BY <1>3 DEF Active, ModelStep, ModelStart, Pass, ModelReplies, ModelFails, ModelConfirm, ModelCut,
           Unwind, PassVerify, VerifyAccepts, VerifyRetries, VerifyFails, recordVars, runVars, ctlVars
    <2> QED BY <2>1
  <1>4. CASE CallStep(r)
    <2>1. Kept
      BY <1>4 DEF Active, CallStep, CallStale, Pass, CallTool, PassResult, ToolRefused, ToolBegins,
           ToolUnwinds, Unwind, ToolFails, recordVars, runVars, ctlVars
    <2> QED BY <2>1
  <1>5. CASE ApprovalStep(r)
    <2>1. Kept
      BY <1>5 DEF TypeOK, Active, ApprovalStep, AskApproval, AskTimeout, Resolve, ResolveInvalid,
           ResolveRefused, ResolveAccepted, AutoApprove, recordVars, runVars, ctlVars
    <2> QED BY <2>1
  <1>6. CASE EffectStep(r)
    <2>1. Kept
      BY <1>6 DEF Active, EffectStep, Authorize, ReadEnds, Act, CommandEnds, recordVars, runVars, ctlVars
    <2> QED BY <2>1
  <1> QED BY <1>1, <1>2, <1>3, <1>4, <1>5, <1>6 DEF Step

\* A handler changes the records of an active run, or the record of a cancel.
LEMMA HandleSteers ==
  ASSUME IInv, NoSteerLost, NEW r \in Runs, NEW q \in Request, Handle(r, q)
  PROVE  NoSteerLost'
  <1>1. CASE Steer(r, q) \/ Pause(r, q) \/ Cancel(r, q)
    <2>1. PICK state \in {"received", "applied"} : Overrule(r, q, state)
      BY <1>1, Zenon DEF Steer, Pause, Cancel
    <2>2. Active(r) /\ UNCHANGED <<status, ctx>> /\ \A s \in Runs \ {r} : ctl'[s] = ctl[s]
      BY <2>1 DEF Overrule, IInv, TypeOK
    <2> QED BY <2>2 DEF NoSteerLost, Active
  <1>2. CASE AskResume(r, q) \/ PauseScans(r, q)
    BY <1>2 DEF AskResume, PauseScans, NoSteerLost, Active, recordVars, runVars, ctlVars
  <1>3. CASE CancelAnswers(r, q)
    <2>1. Kind[q] = "cancel" /\ UNCHANGED <<status, ctx>> /\ ctl' = [ctl EXCEPT ![r][q] = "applied"]
      BY <1>3 DEF CancelAnswers, IInv, HandlersSound, runVars
    <2>2. \A s \in Runs, p \in Steers : ctl'[s][p] = ctl[s][p]
      BY <2>1 DEF Steers, IInv, TypeOK
    <2> QED BY <2>1, <2>2 DEF NoSteerLost, Active
  <1> QED BY <1>1, <1>2, <1>3 DEF Handle

\* A resume changes its own record and those of a run that becomes active.
LEMMA ResumeSteers ==
  ASSUME IInv, NoSteerLost, NEW a \in asks, ResumeInPlace(a) \/ \E n \in Runs : ResumeFork(a, n)
  PROVE  NoSteerLost'
  <1>1. a.run \in Runs /\ a.req \in Request /\ a.req \notin Steers
    BY DEF IInv, TypeOK, HandlersSound, Steers
  <1>2. CASE ResumeInPlace(a)
    <2>1. /\ status' = [status EXCEPT ![a.run] = "running"] /\ ctx' = ctx
          /\ ctl' = [ctl EXCEPT ![a.run][a.req] = "applied"]
      BY <1>2 DEF ResumeInPlace
    <2> QED BY <1>1, <2>1 DEF NoSteerLost, Active, IInv, TypeOK, Steers
  <1>3. ASSUME NEW n \in Runs, ResumeFork(a, n) PROVE NoSteerLost'
    <2>1. /\ status' = [status EXCEPT ![n] = "created"] /\ ctx' = ctx
          /\ ctl' = [ctl EXCEPT ![a.run][a.req] = "applied", ![n] = Carried(a.run)]
      BY <1>3 DEF ResumeFork
    <2>2. \A s \in Runs \ {n}, q \in Steers : ctl'[s][q] = ctl[s][q] /\ status'[s] = status[s]
      BY <1>1, <2>1 DEF IInv, TypeOK, Steers
    <2>3. Active(n)'
      BY <2>1 DEF Active, IInv, TypeOK
    <2>4. \A s \in Runs \ {n}, q \in Steers :
             ctl'[s][q] # "none" /\ ~Active(s)' => q \in ctx' /\ ctl'[s][q] # "received"
      BY <2>1, <2>2, ZenonT(40) DEF NoSteerLost, Active
    <2> QED BY <2>3, <2>4 DEF NoSteerLost, Active
  <1> QED BY <1>2, <1>3

\* A restart settles every run that was active.
LEMMA RestartSteers ==
  ASSUME IInv, NoSteerLost, Restart
  PROVE  NoSteerLost'
  <1> SUFFICES ASSUME NEW r \in Runs, NEW q \in Steers, ctl'[r][q] # "none"
               PROVE  q \in ctx' /\ ctl'[r][q] # "received"
    BY DEF NoSteerLost
  <1>1. /\ ctl'[r] = IF Active(r) THEN Settled(r) ELSE ctl[r]
        /\ ctx \subseteq ctx' /\ (Active(r) => Told(r) \subseteq ctx')
    BY DEF Restart
  <1>2. CASE Active(r)
    BY <1>1, <1>2 DEF Settled, Told, Steers
  <1>3. CASE ~Active(r)
    BY <1>1, <1>3 DEF NoSteerLost
  <1> QED BY <1>2, <1>3

(* NoSteerLost: a run that has ended has settled each of its steers and left its
   message in the history. *)
THEOREM SteersAreKept == Spec => []NoSteerLost
  <1>1. Init => NoSteerLost
    BY DEF Init, NoSteerLost, Steers
  <1>2. IInv /\ NoSteerLost /\ [Next]_vars => NoSteerLost'
    <2> SUFFICES ASSUME IInv, NoSteerLost, [Next]_vars PROVE NoSteerLost'
      OBVIOUS
    <2>1. ASSUME NEW r \in Runs, Step(r) PROVE NoSteerLost'
      <3>1. Active(r) /\ ParkedAt(r) /\ TypeOK
        BY <2>1, StepFrame DEF IInv, SoundAt, LiveAt
      <3>2. ctx \subseteq ctx' /\ (~Active(r)' => ctl'[r] = Settled(r) /\ Told(r) \subseteq ctx')
        BY <2>1, <3>1, StepSteers
      <3>3. \A q \in Steers : ctl'[r][q] # "none" /\ ~Active(r)' => q \in ctx' /\ ctl'[r][q] # "received"
        BY <3>2 DEF Settled, Told, Steers
      <3>4. \A s \in Runs \ {r} : ctl'[s] = ctl[s] /\ status'[s] = status[s]
        BY <2>1, <3>1, StepFrame
      <3> QED BY <3>2, <3>3, <3>4 DEF NoSteerLost, Active
    <2>2. ASSUME NEW r \in Runs, Abort(r) \/ Decide(r, "accepted") \/ Decide(r, "rejected") PROVE NoSteerLost'
      BY <2>2 DEF Abort, Unwind, Decide, NoSteerLost, Active, recordVars, runVars, ctlVars
    <2>3. ASSUME NEW n \in Runs, Submit(n) PROVE NoSteerLost'
      BY <2>3 DEF Submit, NoSteerLost, Active, ctlVars, IInv, TypeOK
    <2>4. CASE UNCHANGED vars
      BY <2>4 DEF NoSteerLost, Active, vars, recordVars, runVars, ctlVars
    <2> QED BY <2>1, <2>2, <2>3, <2>4, HandleSteers, ResumeSteers, RestartSteers DEF Next
  <1> QED BY <1>1, <1>2, Inductive, PTL DEF Spec

-----------------------------------------------------------------------------
(* What the model had been told when it was asked.  A response stays in use, at
   the places below, until the next request; while no control comes in between,
   the steers it saw are all there are. *)
InUse(r) ==
  \/ pc[r] \in Slotted \cup {"model", "model_done", "tool_cut", "verify"}
  \/ pc[r] \in {"boundary", "park"} /\ ret[r] \in {"call", "result", "verify"}

SeenAt(r) ==
  /\ plan[r] <= gen[r]
  /\ pc[r] = "unborn" => plan[r] = 0
  /\ pc[r] # "over" => \A q \in Steers : ctl[r][q] # "interrupted"
  /\ InUse(r) /\ plan[r] = gen[r] => \A q \in Steers : ctl[r][q] # "none" => ctl[r][q] = "applied" /\ q \in ctx

\* What a step that is no new request has to show: the plan and the controls
\* are as they were but for applied steers, the history only grows, and no
\* response comes into use.
LEMMA StaysSeen ==
  ASSUME TypeOK, NEW r \in Runs, SeenAt(r), ctx \subseteq ctx', UNCHANGED <<plan[r], gen[r]>>,
         \A q \in Request : ctl'[r][q] = ctl[r][q] \/ (ctl[r][q] = "received" /\ ctl'[r][q] = "applied"),
         pc'[r] # "unborn", pc'[r] # "over" => pc[r] # "over", InUse(r)' => InUse(r) \/ plan[r] # gen[r]
  PROVE  SeenAt(r)'
  BY DEF SeenAt, Steers, TypeOK

\* A run of which nothing has changed but the history.
LEMMA OthersSeen ==
  ASSUME NEW r \in Runs, SeenAt(r), ctx \subseteq ctx',
         UNCHANGED <<plan[r], gen[r], ctl[r], pc[r], ret[r]>>
  PROVE  SeenAt(r)'
  BY DEF SeenAt, InUse

LEMMA AppliedSettles ==
  ASSUME TypeOK, NEW r \in Runs, NEW S, Applied(r, S)
  PROVE  /\ \A q \in Request : ctl'[r][q] = ctl[r][q] \/ (ctl[r][q] = "received" /\ ctl'[r][q] = "applied")
         /\ "steer" \in S => \A q \in Steers : ctl'[r][q] # "received"
  BY DEF Applied, TypeOK, Steers

LEMMA StepPlanFrame ==
  ASSUME TypeOK, NEW r \in Runs, Step(r)
  PROVE  ctx \subseteq ctx' /\ \A s \in Runs \ {r} : plan'[s] = plan[s] /\ ret'[s] = ret[s]
  <1>1. CASE QueueStep(r)
    BY <1>1 DEF TypeOK, QueueStep, AcquireCancelled, Unwind, recordVars, ctlVars, AcquirePaused, Park, AcquireWait, AcquireTake
  <1>2. CASE BoundaryStep(r)
    BY <1>2 DEF TypeOK, BoundaryStep, BoundaryPause, Park, BoundaryCancelled, Unwind, recordVars, ctlVars,
         Prepare, PrepareFails, Finish, FinishClosing, FinishUnwound
  <1>3. CASE ModelStep(r)
    BY <1>3 DEF TypeOK, ModelStep, ModelStart, ModelReplies, recordVars, ctlVars, ModelFails, Ending,
         ModelConfirm, ModelCut, Unwind, PassVerify, VerifyAccepts, VerifyRetries, VerifyFails
  <1>4. CASE CallStep(r)
    BY <1>4 DEF TypeOK, CallStep, CallStale, CallTool, PassResult, ToolRefused, ToolOver, recordVars,
         ctlVars, ToolBegins, ToolUnwinds, Unwind, ToolFails
  <1>5. CASE ApprovalStep(r)
    BY <1>5 DEF TypeOK, ApprovalStep, AskApproval, recordVars, ctlVars, AskTimeout, ResolveInvalid,
         Resolve, ToolOver, ResolveRefused, ResolveAccepted, AutoApprove
  <1>6. CASE EffectStep(r)
    BY <1>6 DEF TypeOK, EffectStep, Authorize, recordVars, ctlVars, ReadEnds, ToolOver, Act, ProcessStarts, CommandEnds
  <1> QED BY <1>1, <1>2, <1>3, <1>4, <1>5, <1>6 DEF Step

\* The request itself: it takes up the generation, applies the steers that are
\* left and puts all of them in the history.
LEMMA StartSeen ==
  ASSUME TypeOK, NEW r \in Runs, SeenAt(r), ModelStart(r)
  PROVE  SeenAt(r)'
  <1>1. /\ Applied(r, {"steer"}) /\ UNCHANGED gen /\ plan'[r] = gen[r]
        /\ ctx' = ctx \cup Told(r) /\ pc[r] # "over" /\ pc'[r] = "model"
    BY DEF ModelStart, Pass, runVars, TypeOK, AtBoundary, Woken, Outdated, CutAnswered
  <1>2. \A q \in Steers : q \in Request /\ (ctl'[r][q] # "none" => ctl[r][q] # "none")
    BY <1>1, AppliedSettles DEF Steers
  <1>3. ASSUME NEW q \in Steers PROVE ctl'[r][q] \in {"none", "applied"}
    <2>1. ctl[r][q] \in {"none", "received", "applied"}
      BY <1>1, <1>2 DEF SeenAt, TypeOK
    <2>2. ctl'[r][q] # "received" /\ (ctl'[r][q] = ctl[r][q] \/ ctl'[r][q] = "applied")
      BY <1>1, <1>2, AppliedSettles
    <2> QED BY <2>1, <2>2
  <1>4. \A q \in Steers : ctl'[r][q] # "none" => q \in ctx'
    BY <1>1, <1>2 DEF Told
  <1>5. plan'[r] <= gen'[r]
    BY <1>1 DEF TypeOK
  <1> QED BY <1>1, <1>3, <1>4, <1>5 DEF SeenAt

LEMMA StepSeen ==
  ASSUME TypeOK, NEW r \in Runs, SeenAt(r), pc[r] # "over", Step(r)
  PROVE  SeenAt(r)'
  <1> DEFINE Settles == \A q \in Request : ctl'[r][q] = ctl[r][q] \/ (ctl[r][q] = "received" /\ ctl'[r][q] = "applied")
             Uses == InUse(r)' => InUse(r) \/ plan[r] # gen[r]
  <1>a. ctx \subseteq ctx' /\ UNCHANGED gen /\ pc'[r] # "unborn"
    BY StepPlanFrame, StepFrame
  <1>b. ASSUME UNCHANGED plan, Settles, Uses PROVE SeenAt(r)'
    BY <1>a, <1>b, StaysSeen
  <1>1. CASE QueueStep(r)
    <2>1. UNCHANGED plan
      BY <1>1 DEF QueueStep, AcquireCancelled, Unwind, AcquirePaused, Park, AcquireWait, AcquireTake
    <2>2. Settles
      BY <1>1, AppliedSettles DEF QueueStep, AcquireCancelled, Unwind, recordVars, ctlVars, AcquirePaused, Park, AcquireWait, AcquireTake
    <2>3. Uses
      BY <1>1 DEF InUse, TypeOK, QueueStep, AcquireCancelled, Unwind, AcquirePaused, Park, AcquireWait, AcquireTake
    <2> QED BY <2>1, <2>2, <2>3, <1>b
  <1>2. CASE BoundaryStep(r)
    <2>1. ASSUME NEW s, Finish(r, s) PROVE SeenAt(r)'
      <3>1. pc'[r] = "over" /\ plan'[r] = 0
        BY <2>1 DEF Finish, TypeOK
      <3> QED BY <3>1, <1>a DEF SeenAt, InUse, TypeOK
    <2>2. CASE BoundaryPause(r)
      <3>1. UNCHANGED plan /\ Settles
        BY <2>2, AppliedSettles DEF BoundaryPause, Park
      <3>2. Uses
        BY <2>2 DEF BoundaryPause, Park, InUse, TypeOK, AtBoundary, Woken, Outdated, CutAnswered
      <3> QED BY <3>1, <3>2, <1>b
    <2>3. CASE BoundaryCancelled(r)
      <3>1. UNCHANGED plan /\ Settles /\ Uses
        BY <2>3 DEF BoundaryCancelled, Unwind, InUse, TypeOK, recordVars, ctlVars
      <3> QED BY <3>1, <1>b
    <2>4. CASE Prepare(r)
      <3>1. UNCHANGED plan /\ Settles /\ Uses
        BY <2>4 DEF Prepare, InUse, TypeOK, ctlVars
      <3> QED BY <3>1, <1>b
    <2> QED BY <1>2, <2>1, <2>2, <2>3, <2>4 DEF BoundaryStep, PrepareFails, FinishClosing, FinishUnwound
  <1>3. CASE ModelStep(r)
    <2>1. CASE ModelStart(r)
      BY <2>1, StartSeen
    <2>2. CASE PassVerify(r)
      <3>1. UNCHANGED plan /\ Settles
        BY <2>2, AppliedSettles DEF PassVerify, Pass
      <3>2. Uses
        BY <2>2 DEF PassVerify, Pass, InUse, TypeOK, AtBoundary, Woken, Outdated, CutAnswered
      <3> QED BY <3>1, <3>2, <1>b
    <2>3. CASE ModelReplies(r) \/ ModelFails(r) \/ ModelConfirm(r) \/ ModelCut(r) \/ VerifyAccepts(r) \/ VerifyRetries(r) \/ VerifyFails(r)
      <3>1. UNCHANGED plan /\ Settles
        BY <2>3 DEF ModelReplies, ModelFails, Ending, ModelConfirm, ModelCut, Unwind, VerifyAccepts, VerifyRetries, VerifyFails, recordVars, ctlVars
      <3>2. Uses
        BY <2>3 DEF ModelReplies, ModelFails, Ending, ModelConfirm, ModelCut, Unwind, VerifyAccepts, VerifyRetries, VerifyFails, InUse, TypeOK
      <3> QED BY <3>1, <3>2, <1>b
    <2> QED BY <1>3, <2>1, <2>2, <2>3 DEF ModelStep
  <1>4. CASE CallStep(r)
    <2>1. CASE CallStale(r) \/ CallTool(r) \/ PassResult(r)
      <3>1. UNCHANGED plan /\ Settles
        BY <2>1, AppliedSettles DEF CallStale, CallTool, PassResult, Pass
      <3>2. Uses
        BY <2>1 DEF CallStale, CallTool, PassResult, Pass, InUse, TypeOK, AtBoundary, Woken, Outdated, CutAnswered
      <3> QED BY <3>1, <3>2, <1>b
    <2>2. CASE ToolRefused(r) \/ ToolBegins(r) \/ ToolUnwinds(r) \/ ToolFails(r)
      <3>1. UNCHANGED plan /\ Settles
        BY <2>2 DEF ToolRefused, ToolBegins, ToolUnwinds, ToolFails, ToolOver, Unwind, recordVars, ctlVars
      <3>2. Uses
        BY <2>2 DEF ToolRefused, ToolBegins, ToolUnwinds, ToolFails, ToolOver, Unwind, InUse, TypeOK
      <3> QED BY <3>1, <3>2, <1>b
    <2> QED BY <1>4, <2>1, <2>2 DEF CallStep
  <1>5. CASE ApprovalStep(r)
    <2>1. UNCHANGED plan /\ Settles
      BY <1>5 DEF ApprovalStep, AskApproval, AskTimeout, ResolveInvalid, Resolve, ResolveRefused, ResolveAccepted, AutoApprove, recordVars, ctlVars
    <2>2. Uses
      BY <1>5 DEF ApprovalStep, AskApproval, AskTimeout, ResolveInvalid, Resolve, ToolOver, ResolveRefused, ResolveAccepted, AutoApprove, InUse, TypeOK
    <2> QED BY <2>1, <2>2, <1>b
  <1>6. CASE EffectStep(r)
    <2>1. UNCHANGED plan /\ Settles
      BY <1>6 DEF EffectStep, Authorize, ReadEnds, Act, CommandEnds, recordVars, ctlVars
    <2>2. Uses
      BY <1>6 DEF EffectStep, Authorize, ReadEnds, ToolOver, Act, ProcessStarts, CommandEnds, InUse, TypeOK
    <2> QED BY <2>1, <2>2, <1>b
  <1> QED BY <1>1, <1>2, <1>3, <1>4, <1>5, <1>6 DEF Step

\* A control that overrules a run leaves every response of it outdated; the
\* handlers that wait cut a tool or answer a cancel.
LEMMA HandleSeen ==
  ASSUME IInv, \A s \in Runs : SeenAt(s), NEW r \in Runs, NEW q \in Request, Handle(r, q)
  PROVE  \A s \in Runs : SeenAt(s)'
  <1> USE DEF IInv
  <1>1. CASE Steer(r, q) \/ Pause(r, q) \/ Cancel(r, q)
    <2>1. PICK state \in {"received", "applied"} : Overrule(r, q, state)
      BY <1>1, Zenon DEF Steer, Pause, Cancel
    <2>2. PICK cut \in BOOLEAN : Strike(r, cut)
      <3> DEFINE c == tool[r].kind \in {"read", "command"}
      <3>1. Strike(r, tool[r].kind = "read") \/ Strike(r, c) \/ Strike(r, FALSE)
        BY <1>1 DEF Steer, Pause, Cancel
      <3>2. c \in BOOLEAN
        OBVIOUS
      <3> QED BY <3>1, <3>2
    <2>3. \A s \in Runs \ {r} : UNCHANGED <<plan[s], gen[s], ctl[s], pc[s], ret[s]>>
      BY <2>1, <2>2 DEF Overrule, Strike, TypeOK
    <2>4. /\ plan'[r] = plan[r] /\ gen'[r] = gen[r] + 1 /\ ctx' = ctx /\ pc[r] # "over"
          /\ \A p \in Steers : ctl'[r][p] = ctl[r][p] \/ ctl'[r][p] = state
      BY <2>1 DEF Overrule, TypeOK, Steers, SoundAt, LiveAt
    <2>5. plan'[r] < gen'[r] /\ \A p \in Steers : ctl'[r][p] # "interrupted"
      <3>1. plan[r] \in Nat /\ gen[r] \in Nat
        BY DEF TypeOK
      <3>2. plan[r] =< gen[r] /\ \A p \in Steers : ctl[r][p] # "interrupted"
        BY <2>4 DEF SeenAt
      <3>3. state # "interrupted"
        BY <2>1
      <3>4. plan'[r] < gen'[r]
        BY <2>4, <3>1, <3>2
      <3>5. \A p \in Steers : ctl'[r][p] # "interrupted"
        BY <2>4, <3>2, <3>3
      <3> QED BY <3>4, <3>5
    <2>6. SeenAt(r)'
      BY <2>1, <2>2, <2>4, <2>5 DEF SeenAt, TypeOK, Overrule, Strike
    <2> QED BY <2>3, <2>4, <2>6, OthersSeen
  <1>2. CASE AskResume(r, q)
    <2>1. UNCHANGED <<recordVars, coVars>>
      BY <1>2 DEF AskResume
    <2> QED BY <2>1, OthersSeen DEF recordVars, runVars, ctlVars, coVars
  <1>3. CASE PauseScans(r, q)
    <2>1. UNCHANGED <<plan, gen, ctl, ctx>> /\ \A s \in Runs \ {r} : UNCHANGED <<pc[s], ret[s]>>
      BY <1>3 DEF PauseScans, TypeOK, recordVars, runVars, ctlVars
    <2>2. (InUse(r)' => InUse(r)) /\ (pc'[r] # "over" => pc[r] # "over") /\ (pc'[r] = "unborn" => pc[r] = "unborn")
      BY <1>3 DEF PauseScans, InUse, TypeOK
    <2>3. SeenAt(r)'
      BY <2>1, <2>2 DEF SeenAt
    <2> QED BY <2>1, <2>3, OthersSeen
  <1>4. CASE CancelAnswers(r, q)
    <2>1. /\ Kind[q] = "cancel" /\ ctl' = [ctl EXCEPT ![r][q] = "applied"]
          /\ UNCHANGED <<plan, gen, ctx, pc, ret>>
      BY <1>4 DEF CancelAnswers, HandlersSound, runVars, coVars
    <2>2. \A s \in Runs, p \in Steers : ctl'[s][p] = ctl[s][p]
      BY <2>1 DEF Steers, TypeOK
    <2> QED BY <2>1, <2>2 DEF SeenAt, InUse
  <1> QED BY <1>1, <1>2, <1>3, <1>4 DEF Handle

\* A resume marks its own record; a child has no response yet.
LEMMA ResumeSeen ==
  ASSUME IInv, \A s \in Runs : SeenAt(s), NEW a \in asks, ResumeInPlace(a) \/ \E n \in Runs : ResumeFork(a, n)
  PROVE  \A s \in Runs : SeenAt(s)'
  <1> USE DEF IInv
  <1>1. a.run \in Runs /\ a.req \in Request /\ a.req \notin Steers
    BY DEF TypeOK, HandlersSound, Steers
  <1>2. CASE ResumeInPlace(a)
    <2>1. UNCHANGED <<plan, gen, ctx, pc, ret>> /\ ctl' = [ctl EXCEPT ![a.run][a.req] = "applied"]
      BY <1>2 DEF ResumeInPlace, coVars
    <2>2. \A s \in Runs, p \in Steers : ctl'[s][p] = ctl[s][p]
      BY <1>1, <2>1 DEF Steers, TypeOK
    <2> QED BY <2>1, <2>2 DEF SeenAt, InUse
  <1>3. ASSUME NEW n \in Runs, ResumeFork(a, n) PROVE \A s \in Runs : SeenAt(s)'
    <2>1. /\ UNCHANGED <<plan, ctx, ret>> /\ gen' = [gen EXCEPT ![n] = gen[a.run]]
          /\ pc' = [pc EXCEPT ![n] = "start"]
          /\ ctl' = [ctl EXCEPT ![a.run][a.req] = "applied", ![n] = Carried(a.run)]
      BY <1>3 DEF ResumeFork
    <2>2. \A s \in Runs \ {n}, p \in Steers : ctl'[s][p] = ctl[s][p]
      BY <1>1, <2>1 DEF TypeOK, Steers
    <2>3. \A s \in Runs \ {n} : gen'[s] = gen[s] /\ pc'[s] = pc[s]
      BY <2>1 DEF TypeOK
    <2>4. ASSUME NEW s \in Runs \ {n} PROVE SeenAt(s)'
      <3>1. UNCHANGED <<plan[s], gen[s], ctx, pc[s], ret[s]>> /\ \A p \in Steers : ctl'[s][p] = ctl[s][p]
        BY <2>1, <2>2, <2>3
      <3> QED BY <3>1 DEF SeenAt, InUse
    <2>5. SeenAt(n)'
      <3>1. plan[n] = 0
        BY <1>3 DEF ResumeFork, Unborn, SeenAt
      <3>2. pc'[n] = "start" /\ gen'[n] \in Nat
        BY <2>1, <1>1 DEF TypeOK
      <3>3. \A p \in Steers : ctl'[n][p] # "interrupted"
        BY <2>1, <1>1 DEF Carried, TypeOK, Steers
      <3>4. plan'[n] = 0 /\ ~InUse(n)'
        BY <2>1, <3>1, <3>2 DEF InUse
      <3> QED BY <3>2, <3>3, <3>4 DEF SeenAt
    <2> QED BY <2>4, <2>5
  <1> QED BY <1>2, <1>3

(* ResponseSawSteers: a tool that runs on a response of the current generation
   runs on one for which the model had every steer of the run. *)
THEOREM ToolsFollowSteers == Spec => []ResponseSawSteers
  <1> DEFINE Seen == \A r \in Runs : SeenAt(r)
  <1>1. Init => Seen
    BY DEF Init, SeenAt, InUse, Steers
  <1>2. IInv /\ Seen /\ [Next]_vars => Seen'
    <2> SUFFICES ASSUME IInv, Seen, [Next]_vars PROVE Seen'
      OBVIOUS
    <2>0. TypeOK
      BY DEF IInv
    <2>1. ASSUME NEW r \in Runs, Step(r) PROVE Seen'
      <3>1. SeenAt(r)'
        BY <2>0, <2>1, StepFrame, StepSeen
      <3>2. \A s \in Runs \ {r} : SeenAt(s)'
        BY <2>0, <2>1, StepFrame, StepPlanFrame, OthersSeen
      <3> QED BY <3>1, <3>2
    <2>2. ASSUME NEW r \in Runs, Abort(r) \/ Decide(r, "accepted") \/ Decide(r, "rejected") \/ Submit(r) PROVE Seen'
      <3>1. UNCHANGED <<plan, gen, ctl, ctx, ret>> /\ (\A s \in Runs \ {r} : pc'[s] = pc[s]) /\ pc[r] # "over"
        BY <2>0, <2>2 DEF Abort, Unwind, Decide, Submit, Unborn, recordVars, runVars, ctlVars, TypeOK
      <3>2. InUse(r)' => InUse(r)
        BY <2>0, <2>2 DEF Abort, Unwind, Decide, Submit, InUse, TypeOK
      <3>3. pc'[r] # "unborn"
        BY <2>0, <2>2 DEF Abort, Unwind, Decide, Submit, TypeOK
      <3>4. SeenAt(r)'
        BY <3>1, <3>2, <3>3 DEF SeenAt
      <3> QED BY <3>1, <3>4, OthersSeen
    <2>3. CASE Restart
      <3>1. UNCHANGED gen /\ \A s \in Runs : plan'[s] = 0 /\ pc'[s] \in {"over", "unborn"}
        BY <2>3 DEF Restart
      <3>2. \A s \in Runs, q \in Steers : pc'[s] = "unborn" => ctl'[s][q] # "interrupted"
        BY <2>0, <2>3 DEF Restart, Born, SeenAt, Settled, Steers, IInv, SoundAt, LiveAt
      <3> QED BY <2>0, <3>1, <3>2 DEF SeenAt, InUse, TypeOK
    <2>4. CASE UNCHANGED vars
      BY <2>4 DEF SeenAt, InUse, vars, recordVars, runVars, ctlVars, coVars
    <2> QED BY <2>1, <2>2, <2>3, <2>4, HandleSeen, ResumeSeen DEF Next
  <1>3. Seen => ResponseSawSteers
    BY DEF SeenAt, InUse, ResponseSawSteers
  <1> QED BY <1>1, <1>2, <1>3, Inductive, PTL DEF Spec

=============================================================================
