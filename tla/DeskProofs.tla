------------------------------ MODULE DeskProofs ------------------------------
(***************************************************************************)
(* The turns of a session, the hand-over of its worktree and its history,  *)
(* for any requests, clients, worktrees, paths and bounds.                 *)
(*                                                                         *)
(* The safety of the service of an account and of its pipe to the desktop, *)
(* for any directories, requests, services and bounds: deleting, moving,   *)
(* taking a history over and taking that back are steps next to sessions   *)
(* at work, choices under way and crashes, and services follow each other  *)
(* on the same data.                                                       *)
(***************************************************************************)
EXTENDS SessionTurns, Handover, Conversation, Records, ServicePipe, SequenceTheorems,
  WellFoundedInduction, TLAPS

-----------------------------------------------------------------------------
(* Turns. *)

Statuses == {"none", "running", "waiting", "completed", "failed"}
Starts == {<<"none", 0>>, <<"user", 0>>} \cup ({"queue"} \X Request) \cup ({"plan"} \X TurnRun)
Items == [req : Request \cup {"none"}, after : Nat,
          state : {"none", "pending", "blocked", "cancelled", "launched"}, result : Nat]

TurnsTypeOK ==
  /\ st \in [TurnRun -> Statuses] /\ by \in [TurnRun -> Starts]
  /\ mode \in [TurnRun -> {"default", "plan", "ready"}]
  /\ last \in 0..MaxRun /\ gen \in Nat /\ halt \in BOOLEAN
  /\ item \in Items /\ sent \in [Request -> 0..MaxRun] /\ soon \in Seq(TurnRun)
  /\ question \in Nat /\ future \in {"none", "open", "answered", "cancelled"}
  /\ heard \in {"none", "answered", "told"}
  /\ receipt \in [TurnRun -> [Client -> Nat]] /\ check \in [Client -> 0..MaxRun]
  /\ shut \in BOOLEAN

\* Runs are numbered as they start, and only the last one can be in progress.
RunsInOrder == \A r \in TurnRun :
  /\ r > last => st[r] = "none" /\ by[r] = <<"none", 0>>
  /\ r < last => Ended(r)
  /\ r = last => st[r] # "none"

\* A callback is scheduled for a run that is over, and no other run ends before it.
CallbackIsDue ==
  /\ Len(soon) <= 1
  /\ soon # <<>> =>
       /\ Ended(soon[1])
       /\ soon[1] = last \/ (soon[1] + 1 = last /\ InProgress(last))

\* A turn that waits, waits for the last run or has been called for; no run comes
\* in between without a callback that will find it.
ItemIsNext ==
  /\ item.state = "pending" =>
       /\ item.req \in Request /\ item.after \in 1..last /\ sent[item.req] = item.after
       /\ ~shut /\ Ended(item.after) => soon = <<item.after>>
  /\ item.state = "blocked" => item.after \in TurnRun /\ Ended(item.after)

\* TurnStartsOnce, of the runs.
QueuedOnce == \A r \in TurnRun : by[r][1] = "queue" =>
  /\ r > 1 /\ by[r][2] \in Request /\ sent[by[r][2]] = r - 1 /\ st[r - 1] = "completed"

TurnsInv == TurnsTypeOK /\ RunsInOrder /\ CallbackIsDue /\ ItemIsNext /\ QueuedOnce

LEMMA TurnsInitially == TurnsInit => TurnsInv
<1> SUFFICES ASSUME TurnsInit PROVE TurnsInv OBVIOUS
<1> USE TurnBounds DEF TurnsInit, NoItem, NoQuestion
<1>1. TurnsTypeOK
  <2>1. st \in [TurnRun -> Statuses] /\ mode \in [TurnRun -> {"default", "plan", "ready"}] BY DEF Statuses
  <2>2. by \in [TurnRun -> Starts] BY DEF Starts
  <2>3. last \in 0..MaxRun /\ gen \in Nat /\ question \in Nat OBVIOUS
  <2>4. item \in Items BY DEF Items
  <2>5. sent \in [Request -> 0..MaxRun] /\ soon \in Seq(TurnRun) /\ check \in [Client -> 0..MaxRun] OBVIOUS
  <2>6. receipt \in [TurnRun -> [Client -> Nat]] OBVIOUS
  <2> QED BY <2>1, <2>2, <2>3, <2>4, <2>5, <2>6 DEF TurnsTypeOK
<1>2. RunsInOrder BY DEF RunsInOrder, TurnRun
<1> QED BY <1>1, <1>2 DEF TurnsInv, CallbackIsDue, ItemIsNext, QueuedOnce

\* A new run is the next one, and all the earlier ones are over.
LEMMA NewRunIsNext ==
  ASSUME TurnsInv, NEW how, NEW what, NEW m \in {"default", "plan"},
         <<how, what>> \in Starts, NewRun(how, what, m)
  PROVE  /\ last \in Nat /\ last + 1 \in TurnRun /\ last' = last + 1 /\ last' \in 0..MaxRun
         /\ st' \in [TurnRun -> Statuses] /\ by' \in [TurnRun -> Starts]
         /\ mode' \in [TurnRun -> {"default", "plan", "ready"}] /\ gen' \in Nat /\ halt' \in BOOLEAN
         /\ \A r \in TurnRun : r # last + 1 => st'[r] = st[r] /\ by'[r] = by[r]
         /\ by'[last + 1] = <<how, what>> /\ by[last + 1] = <<"none", 0>> /\ st'[last + 1] = "running"
         /\ \A r \in TurnRun : r <= last => Ended(r)
         /\ RunsInOrder'
<1>1. last \in Nat /\ last + 1 \in TurnRun /\ last' = last + 1 /\ last' \in 0..MaxRun
  BY TurnBounds DEF TurnsInv, TurnsTypeOK, NewRun, TurnRun
<1>2. st' = [st EXCEPT ![last + 1] = "running"] /\ by' = [by EXCEPT ![last + 1] = <<how, what>>] BY DEF NewRun
<1>3. st' \in [TurnRun -> Statuses] /\ by' \in [TurnRun -> Starts] BY <1>1, <1>2 DEF TurnsInv, TurnsTypeOK, Statuses
<1>4. mode' \in [TurnRun -> {"default", "plan", "ready"}] /\ gen' \in Nat BY DEF TurnsInv, TurnsTypeOK, NewRun
<1>5. halt' \in BOOLEAN BY DEF NewRun
<1>6. \A r \in TurnRun : r # last + 1 => st'[r] = st[r] /\ by'[r] = by[r] BY <1>2 DEF TurnsInv, TurnsTypeOK
<1>7. by'[last + 1] = <<how, what>> /\ st'[last + 1] = "running" BY <1>1, <1>2 DEF TurnsInv, TurnsTypeOK
<1>8. \A r \in TurnRun : r <= last => Ended(r)
  <2> SUFFICES ASSUME NEW r \in TurnRun, r <= last PROVE Ended(r) OBVIOUS
  <2>1. ~InProgress(r) BY DEF NewRun
  <2>2. st[r] # "none"
    <3>1. r \in Nat BY DEF TurnRun
    <3>2. r < last \/ r = last BY <1>1, <3>1
    <3> QED BY <3>2 DEF TurnsInv, RunsInOrder, Ended
  <2> QED BY <2>1, <2>2 DEF TurnsInv, TurnsTypeOK, Statuses, InProgress, Ended
<1>9. by[last + 1] = <<"none", 0>> BY <1>1 DEF TurnsInv, RunsInOrder
<1>10. RunsInOrder'
  <2> SUFFICES ASSUME NEW r \in TurnRun
               PROVE  /\ r > last' => st'[r] = "none" /\ by'[r] = <<"none", 0>>
                      /\ r < last' => Ended(r)'
                      /\ r = last' => st'[r] # "none"
    BY DEF RunsInOrder
  <2>1. r \in Nat BY DEF TurnRun
  <2>2. r > last' => r > last /\ r # last + 1 BY <1>1, <2>1
  <2>3. r < last' => r <= last /\ r # last + 1 BY <1>1, <2>1
  <2> QED BY <1>1, <1>6, <1>7, <1>8, <2>2, <2>3 DEF TurnsInv, RunsInOrder, Ended
<1> QED BY <1>1, <1>3, <1>4, <1>5, <1>6, <1>7, <1>8, <1>9, <1>10

\* A run that is not started by the queue leaves the queue as it is.
LEMMA OtherRunKeeps ==
  ASSUME TurnsInv, NEW how, NEW what, NEW m \in {"default", "plan"}, how # "queue",
         <<how, what>> \in Starts, NewRun(how, what, m), UNCHANGED <<item, sent, soon, shut>>
  PROVE  RunsInOrder' /\ CallbackIsDue' /\ ItemIsNext' /\ QueuedOnce'
<1> DEFINE n == last + 1
<1>2. /\ n \in TurnRun /\ last' = n /\ last \in Nat /\ RunsInOrder'
      /\ \A r \in TurnRun : r # n => st'[r] = st[r] /\ by'[r] = by[r]
      /\ by'[n] = <<how, what>> /\ st'[n] = "running" /\ \A r \in TurnRun : r <= last => Ended(r)
  BY NewRunIsNext
<1>3. item' = item /\ sent' = sent /\ soon' = soon /\ shut' = shut OBVIOUS
<1>4. \A r \in TurnRun : Ended(r) => r # n /\ Ended(r)' /\ st'[r] = st[r]
  BY <1>2 DEF TurnsInv, RunsInOrder, Ended, TurnRun
<1>5. CallbackIsDue'
  <2>1. CASE soon = <<>> BY <2>1, <1>3 DEF TurnsInv, CallbackIsDue
  <2>2. CASE soon # <<>>
    <3>1. Ended(soon[1]) /\ soon[1] \in TurnRun /\ Len(soon) <= 1
      BY <2>2 DEF TurnsInv, TurnsTypeOK, CallbackIsDue
    <3>2. soon[1] = last
      <4>1. soon[1] + 1 = last => last \in TurnRun /\ last <= last BY <3>1, <1>2, TurnBounds DEF TurnRun
      <4>2. soon[1] + 1 = last => ~InProgress(last) BY <4>1, <1>2 DEF Ended, InProgress
      <4> QED BY <2>2, <4>2 DEF TurnsInv, CallbackIsDue
    <3>3. InProgress(last)' BY <1>2 DEF InProgress
    <3>4. Ended(soon[1])' BY <1>3, <1>4, <3>1 DEF Ended
    <3>5. soon'[1] + 1 = last' BY <1>2, <1>3, <3>2
    <3> QED BY <1>3, <3>1, <3>3, <3>4, <3>5 DEF CallbackIsDue
  <2> QED BY <2>1, <2>2
<1>6. ItemIsNext'
  <2>1. item.state = "pending" => item.after \in TurnRun /\ item.after \in 1..last /\ item.after \in 1..last'
    BY <1>2 DEF TurnsInv, ItemIsNext, TurnsTypeOK, TurnRun
  <2>2. item.state = "pending" => Ended(item.after) BY <1>2, <2>1
  <2>3. item.state = "pending" => item.req \in Request /\ sent[item.req] = item.after /\ (~shut => soon = <<item.after>>)
    BY <2>2 DEF TurnsInv, ItemIsNext
  <2>4. item.state = "blocked" => item.after \in TurnRun /\ Ended(item.after) BY DEF TurnsInv, ItemIsNext
  <2>5. item'.state = "blocked" => item'.after \in TurnRun /\ Ended(item.after)' BY <1>3, <1>4, <2>4 DEF Ended
  <2> QED BY <1>3, <2>1, <2>3, <2>5 DEF ItemIsNext
<1>7. QueuedOnce'
  <2> SUFFICES ASSUME NEW r \in TurnRun, by'[r][1] = "queue"
               PROVE  r > 1 /\ by'[r][2] \in Request /\ sent'[by'[r][2]] = r - 1 /\ st'[r - 1] = "completed"
    BY DEF QueuedOnce
  <2>1. r # n /\ by'[r] = by[r] BY <1>2
  <2>2. r > 1 /\ by[r][2] \in Request /\ sent[by[r][2]] = r - 1 /\ st[r - 1] = "completed"
    BY <2>1 DEF TurnsInv, QueuedOnce
  <2>3. r - 1 \in TurnRun BY <2>2, TurnBounds DEF TurnRun
  <2>4. st'[r - 1] = "completed" BY <1>4, <2>2, <2>3 DEF Ended
  <2> QED BY <1>3, <2>1, <2>2, <2>4
<1> QED BY <1>2, <1>5, <1>6, <1>7

LEMMA UserTurnKeeps ==
  ASSUME TurnsInv, UserTurn
  PROVE  TurnsInv'
<1>1. PICK m \in {"default", "plan"} : NewRun("user", 0, m) BY DEF UserTurn
<1>2. <<"user", 0>> \in Starts BY DEF Starts
<1>3. UNCHANGED <<queueVars, askVars, planVars, shut>> BY DEF UserTurn
<1>4. TurnsTypeOK' BY NewRunIsNext, <1>1, <1>2, <1>3 DEF TurnsInv, TurnsTypeOK, queueVars, askVars, planVars
<1>5. UNCHANGED <<item, sent, soon, shut>> BY <1>3 DEF queueVars
<1> QED BY OtherRunKeeps, <1>1, <1>2, <1>4, <1>5 DEF TurnsInv

LEMMA RunEndsKeeps ==
  ASSUME TurnsInv, NEW r \in TurnRun, RunEnds(r)
  PROVE  TurnsInv'
<1>0. PICK t \in {"completed", "failed"} :
        /\ st' = [st EXCEPT ![r] = t]
        /\ mode' \in {mode, [mode EXCEPT ![r] = "ready"]} /\ Settled(r, t)
  BY DEF RunEnds
<1>1. soon = <<>> /\ st[r] = "running" /\ UNCHANGED <<by, last, gen, halt, item, sent, askVars, planVars, shut>>
  BY DEF RunEnds
<1>2. r = last /\ last \in TurnRun
  <2>1. last \in Nat /\ r \in Nat BY TurnBounds DEF TurnsInv, TurnsTypeOK, TurnRun
  <2>2. ~(r > last) /\ ~(r < last) BY <1>1 DEF TurnsInv, RunsInOrder, Ended
  <2> QED BY <2>1, <2>2
<1>3. /\ st' \in [TurnRun -> Statuses] /\ Ended(r)'
      /\ \A q \in TurnRun : q # r => st'[q] = st[q]
  BY <1>0 DEF TurnsInv, TurnsTypeOK, Statuses, Ended
<1>4. soon' = IF ~shut /\ item.state = "pending" /\ item.after = r THEN <<r>> ELSE <<>>
  BY <1>0, <1>1 DEF Settled
<1>5. TurnsTypeOK'
  <2>1. mode' \in [TurnRun -> {"default", "plan", "ready"}] BY <1>0 DEF TurnsInv, TurnsTypeOK
  <2>2. soon' \in Seq(TurnRun) BY <1>4
  <2> QED BY <1>1, <1>3, <2>1, <2>2 DEF TurnsInv, TurnsTypeOK, askVars, planVars
<1>6. RunsInOrder' BY <1>1, <1>2, <1>3, TurnBounds DEF TurnsInv, RunsInOrder, Ended, TurnRun
<1>7. CallbackIsDue' BY <1>1, <1>2, <1>3, <1>4 DEF CallbackIsDue
<1>8. ItemIsNext'
  <2>1. \A q \in TurnRun : Ended(q) => Ended(q)' BY <1>3 DEF Ended
  <2>2. item'.state = "pending" => item'.after \in TurnRun BY <1>1, <1>2, TurnBounds DEF TurnsInv, ItemIsNext, TurnRun
  <2>3. ASSUME item.state = "pending", ~shut, Ended(item.after)' PROVE soon' = <<item.after>>
    <3>1. CASE item.after = r BY <1>4, <2>3, <3>1
    <3>2. CASE item.after # r
      <4>1. Ended(item.after) BY <1>1, <1>3, <2>2, <2>3, <3>2 DEF Ended
      <4>2. soon = <<item.after>> BY <2>3, <4>1 DEF TurnsInv, ItemIsNext
      <4>3. Len(soon) = 1 BY <4>2
      <4> QED BY <1>1, <4>3
    <3> QED BY <3>1, <3>2
  <2>4. item.state = "blocked" => item.after \in TurnRun /\ Ended(item.after)'
    BY <1>1, <2>1 DEF TurnsInv, ItemIsNext
  <2>5. item.state = "pending" => item.req \in Request /\ item.after \in 1..last /\ sent[item.req] = item.after
    BY DEF TurnsInv, ItemIsNext
  <2> QED BY <1>1, <2>3, <2>4, <2>5 DEF ItemIsNext
<1>9. QueuedOnce'
  <2> SUFFICES ASSUME NEW q \in TurnRun, by[q][1] = "queue"
               PROVE  q > 1 /\ by[q][2] \in Request /\ sent[by[q][2]] = q - 1 /\ st'[q - 1] = "completed"
    BY <1>1 DEF QueuedOnce
  <2>1. q > 1 /\ by[q][2] \in Request /\ sent[by[q][2]] = q - 1 /\ st[q - 1] = "completed"
    BY DEF TurnsInv, QueuedOnce
  <2>2. q - 1 \in TurnRun BY <2>1, TurnBounds DEF TurnRun
  <2> QED BY <1>1, <1>3, <2>1, <2>2
<1> QED BY <1>5, <1>6, <1>7, <1>8, <1>9 DEF TurnsInv

LEMMA EnqueueTurnKeeps ==
  ASSUME TurnsInv, NEW q \in Request, NEW r \in TurnRun, EnqueueTurn(q, r)
  PROVE  TurnsInv'
<1> USE TurnBounds DEF EnqueueTurn, Queue, runVars, askVars, planVars
<1>1. TurnsTypeOK' BY DEF TurnsInv, TurnsTypeOK, TurnRun, Statuses, Items, Starts, NoQuestion
<1>2. RunsInOrder' BY DEF TurnsInv, TurnsTypeOK, RunsInOrder, Ended, InProgress, TurnRun
<1>3. CallbackIsDue' BY DEF TurnsInv, TurnsTypeOK, RunsInOrder, CallbackIsDue, Ended, InProgress, TurnRun
<1>4. ItemIsNext' BY DEF TurnsInv, TurnsTypeOK, RunsInOrder, CallbackIsDue, ItemIsNext, Ended, InProgress, TurnRun, Items
<1>5. QueuedOnce' BY SMTT(30) DEF TurnsInv, TurnsTypeOK, RunsInOrder, CallbackIsDue, ItemIsNext, QueuedOnce, Ended, InProgress, TurnRun, Items
<1> QED BY <1>1, <1>2, <1>3, <1>4, <1>5 DEF TurnsInv

LEMMA WithdrawKeeps ==
  ASSUME TurnsInv, Withdraw
  PROVE  TurnsInv'
<1> USE TurnBounds DEF Withdraw, runVars, askVars, planVars
<1>1. TurnsTypeOK' BY DEF TurnsInv, TurnsTypeOK, TurnRun, Statuses, Items, Starts, NoQuestion
<1>2. RunsInOrder' BY DEF TurnsInv, TurnsTypeOK, RunsInOrder, Ended, InProgress, TurnRun
<1>3. CallbackIsDue' BY DEF TurnsInv, TurnsTypeOK, RunsInOrder, CallbackIsDue, Ended, InProgress, TurnRun
<1>4. ItemIsNext' BY DEF TurnsInv, TurnsTypeOK, RunsInOrder, CallbackIsDue, ItemIsNext, Ended, InProgress, TurnRun, Items
<1>5. QueuedOnce' BY DEF TurnsInv, TurnsTypeOK, RunsInOrder, CallbackIsDue, ItemIsNext, QueuedOnce, Ended, InProgress, TurnRun, Items
<1> QED BY <1>1, <1>2, <1>3, <1>4, <1>5 DEF TurnsInv

LEMMA AdvanceKeeps ==
  ASSUME TurnsInv, Advance
  PROVE  TurnsInv'
<1>0. /\ soon # <<>> /\ soon' = Tail(soon) /\ UNCHANGED <<sent, askVars, planVars, shut>>
  BY DEF Advance
<1>1. soon \in Seq(TurnRun) /\ Len(soon) = 1
  <2>1. soon \in Seq(TurnRun) /\ Len(soon) <= 1 /\ soon # <<>> BY <1>0 DEF TurnsInv, TurnsTypeOK, CallbackIsDue
  <2>2. Len(soon) \in Nat \ {0} BY <2>1, EmptySeq
  <2>3. \A n \in Nat \ {0} : n <= 1 => n = 1 OBVIOUS
  <2>4. Len(soon) = 1 BY <2>1, <2>2, <2>3
  <2> QED BY <2>1, <2>4
<1>2. soon' = <<>> /\ soon[1] \in TurnRun /\ Head(soon) = soon[1] BY <1>0, <1>1
<1>3. Ended(soon[1]) BY <1>0 DEF TurnsInv, CallbackIsDue
<1>4. CASE ~CallsFor(Head(soon)) /\ UNCHANGED <<runVars, item>>
  <2>1. TurnsTypeOK' BY <1>0, <1>2, <1>4 DEF TurnsInv, TurnsTypeOK, runVars, askVars, planVars
  <2>2. item.state = "pending" => ~(~shut /\ Ended(item.after))
    BY <1>2, <1>4 DEF TurnsInv, ItemIsNext, CallsFor
  <2>3. ItemIsNext' BY <1>0, <1>4, <2>2 DEF TurnsInv, ItemIsNext, Ended, runVars
  <2> QED BY <1>0, <1>2, <1>4, <2>1, <2>3 DEF TurnsInv, RunsInOrder, CallbackIsDue, QueuedOnce, Ended, InProgress, runVars
<1>5. CASE CallsFor(Head(soon)) /\ Block
  <2>1. item' = [item EXCEPT !.state = "blocked"] /\ UNCHANGED runVars /\ item.after = soon[1]
    BY <1>2, <1>5 DEF CallsFor, Block
  <2>2. item' \in Items /\ item'.state = "blocked" /\ item'.after = soon[1] BY <2>1 DEF TurnsInv, TurnsTypeOK, Items
  <2>3. TurnsTypeOK' BY <1>0, <1>2, <2>1, <2>2 DEF TurnsInv, TurnsTypeOK, runVars, askVars, planVars
  <2>4. ItemIsNext' BY <1>2, <1>3, <2>1, <2>2 DEF ItemIsNext, Ended, runVars
  <2> QED BY <1>0, <1>2, <2>1, <2>3, <2>4 DEF TurnsInv, RunsInOrder, CallbackIsDue, QueuedOnce, Ended, InProgress, runVars
<1>6. ASSUME CallsFor(Head(soon)), st[Head(soon)] = "completed", NEW m \in {"default", "plan"},
             NewRun("queue", item.req, m), item' = [item EXCEPT !.state = "launched", !.result = last + 1]
      PROVE  TurnsInv'
  <2> DEFINE n == last + 1
  <2>1. item.state = "pending" /\ item.after = soon[1] /\ item.req \in Request /\ sent[item.req] = soon[1]
    BY <1>2, <1>6 DEF CallsFor, TurnsInv, ItemIsNext
  <2>2. <<"queue", item.req>> \in Starts BY <2>1 DEF Starts
  <2>3. /\ n \in TurnRun /\ last' = n /\ last \in Nat /\ RunsInOrder'
        /\ \A r \in TurnRun : r # n => st'[r] = st[r] /\ by'[r] = by[r]
        /\ by'[n] = <<"queue", item.req>> /\ st'[n] = "running" /\ \A r \in TurnRun : r <= last => Ended(r)
    BY NewRunIsNext, <1>6, <2>2
  <2>4. soon[1] = last
    <3>1. soon[1] + 1 = last => last \in TurnRun /\ last <= last BY <1>2, <2>3, TurnBounds DEF TurnRun
    <3>2. soon[1] + 1 = last => ~InProgress(last) BY <3>1, <2>3 DEF Ended, InProgress
    <3> QED BY <1>0, <3>2 DEF TurnsInv, CallbackIsDue
  <2>5. item' \in Items /\ item'.state = "launched"
    <3>1. last + 1 \in Nat /\ item \in Items BY <2>3 DEF TurnsInv, TurnsTypeOK
    <3> QED BY <1>6, <3>1 DEF Items
  <2>6. TurnsTypeOK'
    BY NewRunIsNext, <1>0, <1>2, <1>6, <2>2, <2>5 DEF TurnsInv, TurnsTypeOK, askVars, planVars
  <2>7. ItemIsNext' /\ CallbackIsDue' BY <1>2, <2>5 DEF ItemIsNext, CallbackIsDue
  <2>8. QueuedOnce'
    <3> SUFFICES ASSUME NEW r \in TurnRun, by'[r][1] = "queue"
                 PROVE  r > 1 /\ by'[r][2] \in Request /\ sent[by'[r][2]] = r - 1 /\ st'[r - 1] = "completed"
      BY <1>0 DEF QueuedOnce
    <3>1. last \in TurnRun /\ last # n BY <1>2, <2>3, <2>4
    <3>2. CASE r = n BY <1>2, <1>6, <2>1, <2>3, <2>4, <3>1, <3>2 DEF TurnRun
    <3>3. CASE r # n
      <4>1. r > 1 /\ by[r][2] \in Request /\ sent[by[r][2]] = r - 1 /\ st[r - 1] = "completed" /\ by'[r] = by[r]
        BY <2>3, <3>3 DEF TurnsInv, QueuedOnce
      <4>2. r - 1 \in TurnRun BY <4>1, TurnBounds DEF TurnRun
      <4>3. r - 1 # n BY <2>3, <4>1, <4>2 DEF TurnsInv, RunsInOrder, TurnRun
      <4> QED BY <2>3, <4>1, <4>2, <4>3
    <3> QED BY <3>2, <3>3
  <2> QED BY <2>3, <2>6, <2>7, <2>8 DEF TurnsInv
<1> QED BY <1>4, <1>5, <1>6 DEF Advance

LEMMA AskUserKeeps ==
  ASSUME TurnsInv, AskUser
  PROVE  TurnsInv'
<1> USE TurnBounds DEF AskUser, queueVars, planVars
<1>1. TurnsTypeOK' BY DEF TurnsInv, TurnsTypeOK, TurnRun, Statuses, Items, Starts, NoQuestion
<1>2. RunsInOrder' BY DEF TurnsInv, TurnsTypeOK, RunsInOrder, Ended, InProgress, TurnRun
<1>3. CallbackIsDue' BY DEF TurnsInv, TurnsTypeOK, RunsInOrder, CallbackIsDue, Ended, InProgress, TurnRun
<1>4. ItemIsNext' BY DEF TurnsInv, TurnsTypeOK, RunsInOrder, CallbackIsDue, ItemIsNext, Ended, InProgress, TurnRun, Items
<1>5. QueuedOnce' BY DEF TurnsInv, TurnsTypeOK, RunsInOrder, CallbackIsDue, ItemIsNext, QueuedOnce, Ended, InProgress, TurnRun, Items
<1> QED BY <1>1, <1>2, <1>3, <1>4, <1>5 DEF TurnsInv

LEMMA AnswerKeeps ==
  ASSUME TurnsInv, Answer
  PROVE  TurnsInv'
<1> USE TurnBounds DEF Answer, Answerable, Waits, NoQuestion, queueVars, planVars
<1>1. TurnsTypeOK' BY DEF TurnsInv, TurnsTypeOK, TurnRun, Statuses, Items, Starts, NoQuestion
<1>2. RunsInOrder' BY DEF TurnsInv, TurnsTypeOK, RunsInOrder, Ended, InProgress, TurnRun
<1>3. CallbackIsDue' BY DEF TurnsInv, TurnsTypeOK, RunsInOrder, CallbackIsDue, Ended, InProgress, TurnRun
<1>4. ItemIsNext' BY DEF TurnsInv, TurnsTypeOK, RunsInOrder, CallbackIsDue, ItemIsNext, Ended, InProgress, TurnRun, Items
<1>5. QueuedOnce' BY DEF TurnsInv, TurnsTypeOK, RunsInOrder, CallbackIsDue, ItemIsNext, QueuedOnce, Ended, InProgress, TurnRun, Items
<1> QED BY <1>1, <1>2, <1>3, <1>4, <1>5 DEF TurnsInv

LEMMA InterruptKeeps ==
  ASSUME TurnsInv, Interrupt
  PROVE  TurnsInv'
<1> USE TurnBounds DEF Interrupt, Invalidate, queueVars, planVars
<1>1. TurnsTypeOK'
  <2>1. halt' \in BOOLEAN BY DEF TurnsInv, TurnsTypeOK
  <2>2. gen' \in Nat /\ future' \in {"none", "open", "answered", "cancelled"} BY DEF TurnsInv, TurnsTypeOK
  <2> QED BY <2>1, <2>2 DEF TurnsInv, TurnsTypeOK
<1>2. RunsInOrder' BY DEF TurnsInv, TurnsTypeOK, RunsInOrder, Ended, InProgress, TurnRun
<1>3. CallbackIsDue' BY DEF TurnsInv, TurnsTypeOK, RunsInOrder, CallbackIsDue, Ended, InProgress, TurnRun
<1>4. ItemIsNext' BY DEF TurnsInv, TurnsTypeOK, RunsInOrder, CallbackIsDue, ItemIsNext, Ended, InProgress, TurnRun, Items
<1>5. QueuedOnce' BY DEF TurnsInv, TurnsTypeOK, RunsInOrder, CallbackIsDue, ItemIsNext, QueuedOnce, Ended, InProgress, TurnRun, Items
<1> QED BY <1>1, <1>2, <1>3, <1>4, <1>5 DEF TurnsInv

LEMMA AskReturnsKeeps ==
  ASSUME TurnsInv, AskReturns
  PROVE  TurnsInv'
<1> USE TurnBounds DEF AskReturns, NoQuestion, queueVars, planVars
<1>1. TurnsTypeOK'
  <2>1. st' \in [TurnRun -> Statuses] BY DEF TurnsInv, TurnsTypeOK, Statuses
  <2>2. question' \in Nat OBVIOUS
  <2> QED BY <2>1, <2>2 DEF TurnsInv, TurnsTypeOK
<1>2. RunsInOrder' BY DEF TurnsInv, TurnsTypeOK, RunsInOrder, Ended, InProgress, TurnRun
<1>3. CallbackIsDue' BY DEF TurnsInv, TurnsTypeOK, RunsInOrder, CallbackIsDue, Ended, InProgress, TurnRun
<1>4. ItemIsNext' BY DEF TurnsInv, TurnsTypeOK, RunsInOrder, CallbackIsDue, ItemIsNext, Ended, InProgress, TurnRun, Items
<1>5. QueuedOnce' BY DEF TurnsInv, TurnsTypeOK, RunsInOrder, CallbackIsDue, ItemIsNext, QueuedOnce, Ended, InProgress, TurnRun, Items
<1> QED BY <1>1, <1>2, <1>3, <1>4, <1>5 DEF TurnsInv

LEMMA ImplementBeginsKeeps ==
  ASSUME TurnsInv, NEW c \in Client, NEW r \in TurnRun, ImplementBegins(c, r)
  PROVE  TurnsInv'
<1> USE TurnBounds DEF ImplementBegins, runVars, queueVars, askVars
<1>1. TurnsTypeOK' BY SMTT(30) DEF TurnsInv, TurnsTypeOK, TurnRun, Statuses, Items, Starts, NoQuestion
<1>2. RunsInOrder' BY DEF TurnsInv, TurnsTypeOK, RunsInOrder, Ended, InProgress, TurnRun
<1>3. CallbackIsDue' BY DEF TurnsInv, TurnsTypeOK, RunsInOrder, CallbackIsDue, Ended, InProgress, TurnRun
<1>4. ItemIsNext' BY DEF TurnsInv, TurnsTypeOK, RunsInOrder, CallbackIsDue, ItemIsNext, Ended, InProgress, TurnRun, Items
<1>5. QueuedOnce' BY DEF TurnsInv, TurnsTypeOK, RunsInOrder, CallbackIsDue, ItemIsNext, QueuedOnce, Ended, InProgress, TurnRun, Items
<1> QED BY <1>1, <1>2, <1>3, <1>4, <1>5 DEF TurnsInv

LEMMA ImplementEndsKeeps ==
  ASSUME TurnsInv, NEW c \in Client, ImplementEnds(c)
  PROVE  TurnsInv'
<1>1. UNCHANGED <<queueVars, askVars, shut>> /\ check' \in [Client -> 0..MaxRun]
  BY TurnBounds DEF ImplementEnds, TurnsInv, TurnsTypeOK
<1>2. UNCHANGED <<item, sent, soon, shut>> BY <1>1 DEF queueVars
<1>3. CASE UNCHANGED <<runVars, receipt>>
  <2>1. TurnsTypeOK' BY <1>1, <1>3 DEF TurnsInv, TurnsTypeOK, runVars, queueVars, askVars
  <2>2. RunsInOrder' /\ CallbackIsDue' /\ ItemIsNext' /\ QueuedOnce'
    BY <1>2, <1>3 DEF TurnsInv, RunsInOrder, CallbackIsDue, ItemIsNext, QueuedOnce, Ended, InProgress, runVars
  <2> QED BY <2>1, <2>2 DEF TurnsInv
<1>4. CASE NewRun("plan", check[c], "default") /\ receipt' = [receipt EXCEPT ![check[c]][c] = last + 1]
  <2>1. check[c] \in TurnRun BY TurnBounds DEF ImplementEnds, TurnsInv, TurnsTypeOK, TurnRun
  <2>2. <<"plan", check[c]>> \in Starts BY <2>1 DEF Starts
  <2>3. last + 1 \in Nat BY TurnBounds DEF TurnsInv, TurnsTypeOK
  <2>4. receipt' \in [TurnRun -> [Client -> Nat]] BY <1>4, <2>1, <2>3 DEF TurnsInv, TurnsTypeOK
  <2>5. TurnsTypeOK' BY NewRunIsNext, <1>1, <1>4, <2>2, <2>4 DEF TurnsInv, TurnsTypeOK, queueVars, askVars
  <2> QED BY OtherRunKeeps, <1>2, <1>4, <2>2, <2>5 DEF TurnsInv
<1> QED BY <1>3, <1>4 DEF ImplementEnds

LEMMA CloseTurnsKeeps ==
  ASSUME TurnsInv, CloseTurns
  PROVE  TurnsInv'
<1> USE TurnBounds DEF CloseTurns, Invalidate, queueVars, planVars
<1>1. TurnsTypeOK' BY DEF TurnsInv, TurnsTypeOK, TurnRun, Statuses, Items, Starts, NoQuestion
<1>2. RunsInOrder' BY DEF TurnsInv, TurnsTypeOK, RunsInOrder, Ended, InProgress, TurnRun
<1>3. CallbackIsDue' BY DEF TurnsInv, TurnsTypeOK, RunsInOrder, CallbackIsDue, Ended, InProgress, TurnRun
<1>4. ItemIsNext' BY DEF TurnsInv, TurnsTypeOK, RunsInOrder, CallbackIsDue, ItemIsNext, Ended, InProgress, TurnRun, Items
<1>5. QueuedOnce' BY DEF TurnsInv, TurnsTypeOK, RunsInOrder, CallbackIsDue, ItemIsNext, QueuedOnce, Ended, InProgress, TurnRun, Items
<1> QED BY <1>1, <1>2, <1>3, <1>4, <1>5 DEF TurnsInv

LEMMA RestartTurnsKeeps ==
  ASSUME TurnsInv, RestartTurns
  PROVE  TurnsInv'
<1> USE TurnBounds DEF RestartTurns, NoQuestion
<1>0. st' \in [TurnRun -> Statuses] /\ \A r \in TurnRun : st'[r] = IF InProgress(r) THEN "failed" ELSE st[r]
  BY DEF TurnsInv, TurnsTypeOK, Statuses
<1>0a. \A r \in TurnRun : (Ended(r) <=> st[r] # "none" /\ ~InProgress(r)) /\ (Ended(r)' <=> st[r] # "none")
  BY <1>0 DEF TurnsInv, TurnsTypeOK, Statuses, Ended, InProgress
<1>0b. /\ item' \in Items /\ item'.after = item.after /\ item'.state # "pending"
       /\ item'.state = "blocked" => item.state \in {"pending", "blocked"}
  BY DEF Kept, TurnsInv, TurnsTypeOK, Items
<1>0c. UNCHANGED <<by, mode, last, gen, sent, receipt>> /\ soon' = <<>> OBVIOUS
<1>1. TurnsTypeOK'
  <2>1. question' \in Nat /\ check' \in [Client -> 0..MaxRun] OBVIOUS
  <2>2. shut' \in BOOLEAN /\ halt' \in BOOLEAN OBVIOUS
  <2>3. heard' \in {"none", "answered", "told"} /\ future' \in {"none", "open", "answered", "cancelled"} OBVIOUS
  <2> HIDE DEF RestartTurns
  <2> QED BY <1>0, <1>0b, <1>0c, <2>1, <2>2, <2>3 DEF TurnsInv, TurnsTypeOK
<1> HIDE DEF RestartTurns
<1>2. RunsInOrder' BY <1>0, <1>0a, <1>0c DEF TurnsInv, RunsInOrder, InProgress
<1>3. CallbackIsDue' BY <1>0c DEF CallbackIsDue
<1>4. ItemIsNext'
  <2> SUFFICES ASSUME item'.state = "blocked" PROVE item.after \in TurnRun /\ Ended(item.after)'
    BY <1>0b DEF ItemIsNext
  <2>1. item.after \in TurnRun BY <1>0b DEF TurnsInv, TurnsTypeOK, ItemIsNext, TurnRun
  <2>2. item.after \in 1..last \/ Ended(item.after) BY <1>0b DEF TurnsInv, ItemIsNext
  <2>3. last \in Nat BY DEF TurnsInv, TurnsTypeOK
  <2>4. st[item.after] # "none" BY <2>1, <2>2, <2>3 DEF TurnsInv, RunsInOrder, Ended
  <2> QED BY <1>0a, <1>0b, <2>1, <2>4 DEF Ended
<1>5. QueuedOnce'
  <2> SUFFICES ASSUME NEW q \in TurnRun, by[q][1] = "queue"
               PROVE  q > 1 /\ by[q][2] \in Request /\ sent[by[q][2]] = q - 1 /\ st'[q - 1] = "completed"
    BY <1>0c DEF QueuedOnce
  <2>1. q > 1 /\ by[q][2] \in Request /\ sent[by[q][2]] = q - 1 /\ st[q - 1] = "completed"
    BY DEF TurnsInv, QueuedOnce
  <2>2. q - 1 \in TurnRun BY <2>1 DEF TurnRun
  <2> QED BY <1>0, <2>1, <2>2 DEF InProgress
<1> QED BY <1>1, <1>2, <1>3, <1>4, <1>5 DEF TurnsInv

LEMMA TurnsStep == TurnsInv /\ [TurnsNext]_turnVars => TurnsInv'
<1> SUFFICES ASSUME TurnsInv, [TurnsNext]_turnVars PROVE TurnsInv' OBVIOUS
<1>1. CASE TurnsNext
  BY <1>1, UserTurnKeeps, RunEndsKeeps, EnqueueTurnKeeps, WithdrawKeeps, AdvanceKeeps, AskUserKeeps, AnswerKeeps,
     InterruptKeeps, AskReturnsKeeps, ImplementBeginsKeeps, ImplementEndsKeeps, CloseTurnsKeeps, RestartTurnsKeeps
  DEF TurnsNext
<1>2. CASE UNCHANGED turnVars
  BY <1>2 DEF turnVars, runVars, queueVars, askVars, planVars, TurnsInv, TurnsTypeOK, RunsInOrder, CallbackIsDue, ItemIsNext, QueuedOnce, Ended, InProgress, TurnRun, Statuses, Items, Starts
<1> QED BY <1>1, <1>2

LEMMA TurnsInvariance == TurnsSpec => []TurnsInv
BY TurnsInitially, TurnsStep, PTL DEF TurnsSpec

\* What the queue of a session and its plan questions record is well formed.
THEOREM TurnsTypeCorrect == TurnsSpec => []TurnsTypeOK
BY TurnsInvariance, PTL DEF TurnsInv

\* A follow-up turn starts at most one run, directly after the one it was queued
\* behind, and is given up only when that one is over.
THEOREM FollowUpsStartOnce == TurnsSpec => []TurnStartsOnce
<1>1. TurnsInv => TurnStartsOnce
  BY TurnBounds DEF TurnsInv, TurnsTypeOK, QueuedOnce, ItemIsNext, TurnStartsOnce, TurnRun
<1> QED BY <1>1, TurnsInvariance, PTL

-----------------------------------------------------------------------------
(* The hand-over. *)

Previews == [Path -> Content \X Content]
AtHand == {"write", "land"}

Files == UNION {[P -> {"writing", "applied"}] : P \in SUBSET Path}
HandRecords == [from : Worktree, version : Previews, result : {"applying", "applied", "interrupted"}, files : Files]
HandStates == [at : Steps, shown : Previews, read : Previews, left : SUBSET Path,
               now : Path \cup {Main}, list : Seq(HandRecords)]

\* What is true of one hand-over h: while it is written the preview taken last is the
\* one the user saw.
WellInHand(h) ==
  /\ h \in HandStates
  /\ h.at \in AtHand => h.read = h.shown /\ h.left \subseteq Changes(h.read)
  /\ h.at = "land" => h.now \in h.left

HandTypeOK ==
  /\ tree \in [Dir -> [Path -> Content]]
  /\ state \in [Worktree -> {"none", "creating", "ready", "error", "removed"}]
  /\ inUse \subseteq Dir /\ records \in Seq(HandRecords)
  /\ \A w \in Worktree : home[w] \in {w, Main}
  /\ DOMAIN home = Worktree /\ DOMAIN hand = Worktree
  /\ \A w \in Worktree : WellInHand(hand[w])

\* Two hand-overs are not confirmed at the same time.
OneAtWork == \A v, w \in Worktree :
  hand[v].at \in AtHand \cup {"again"} /\ hand[w].at \in AtHand \cup {"again"} => v = w

\* The list that a hand-over appends to is the one on record.
ListIsFresh == \A w \in Worktree : hand[w].at = "again" => hand[w].list = records

\* The last record is the one of the hand-over that is written, and it names as
\* applied what has been written.
LastIsCurrent == \A w \in Worktree : hand[w].at \in AtHand =>
  /\ records # <<>> /\ home[w] = w
  /\ Current.from = w /\ Current.version = hand[w].shown /\ Current.result = "applying"
  /\ DOMAIN Current.files = (Changes(hand[w].shown) \ hand[w].left) \cup (IF hand[w].at = "land" THEN {hand[w].now} ELSE {})
  /\ \A q \in Changes(hand[w].shown) \ hand[w].left : Current.files[q] = "applied"

HandOverInv ==
  /\ HandTypeOK /\ OneAtWork /\ ListIsFresh /\ LastIsCurrent /\ SessionMovesWithFiles

LEMMA FirstIsOne ==
  ASSUME NEW P, P # {}
  PROVE  First(P) \in P
BY DEF First

LEMMA HandInitially == HandInit => HandTypeOK
<1> SUFFICES ASSUME HandInit PROVE HandTypeOK OBVIOUS
<1> USE HandoverAssumption DEF HandInit
<1>1. NoPreview \in Previews BY DEF NoPreview, Previews
<1>2. WellInHand(NoHand) BY <1>1 DEF WellInHand, HandStates, NoHand, Steps, AtHand
<1> QED BY <1>2 DEF HandTypeOK

LEMMA NoHandIsFine == WellInHand(NoHand)
<1>1. NoPreview \in Previews BY HandoverAssumption DEF NoPreview, Previews
<1> QED BY <1>1 DEF WellInHand, HandStates, NoHand, Steps, AtHand

\* A step of one hand-over.
LEMMA OneHand ==
  ASSUME HandTypeOK, NEW w \in Worktree, NEW h, WellInHand(h), hand' = [hand EXCEPT ![w] = h]
  PROVE  DOMAIN hand' = Worktree /\ \A v \in Worktree : WellInHand(hand'[v])
BY DEF HandTypeOK

\* Saving a record replaces the last one.
LEMMA SaveLast ==
  ASSUME records \in Seq(HandRecords), NEW f, records # <<>> => f \in HandRecords, Save(f)
  PROVE  /\ records' \in Seq(HandRecords) /\ Len(records') = Len(records)
         /\ \A i \in 1..Len(records) : records'[i] = IF i = Len(records) THEN f ELSE records[i]
<1>1. CASE records = <<>>
  <2>1. Len(records) = 0 BY <1>1
  <2>2. records' = <<>> BY <1>1 DEF Save
  <2> QED BY <1>1, <2>1, <2>2
<1>2. CASE records # <<>>
  <2>1. Len(records) \in Nat \ {0} BY <1>2, EmptySeq
  <2> QED BY <1>2, <2>1 DEF Save
<1> QED BY <1>1, <1>2

\* What marking a file does to a record.
LEMMA MarkOne ==
  ASSUME NEW r \in HandRecords, NEW q \in Path, NEW x \in {"writing", "applied"}
  PROVE  LET f == [r EXCEPT !.files = With(@, q, x)] IN
           /\ f \in HandRecords /\ f.from = r.from /\ f.version = r.version /\ f.result = r.result
           /\ DOMAIN f.files = DOMAIN r.files \cup {q}
           /\ \A o \in DOMAIN f.files : f.files[o] = IF o = q THEN x ELSE r.files[o]
<1>1. PICK P \in SUBSET Path : r.files \in [P -> {"writing", "applied"}] BY DEF HandRecords, Files
<1>2. With(r.files, q, x) \in [P \cup {q} -> {"writing", "applied"}] BY <1>1 DEF With
<1>3. With(r.files, q, x) \in Files BY <1>2 DEF Files
<1>4. DOMAIN With(r.files, q, x) = DOMAIN r.files \cup {q} BY DEF With
<1>5. \A o \in DOMAIN r.files \cup {q} : With(r.files, q, x)[o] = IF o = q THEN x ELSE r.files[o] BY DEF With
<1> HIDE DEF With
<1> QED BY <1>3, <1>4, <1>5 DEF HandRecords

LEMMA LastOne ==
  ASSUME records \in Seq(HandRecords), records # <<>>
  PROVE  Current \in HandRecords /\ Len(records) \in Nat \ {0}
<1>1. Len(records) \in Nat \ {0} BY EmptySeq
<1> QED BY <1>1 DEF Current

LEMMA LookTyped ==
  ASSUME HandTypeOK, NEW w \in Worktree, Look(w)
  PROVE  HandTypeOK'
<1> DEFINE h == [NoHand EXCEPT !.at = "look", !.left = Path]
<1>1. WellInHand(h) BY NoHandIsFine DEF WellInHand, HandStates, Steps, AtHand
<1>2. hand' = [hand EXCEPT ![w] = h] BY DEF Look
<1> QED BY OneHand, <1>1, <1>2 DEF HandTypeOK, Look

LEMMA ReadPathTyped ==
  ASSUME HandTypeOK, NEW w \in Worktree, ReadPath(w)
  PROVE  HandTypeOK'
<1> DEFINE q == First(hand[w].left)
           h == [hand[w] EXCEPT !.left = @ \ {q}, !.read[q] = <<tree[Main][q], tree[w][q]>>]
<1>1. WellInHand(h)
  <2>1. hand[w] \in HandStates /\ hand[w].at \notin AtHand BY DEF HandTypeOK, WellInHand, ReadPath, AtHand
  <2>2. q \in Path BY <2>1, FirstIsOne DEF ReadPath, HandStates
  <2>3. <<tree[Main][q], tree[w][q]>> \in Content \X Content BY <2>2 DEF HandTypeOK, Dir
  <2>4. [hand[w].read EXCEPT ![q] = <<tree[Main][q], tree[w][q]>>] \in Previews BY <2>1, <2>3 DEF HandStates, Previews
  <2>5. h \in HandStates /\ h.at = hand[w].at BY <2>1, <2>4 DEF HandStates
  <2> QED BY <2>1, <2>5 DEF WellInHand, AtHand
<1>2. hand' = [hand EXCEPT ![w] = h] BY DEF ReadPath, HandTypeOK
<1> QED BY OneHand, <1>1, <1>2 DEF HandTypeOK, ReadPath

LEMMA ShownTyped ==
  ASSUME HandTypeOK, NEW w \in Worktree, Shown(w)
  PROVE  HandTypeOK'
<1> DEFINE h == [NoHand EXCEPT !.at = "shown", !.shown = hand[w].read]
<1>1. WellInHand(h)
  <2>1. hand[w].read \in Previews BY DEF HandTypeOK, WellInHand, HandStates
  <2> QED BY <2>1, NoHandIsFine DEF WellInHand, HandStates, Steps, AtHand
<1>2. hand' = [hand EXCEPT ![w] = h] BY DEF Shown
<1> QED BY OneHand, <1>1, <1>2 DEF HandTypeOK, Shown

LEMMA ConfirmTyped ==
  ASSUME HandTypeOK, NEW w \in Worktree, Confirm(w)
  PROVE  HandTypeOK'
<1> DEFINE h == [hand[w] EXCEPT !.at = "again", !.left = Path, !.list = records]
<1>1. WellInHand(h)
  <2>1. hand[w] \in HandStates /\ records \in Seq(HandRecords) BY DEF HandTypeOK, WellInHand
  <2>2. h \in HandStates /\ h.at = "again" BY <2>1 DEF HandStates, Steps
  <2> QED BY <2>2 DEF WellInHand, AtHand
<1>2. hand' = [hand EXCEPT ![w] = h] \/ hand' = [hand EXCEPT ![w] = NoHand] BY DEF Confirm, HandTypeOK
<1>3. UNCHANGED <<tree, state, inUse, records, home>> BY DEF Confirm
<1> QED BY OneHand, NoHandIsFine, <1>1, <1>2, <1>3 DEF HandTypeOK

LEMMA CommitTyped ==
  ASSUME HandTypeOK, NEW w \in Worktree, Commit(w)
  PROVE  HandTypeOK'
<1> DEFINE h == [hand[w] EXCEPT !.at = "write", !.left = Changes(hand[w].read), !.list = <<>>]
<1>0. hand[w] \in HandStates BY DEF HandTypeOK, WellInHand
<1>1. UNCHANGED <<tree, state, inUse, home>> BY DEF Commit
<1>2. CASE hand' = [hand EXCEPT ![w] = NoHand] /\ UNCHANGED records
  BY OneHand, NoHandIsFine, <1>1, <1>2 DEF HandTypeOK
<1>3. CASE SameAsShown(w) /\ records' = Append(hand[w].list, NewRecord(w)) /\ hand[w].at = "again"
           /\ hand' = [hand EXCEPT ![w].at = "write", ![w].left = Changes(hand[w].read), ![w].list = <<>>]
  <2>1. Changes(hand[w].read) \subseteq Path BY DEF Changes
  <2>2. h \in HandStates /\ h.at = "write" /\ h.read = hand[w].read /\ h.shown = hand[w].shown
        /\ h.left = Changes(hand[w].read)
    <3> DEFINE C == Changes(hand[w].read)
    <3>1. C \in SUBSET Path BY <2>1
    <3> HIDE DEF C
    <3>2. [hand[w] EXCEPT !.at = "write", !.left = C, !.list = <<>>] \in HandStates
      <4>1. <<>> \in Seq(HandRecords) BY EmptySeq
      <4>2. "write" \in Steps BY DEF Steps
      <4> QED BY <1>0, <3>1, <4>1, <4>2 DEF HandStates
    <3> QED BY <1>0, <3>2 DEF HandStates, C
  <2>3. WellInHand(h) BY <1>3, <2>2 DEF WellInHand, SameAsShown
  <2>4. hand' = [hand EXCEPT ![w] = h] BY <1>3 DEF HandTypeOK
  <2>5. NewRecord(w) \in HandRecords
    <3>1. [q \in {} |-> "writing"] \in Files BY DEF Files
    <3> QED BY <1>0, <3>1 DEF NewRecord, HandRecords, HandStates
  <2>6. records' \in Seq(HandRecords) BY <1>0, <1>3, <2>5 DEF HandStates
  <2> QED BY OneHand, <1>1, <2>3, <2>4, <2>6 DEF HandTypeOK
<1> QED BY <1>2, <1>3 DEF Commit

LEMMA WriteNextTyped ==
  ASSUME HandTypeOK, NEW w \in Worktree, WriteNext(w)
  PROVE  HandTypeOK'
<1> DEFINE q == First(hand[w].left)
           h == [hand[w] EXCEPT !.at = "land", !.now = q]
<1>0. hand[w] \in HandStates /\ hand[w].at = "write" /\ q \in hand[w].left /\ q \in Path
  BY FirstIsOne DEF HandTypeOK, WellInHand, WriteNext, HandStates
<1>1. WellInHand(h)
  <2>1. h \in HandStates /\ h.read = hand[w].read /\ h.shown = hand[w].shown /\ h.left = hand[w].left /\ h.now = q
    BY <1>0 DEF HandStates, Steps
  <2> QED BY <1>0, <2>1 DEF HandTypeOK, WellInHand, AtHand
<1>2. hand' = [hand EXCEPT ![w] = h] BY DEF WriteNext, HandTypeOK
<1>3. records' \in Seq(HandRecords)
  <2>1. Save([Current EXCEPT !.files = With(@, q, "writing")]) BY DEF WriteNext, Mark
  <2>2. records # <<>> => [Current EXCEPT !.files = With(@, q, "writing")] \in HandRecords
    BY MarkOne, LastOne, <1>0 DEF HandTypeOK
  <2> QED BY SaveLast, <2>1, <2>2 DEF HandTypeOK
<1> QED BY OneHand, <1>1, <1>2, <1>3 DEF HandTypeOK, WriteNext

LEMMA LandTyped ==
  ASSUME HandTypeOK, NEW w \in Worktree, Land(w)
  PROVE  HandTypeOK'
<1> DEFINE q == hand[w].now
           h == [hand[w] EXCEPT !.at = "write", !.now = Main, !.left = @ \ {q}]
<1>0. hand[w] \in HandStates /\ hand[w].at = "land" /\ q \in hand[w].left /\ q \in Path
  BY DEF HandTypeOK, WellInHand, Land, HandStates
<1>1. tree' \in [Dir -> [Path -> Content]]
  <2>1. hand[w].read[q][2] \in Content BY <1>0 DEF HandStates, Previews
  <2>2. tree' = [tree EXCEPT ![Main][q] = hand[w].read[q][2]] BY DEF Land
  <2> QED BY <1>0, <2>1, <2>2 DEF HandTypeOK, Dir
<1>2. CASE Stops /\ UNCHANGED records
  BY <1>1, <1>2, NoHandIsFine DEF HandTypeOK, Stops, Land
<1>3. CASE /\ Save([Current EXCEPT !.files = With(@, q, "applied")]) /\ UNCHANGED inUse
           /\ hand' = [hand EXCEPT ![w].at = "write", ![w].now = Main, ![w].left = @ \ {q}]
  <2>1. h \in HandStates /\ h.read = hand[w].read /\ h.shown = hand[w].shown
        /\ h.left = hand[w].left \ {q} /\ h.at = "write"
    BY <1>0 DEF HandStates, Steps
  <2>2. WellInHand(h) BY <1>0, <2>1 DEF HandTypeOK, WellInHand, AtHand
  <2>3. hand' = [hand EXCEPT ![w] = h] BY <1>3 DEF HandTypeOK
  <2>4. records # <<>> => [Current EXCEPT !.files = With(@, q, "applied")] \in HandRecords
    BY MarkOne, LastOne, <1>0 DEF HandTypeOK
  <2>5. records' \in Seq(HandRecords) BY SaveLast, <1>3, <2>4 DEF HandTypeOK
  <2> QED BY OneHand, <1>1, <1>3, <2>2, <2>3, <2>5 DEF HandTypeOK, Land
<1> QED BY <1>2, <1>3 DEF Land

LEMMA AppliedTyped ==
  ASSUME HandTypeOK, NEW w \in Worktree, Applied(w)
  PROVE  HandTypeOK'
<1>1. records' \in Seq(HandRecords)
  <2>1. records # <<>> => [Current EXCEPT !.result = "applied"] \in HandRecords
    BY LastOne DEF HandTypeOK, HandRecords
  <2>2. Save([Current EXCEPT !.result = "applied"]) BY DEF Applied
  <2> QED BY SaveLast, <2>1, <2>2 DEF HandTypeOK
<1>2. hand' = [hand EXCEPT ![w] = NoHand] BY DEF Applied
<1> QED BY OneHand, NoHandIsFine, <1>1, <1>2 DEF HandTypeOK, Applied

LEMMA BreaksOffTyped ==
  ASSUME HandTypeOK, NEW w \in Worktree, BreaksOff(w)
  PROVE  HandTypeOK'
<1>1. records' \in Seq(HandRecords)
  <2>1. records # <<>> => [Current EXCEPT !.result = "interrupted"] \in HandRecords
    BY LastOne DEF HandTypeOK, HandRecords
  <2>2. Save([Current EXCEPT !.result = "interrupted"]) BY DEF BreaksOff
  <2> QED BY SaveLast, <2>1, <2>2 DEF HandTypeOK
<1>2. hand' = [hand EXCEPT ![w] = NoHand] BY DEF BreaksOff
<1> QED BY OneHand, NoHandIsFine, <1>1, <1>2 DEF HandTypeOK, BreaksOff

LEMMA BeginWorktreeTyped ==
  ASSUME HandTypeOK, NEW w \in Worktree, BeginWorktree(w)
  PROVE  HandTypeOK'
BY HandoverAssumption, FirstIsOne DEF BeginWorktree, HandTypeOK, WellInHand, HandStates, Previews, AtHand, Steps, NoHand, NoPreview, Dir, Loop, Changes

LEMMA EndWorktreeTyped ==
  ASSUME HandTypeOK, NEW w \in Worktree, EndWorktree(w)
  PROVE  HandTypeOK'
BY HandoverAssumption, FirstIsOne DEF EndWorktree, HandTypeOK, WellInHand, HandStates, Previews, AtHand, Steps, NoHand, NoPreview, Dir, Loop, Changes

LEMMA RemoveWorktreeTyped ==
  ASSUME HandTypeOK, NEW w \in Worktree, RemoveWorktree(w)
  PROVE  HandTypeOK'
BY HandoverAssumption, FirstIsOne DEF RemoveWorktree, HandTypeOK, WellInHand, HandStates, Previews, AtHand, Steps, NoHand, NoPreview, Dir, Loop, Changes

LEMMA UseDirTyped ==
  ASSUME HandTypeOK, NEW d \in Dir, UseDir(d)
  PROVE  HandTypeOK'
BY HandoverAssumption, FirstIsOne DEF UseDir, HandTypeOK, WellInHand, HandStates, Previews, AtHand, Steps, NoHand, NoPreview, Dir, Loop, Changes

LEMMA EditTyped ==
  ASSUME HandTypeOK, NEW d \in Dir, Edit(d)
  PROVE  HandTypeOK'
BY HandoverAssumption, FirstIsOne DEF Edit, HandTypeOK, WellInHand, HandStates, Previews, AtHand, Steps, NoHand, NoPreview, Dir, Loop, Changes

LEMMA DieTyped ==
  ASSUME HandTypeOK, Die
  PROVE  HandTypeOK'
BY HandoverAssumption, FirstIsOne DEF Die, Stops, HandTypeOK, WellInHand, HandStates, Previews, AtHand, Steps, NoHand, NoPreview, Dir, Loop, Changes

\* The moves agree with the records while the applied ones stay as they are.
LEMMA MovesStill ==
  ASSUME SessionMovesWithFiles, home' = home,
         \A i \in DOMAIN records' : records'[i].result = "applied" => i \in DOMAIN records /\ records'[i] = records[i],
         \A i \in DOMAIN records : records[i].result = "applied" => i \in DOMAIN records' /\ records'[i] = records[i]
  PROVE  SessionMovesWithFiles'
BY DEF SessionMovesWithFiles, Changes

\* Steps that leave records and homes alone and start nobody at writing.
LEMMA AsideKeeps ==
  ASSUME HandOverInv, HandTypeOK', UNCHANGED <<records, home>>,
         \A w \in Worktree : \/ hand'[w].at \notin AtHand \cup {"again"}
                             \/ /\ hand'[w].at = hand[w].at /\ hand'[w].list = hand[w].list
                                /\ hand[w].at \in AtHand => hand'[w] = hand[w]
  PROVE  HandOverInv'
<1>1. OneAtWork' BY DEF HandOverInv, OneAtWork
<1>2. ListIsFresh' BY DEF HandOverInv, ListIsFresh, AtHand
<1>3. LastIsCurrent' BY DEF HandOverInv, LastIsCurrent, Current, Changes
<1>4. SessionMovesWithFiles' BY DEF HandOverInv, SessionMovesWithFiles, Changes
<1> QED BY <1>1, <1>2, <1>3, <1>4 DEF HandOverInv

\* Steps of the loop happen while nobody writes.
LEMMA LookKeeps ==
  ASSUME HandOverInv, NEW w \in Worktree, Look(w)
  PROVE  HandOverInv'
<1>1. HandTypeOK' BY LookTyped DEF HandOverInv
<1>2. hand'[w].at = "look" /\ \A v \in Worktree \ {w} : hand'[v] = hand[v]
  BY DEF Look, HandOverInv, HandTypeOK, NoHand
<1> QED BY <1>1, <1>2, AsideKeeps DEF Look, AtHand

LEMMA ReadPathKeeps ==
  ASSUME HandOverInv, NEW w \in Worktree, ReadPath(w)
  PROVE  HandOverInv'
<1>1. HandTypeOK' BY ReadPathTyped DEF HandOverInv
<1>2. /\ hand'[w].at = hand[w].at /\ hand'[w].list = hand[w].list /\ hand[w].at \notin AtHand
      /\ \A v \in Worktree \ {w} : hand'[v] = hand[v]
  BY DEF ReadPath, Loop, AtHand, HandOverInv, HandTypeOK
<1> QED BY <1>1, <1>2, AsideKeeps DEF ReadPath

LEMMA ShownKeeps ==
  ASSUME HandOverInv, NEW w \in Worktree, Shown(w)
  PROVE  HandOverInv'
<1>1. HandTypeOK' BY ShownTyped DEF HandOverInv
<1>2. hand'[w].at = "shown" /\ \A v \in Worktree \ {w} : hand'[v] = hand[v]
  BY DEF Shown, HandOverInv, HandTypeOK, NoHand
<1> QED BY <1>1, <1>2, AsideKeeps DEF Shown, AtHand

LEMMA ConfirmKeeps ==
  ASSUME HandOverInv, ~Overlap, NEW w \in Worktree, Confirm(w)
  PROVE  HandOverInv'
<1>1. HandTypeOK' BY ConfirmTyped DEF HandOverInv
<1>2. \A v \in Worktree : hand[v].at \notin AtHand \cup {"again"} BY DEF Confirm, Loop, AtHand
<1>3. \A v \in Worktree \ {w} : hand'[v] = hand[v] BY DEF Confirm, HandOverInv, HandTypeOK
<1>4. UNCHANGED <<records, home>> BY DEF Confirm
<1>5. CASE hand' = [hand EXCEPT ![w] = NoHand]
  <2>1. hand'[w].at = "idle" BY <1>5 DEF HandOverInv, HandTypeOK, NoHand
  <2> QED BY <1>1, <1>3, <1>4, <2>1, AsideKeeps DEF AtHand
<1>6. CASE hand' = [hand EXCEPT ![w] = [@ EXCEPT !.at = "again", !.left = Path, !.list = records]]
  <2>1. hand'[w].at = "again" BY <1>6 DEF HandOverInv, HandTypeOK, WellInHand, HandStates
  <2>2. hand'[w].list = records BY <1>6 DEF HandOverInv, HandTypeOK, WellInHand, HandStates
  <2>3. OneAtWork' BY <1>2, <1>3 DEF OneAtWork
  <2>4. ListIsFresh' BY <1>2, <1>3, <1>4, <2>2 DEF ListIsFresh
  <2>5. LastIsCurrent' BY <1>2, <1>3, <2>1 DEF LastIsCurrent, AtHand
  <2>6. SessionMovesWithFiles' BY <1>4 DEF HandOverInv, SessionMovesWithFiles, Changes
  <2> QED BY <1>1, <1>4, <2>3, <2>4, <2>5, <2>6 DEF HandOverInv
<1> QED BY <1>5, <1>6 DEF Confirm

\* The appended record is the current one.
LEMMA CommitKeeps ==
  ASSUME HandOverInv, NEW w \in Worktree, Commit(w)
  PROVE  HandOverInv'
<1>1. HandTypeOK' BY CommitTyped DEF HandOverInv
<1>2. hand[w].at = "again" /\ \A v \in Worktree \ {w} : hand[v].at \notin AtHand \cup {"again"}
  BY DEF Commit, HandOverInv, OneAtWork
<1>3. home' = home /\ \A v \in Worktree \ {w} : hand'[v] = hand[v] BY DEF Commit, HandOverInv, HandTypeOK
<1>4. CASE hand' = [hand EXCEPT ![w] = NoHand] /\ UNCHANGED records
  <2>1. hand'[w].at = "idle" BY <1>4 DEF HandOverInv, HandTypeOK, NoHand
  <2> QED BY <1>1, <1>3, <1>4, <2>1, AsideKeeps DEF AtHand
<1>5. CASE /\ SameAsShown(w) /\ home[w] = w /\ records' = Append(hand[w].list, NewRecord(w))
           /\ hand' = [hand EXCEPT ![w].at = "write", ![w].left = Changes(hand[w].read), ![w].list = <<>>]
  <2>0. hand[w] \in HandStates BY DEF HandOverInv, HandTypeOK, WellInHand
  <2>1. hand'[w].at = "write" /\ hand'[w].left = Changes(hand[w].read) /\ hand'[w].shown = hand[w].shown
    BY <1>5, <2>0 DEF HandOverInv, HandTypeOK, HandStates
  <2>2. records' = Append(records, NewRecord(w)) BY <1>2, <1>5 DEF HandOverInv, ListIsFresh
  <2>3. /\ records \in Seq(HandRecords) /\ Len(records') = Len(records) + 1 /\ Len(records) \in Nat
        /\ records'[Len(records')] = NewRecord(w)
        /\ \A i \in 1..Len(records) : records'[i] = records[i]
    BY <2>2 DEF HandOverInv, HandTypeOK
  <2>4. OneAtWork' BY <1>2, <1>3 DEF OneAtWork
  <2>5. ListIsFresh' BY <1>2, <1>3, <2>1 DEF ListIsFresh
  <2>6. LastIsCurrent'
    <3>1. Current' = NewRecord(w) BY <2>3 DEF Current
    <3>2. records' # <<>> BY <2>2, <2>3
    <3>3. hand[w].read = hand[w].shown BY <1>5 DEF SameAsShown
    <3>4. DOMAIN [q \in {} |-> "writing"] = {} OBVIOUS
    <3>5. \A v \in Worktree : hand'[v].at \in AtHand => v = w BY <1>2, <1>3
    <3> QED BY <1>3, <1>5, <2>1, <3>1, <3>2, <3>3, <3>4, <3>5, ZenonT(40) DEF LastIsCurrent, NewRecord, AtHand
  <2>7. SessionMovesWithFiles'
    <3>1. NewRecord(w).result = "applying" BY DEF NewRecord
    <3>2. DOMAIN records = 1..Len(records) /\ DOMAIN records' = 1..(Len(records) + 1) BY <1>1, <2>3 DEF HandTypeOK
    <3>3. \A i \in DOMAIN records' : records'[i].result = "applied" => i \in DOMAIN records /\ records'[i] = records[i]
      BY <2>3, <3>1, <3>2
    <3>4. \A i \in DOMAIN records : i \in DOMAIN records' /\ records'[i] = records[i] BY <2>3, <3>2
    <3> QED BY MovesStill, <1>3, <3>3, <3>4 DEF HandOverInv
  <2> QED BY <1>1, <2>4, <2>5, <2>6, <2>7 DEF HandOverInv
<1> QED BY <1>4, <1>5 DEF Commit

\* Saving the current record, not as applied, leaves the others as they are.
LEMMA CurrentChanges ==
  ASSUME HandOverInv, NEW w \in Worktree, hand[w].at \in AtHand,
         NEW f \in HandRecords, Save(f), f.result # "applied", home' = home
  PROVE  /\ records' # <<>> /\ Current' = f
         /\ SessionMovesWithFiles'
<1>1. records \in Seq(HandRecords) /\ records # <<>> /\ Current.result = "applying"
  BY DEF HandOverInv, HandTypeOK, LastIsCurrent
<1>2. Len(records) \in Nat \ {0} BY <1>1, LastOne
<1>3. /\ records' \in Seq(HandRecords) /\ Len(records') = Len(records)
      /\ \A i \in 1..Len(records) : records'[i] = IF i = Len(records) THEN f ELSE records[i]
  BY <1>1, SaveLast
<1>4. Current' = f BY <1>2, <1>3 DEF Current
<1>5. records' # <<>> BY <1>2, <1>3
<1>6. DOMAIN records = 1..Len(records) /\ DOMAIN records' = 1..Len(records) BY <1>1, <1>3
<1>7. \A i \in DOMAIN records' : records'[i].result = "applied" => i \in DOMAIN records /\ records'[i] = records[i]
  BY <1>3, <1>6
<1>8. \A i \in DOMAIN records : records[i].result = "applied" => i \in DOMAIN records' /\ records'[i] = records[i]
  BY <1>1, <1>3, <1>6 DEF Current
<1>9. SessionMovesWithFiles' BY <1>7, <1>8, MovesStill DEF HandOverInv
<1> QED BY <1>4, <1>5, <1>9

LEMMA WriteNextKeeps ==
  ASSUME HandOverInv, NEW w \in Worktree, WriteNext(w)
  PROVE  HandOverInv'
<1> DEFINE q == First(hand[w].left)
           f == [Current EXCEPT !.files = With(@, q, "writing")]
<1>1. HandTypeOK' BY WriteNextTyped DEF HandOverInv
<1>2. hand[w].at = "write" /\ \A v \in Worktree \ {w} : hand[v].at \notin AtHand \cup {"again"}
  BY DEF WriteNext, HandOverInv, OneAtWork, AtHand
<1>3. home' = home /\ \A v \in Worktree \ {w} : hand'[v] = hand[v] BY DEF WriteNext, HandOverInv, HandTypeOK
<1>4. hand[w] \in HandStates /\ q \in hand[w].left /\ q \in Path
  BY FirstIsOne DEF HandOverInv, HandTypeOK, WellInHand, WriteNext, HandStates
<1>5. hand'[w].at = "land" /\ hand'[w].now = q /\ hand'[w].left = hand[w].left /\ hand'[w].shown = hand[w].shown
  BY <1>4 DEF WriteNext, HandOverInv, HandTypeOK, HandStates
<1>6. records # <<>> /\ Current \in HandRecords BY <1>2, LastOne DEF HandOverInv, HandTypeOK, LastIsCurrent, AtHand
<1>7. /\ f \in HandRecords /\ f.from = Current.from /\ f.version = Current.version /\ f.result = Current.result
      /\ DOMAIN f.files = DOMAIN Current.files \cup {q}
      /\ \A o \in DOMAIN f.files : f.files[o] = IF o = q THEN "writing" ELSE Current.files[o]
  BY <1>4, <1>6, MarkOne
<1>8. Save(f) BY DEF WriteNext, Mark
<1> HIDE DEF f, q
<1>9. /\ Current.from = w /\ Current.version = hand[w].shown /\ Current.result = "applying" /\ home[w] = w
      /\ DOMAIN Current.files = Changes(hand[w].shown) \ hand[w].left
      /\ \A o \in Changes(hand[w].shown) \ hand[w].left : Current.files[o] = "applied"
  BY <1>2 DEF HandOverInv, LastIsCurrent, AtHand
<1>10. records' # <<>> /\ Current' = f /\ SessionMovesWithFiles'
  BY <1>2, <1>3, <1>7, <1>8, <1>9, CurrentChanges DEF AtHand
<1>11. OneAtWork' /\ ListIsFresh' BY <1>2, <1>3, <1>5 DEF OneAtWork, ListIsFresh
<1>12. LastIsCurrent'
  <2>1. \A v \in Worktree : hand'[v].at \in AtHand => v = w BY <1>2, <1>3
  <2>2. DOMAIN f.files = (Changes(hand'[w].shown) \ hand'[w].left) \cup {q} BY <1>5, <1>7, <1>9
  <2>3. \A o \in Changes(hand'[w].shown) \ hand'[w].left : f.files[o] = "applied"
    BY <1>4, <1>5, <1>7, <1>9
  <2>4. home'[w] = w /\ f.from = w /\ f.version = hand'[w].shown /\ f.result = "applying" BY <1>3, <1>5, <1>7, <1>9
  <2>5. Changes(hand[w].shown)' = Changes(hand'[w].shown) BY DEF Changes
  <2> QED BY <1>5, <1>10, <2>1, <2>2, <2>3, <2>4, <2>5 DEF LastIsCurrent
<1> QED BY <1>1, <1>10, <1>11, <1>12 DEF HandOverInv

LEMMA LandKeeps ==
  ASSUME HandOverInv, NEW w \in Worktree, Land(w)
  PROVE  HandOverInv'
<1> DEFINE q == hand[w].now
           f == [Current EXCEPT !.files = With(@, q, "applied")]
<1>1. HandTypeOK' BY LandTyped DEF HandOverInv
<1>2. hand[w].at = "land" /\ \A v \in Worktree \ {w} : hand[v].at \notin AtHand \cup {"again"}
  BY DEF Land, HandOverInv, OneAtWork, AtHand
<1>3. home' = home BY DEF Land
<1>4. CASE Stops /\ UNCHANGED records
  <2>1. \A v \in Worktree : hand'[v].at = "idle" BY <1>4 DEF Stops, NoHand
  <2> QED BY <1>1, <1>3, <1>4, <2>1, AsideKeeps DEF AtHand
<1>5. CASE /\ Save(f)
           /\ hand' = [hand EXCEPT ![w].at = "write", ![w].now = Main, ![w].left = @ \ {q}]
  <2>1. hand[w] \in HandStates /\ q \in hand[w].left /\ q \in Path /\ hand[w].left \subseteq Changes(hand[w].shown)
    BY <1>2 DEF HandOverInv, HandTypeOK, WellInHand, HandStates, AtHand
  <2>2. \A v \in Worktree \ {w} : hand'[v] = hand[v] BY <1>5 DEF HandOverInv, HandTypeOK
  <2>3. hand'[w].at = "write" /\ hand'[w].left = hand[w].left \ {q} /\ hand'[w].shown = hand[w].shown
    BY <1>5, <2>1 DEF HandOverInv, HandTypeOK, HandStates
  <2>4. records # <<>> /\ Current \in HandRecords BY <1>2, LastOne DEF HandOverInv, HandTypeOK, LastIsCurrent, AtHand
  <2>5. /\ f \in HandRecords /\ f.from = Current.from /\ f.version = Current.version /\ f.result = Current.result
        /\ DOMAIN f.files = DOMAIN Current.files \cup {q}
        /\ \A o \in DOMAIN f.files : f.files[o] = IF o = q THEN "applied" ELSE Current.files[o]
    BY <2>1, <2>4, MarkOne
  <2> HIDE DEF f, q
  <2>6. /\ Current.from = w /\ Current.version = hand[w].shown /\ Current.result = "applying" /\ home[w] = w
        /\ DOMAIN Current.files = (Changes(hand[w].shown) \ hand[w].left) \cup {q}
        /\ \A o \in Changes(hand[w].shown) \ hand[w].left : Current.files[o] = "applied"
    BY <1>2 DEF HandOverInv, LastIsCurrent, AtHand, q
  <2>7. records' # <<>> /\ Current' = f /\ SessionMovesWithFiles'
    BY <1>2, <1>3, <1>5, <2>5, <2>6, CurrentChanges DEF AtHand
  <2>8. OneAtWork' /\ ListIsFresh' BY <1>2, <2>2, <2>3 DEF OneAtWork, ListIsFresh
  <2>9. LastIsCurrent'
    <3>1. \A v \in Worktree : hand'[v].at \in AtHand => v = w BY <1>2, <2>2
    <3>2. DOMAIN f.files = Changes(hand'[w].shown) \ hand'[w].left BY <2>1, <2>3, <2>5, <2>6
    <3>3. \A o \in Changes(hand'[w].shown) \ hand'[w].left : f.files[o] = "applied"
      BY <2>1, <2>3, <2>5, <2>6
    <3>4. home'[w] = w /\ f.from = w /\ f.version = hand'[w].shown /\ f.result = "applying" BY <1>3, <2>3, <2>5, <2>6
    <3>5. Changes(hand[w].shown)' = Changes(hand'[w].shown) BY DEF Changes
    <3> QED BY <2>3, <2>7, <3>1, <3>2, <3>3, <3>4, <3>5 DEF LastIsCurrent
  <2> QED BY <1>1, <2>7, <2>8, <2>9 DEF HandOverInv
<1> QED BY <1>4, <1>5 DEF Land

LEMMA AppliedKeeps ==
  ASSUME HandOverInv, NEW w \in Worktree, Applied(w)
  PROVE  HandOverInv'
<1> DEFINE f == [Current EXCEPT !.result = "applied"]
           n == Len(records)
<1>1. HandTypeOK' BY AppliedTyped DEF HandOverInv
<1>2. hand[w].at = "write" /\ hand[w].left = {} /\ \A v \in Worktree \ {w} : hand[v].at \notin AtHand \cup {"again"}
  BY DEF Applied, Complete, HandOverInv, OneAtWork, AtHand
<1>3. home' = [home EXCEPT ![w] = Main] /\ hand' = [hand EXCEPT ![w] = NoHand] /\ Save(f) BY DEF Applied
<1>4. hand'[w].at = "idle" /\ \A v \in Worktree \ {w} : hand'[v] = hand[v]
  BY <1>3 DEF HandOverInv, HandTypeOK, NoHand
<1>5. records \in Seq(HandRecords) /\ records # <<>> /\ Current \in HandRecords /\ n \in Nat \ {0}
  BY <1>2, LastOne DEF HandOverInv, HandTypeOK, LastIsCurrent, AtHand
<1>6. /\ Current.from = w /\ Current.version = hand[w].shown /\ Current.result = "applying"
      /\ DOMAIN Current.files = Changes(hand[w].shown)
      /\ \A o \in Changes(hand[w].shown) : Current.files[o] = "applied"
  BY <1>2 DEF HandOverInv, LastIsCurrent, AtHand
<1>7. f \in HandRecords /\ f.from = w /\ f.version = hand[w].shown /\ f.result = "applied" /\ f.files = Current.files
  BY <1>5, <1>6 DEF HandRecords
<1> HIDE DEF f
<1>8. /\ records' \in Seq(HandRecords) /\ Len(records') = n
      /\ \A i \in 1..n : records'[i] = IF i = n THEN f ELSE records[i]
  BY <1>3, <1>5, <1>7, SaveLast
<1>9. DOMAIN records = 1..n /\ DOMAIN records' = 1..n /\ n \in 1..n /\ records'[n] = f /\ records[n] = Current
  BY <1>5, <1>8 DEF Current
<1>10. OneAtWork' /\ ListIsFresh' /\ LastIsCurrent'
  BY <1>2, <1>4 DEF OneAtWork, ListIsFresh, LastIsCurrent, AtHand
<1>11. SessionMovesWithFiles'
  <2> SUFFICES ASSUME NEW v \in Worktree
               PROVE  home'[v] = Main <=> \E i \in DOMAIN records' :
                        /\ records'[i].from = v /\ records'[i].result = "applied"
                        /\ DOMAIN records'[i].files = Changes(records'[i].version)
                        /\ \A p \in DOMAIN records'[i].files : records'[i].files[p] = "applied"
    BY DEF SessionMovesWithFiles, Changes
  <2>1. CASE v = w
    <3>1. home'[v] = Main BY <1>3, <2>1 DEF HandOverInv, HandTypeOK
    <3> QED BY <1>6, <1>7, <1>9, <2>1, <3>1
  <2>2. CASE v # w
    <3>1. home'[v] = home[v] BY <1>3, <2>2 DEF HandOverInv, HandTypeOK
    <3>2. \A i \in DOMAIN records' : records'[i].from = v => records'[i] = records[i] BY <1>7, <1>8, <1>9, <2>2
    <3>3. \A i \in DOMAIN records : records[i].from = v => records'[i] = records[i] BY <1>6, <1>8, <1>9, <2>2
    <3>4. home[v] = Main <=> \E i \in DOMAIN records :
                        /\ records[i].from = v /\ records[i].result = "applied"
                        /\ DOMAIN records[i].files = Changes(records[i].version)
                        /\ \A p \in DOMAIN records[i].files : records[i].files[p] = "applied"
      BY DEF HandOverInv, SessionMovesWithFiles
    <3> QED BY <1>9, <3>1, <3>2, <3>3, <3>4
  <2> QED BY <2>1, <2>2
<1> QED BY <1>1, <1>10, <1>11 DEF HandOverInv

LEMMA BreaksOffKeeps ==
  ASSUME HandOverInv, NEW w \in Worktree, BreaksOff(w)
  PROVE  HandOverInv'
<1> DEFINE f == [Current EXCEPT !.result = "interrupted"]
<1>1. HandTypeOK' BY BreaksOffTyped DEF HandOverInv
<1>2. hand[w].at \in AtHand /\ \A v \in Worktree \ {w} : hand[v].at \notin AtHand \cup {"again"}
  BY DEF BreaksOff, HandOverInv, OneAtWork, AtHand
<1>3. home' = home /\ hand' = [hand EXCEPT ![w] = NoHand] /\ Save(f) BY DEF BreaksOff
<1>4. hand'[w].at = "idle" /\ \A v \in Worktree \ {w} : hand'[v] = hand[v]
  BY <1>3 DEF HandOverInv, HandTypeOK, NoHand
<1>5. Current \in HandRecords BY <1>2, LastOne DEF HandOverInv, HandTypeOK, LastIsCurrent
<1>6. f \in HandRecords /\ f.result = "interrupted" BY <1>5 DEF HandRecords
<1>7. SessionMovesWithFiles' BY <1>2, <1>3, <1>6, CurrentChanges
<1>8. OneAtWork' /\ ListIsFresh' /\ LastIsCurrent'
  BY <1>2, <1>4 DEF OneAtWork, ListIsFresh, LastIsCurrent, AtHand
<1> QED BY <1>1, <1>7, <1>8 DEF HandOverInv

LEMMA HandOverStep == ~Overlap /\ HandOverInv /\ [HandNext]_handVars => HandOverInv'
<1> SUFFICES ASSUME ~Overlap, HandOverInv, [HandNext]_handVars PROVE HandOverInv' OBVIOUS
<1> DEFINE Apart == UNCHANGED <<records, home, hand>>
<1>1. HandTypeOK /\ (HandTypeOK' /\ Apart => HandOverInv')
  BY AsideKeeps DEF HandOverInv
<1>2. ASSUME NEW w \in Worktree,
             Look(w) \/ ReadPath(w) \/ Shown(w) \/ Confirm(w) \/ Commit(w) \/ WriteNext(w) \/ Land(w) \/ Applied(w) \/ BreaksOff(w)
      PROVE  HandOverInv'
  BY <1>2, LookKeeps, ReadPathKeeps, ShownKeeps, ConfirmKeeps, CommitKeeps, WriteNextKeeps, LandKeeps, AppliedKeeps,
     BreaksOffKeeps
<1>3. ASSUME NEW w \in Worktree, BeginWorktree(w) \/ EndWorktree(w) \/ RemoveWorktree(w) PROVE HandOverInv'
  BY <1>1, <1>3, BeginWorktreeTyped, EndWorktreeTyped, RemoveWorktreeTyped DEF BeginWorktree, EndWorktree, RemoveWorktree
<1>4. ASSUME NEW d \in Dir, UseDir(d) \/ Edit(d) PROVE HandOverInv'
  BY <1>1, <1>4, UseDirTyped, EditTyped DEF UseDir, Edit
<1>5. CASE Die
  <2>1. \A v \in Worktree : hand'[v].at = "idle" BY <1>5 DEF Die, Stops, NoHand
  <2> QED BY <1>1, <1>5, <2>1, DieTyped, AsideKeeps DEF Die, AtHand
<1>6. CASE UNCHANGED handVars
  <2>1. HandTypeOK' BY <1>1, <1>6 DEF handVars, HandTypeOK, WellInHand, Changes
  <2> QED BY <1>1, <1>6, <2>1 DEF handVars
<1> QED BY <1>2, <1>3, <1>4, <1>5, <1>6 DEF HandNext

\* What a hand-over keeps in memory and on record is well formed.
THEOREM HandTypeCorrect == HandSpec => []HandTypeOK
<1>1. HandTypeOK /\ [HandNext]_handVars => HandTypeOK'
  <2> SUFFICES ASSUME HandTypeOK, [HandNext]_handVars PROVE HandTypeOK' OBVIOUS
  <2>1. CASE HandNext
    BY <2>1, LookTyped, ReadPathTyped, ShownTyped, ConfirmTyped, CommitTyped, WriteNextTyped, LandTyped, AppliedTyped,
       BreaksOffTyped, BeginWorktreeTyped, EndWorktreeTyped, RemoveWorktreeTyped, UseDirTyped, EditTyped, DieTyped DEF HandNext
  <2>2. CASE UNCHANGED handVars BY <2>2 DEF handVars, HandTypeOK, WellInHand, Changes
  <2> QED BY <2>1, <2>2
<1> QED BY <1>1, HandInitially, PTL DEF HandSpec

\* A session moves to the project's directory with the whole of its hand-over and not
\* otherwise, if no two hand-overs are confirmed at the same time.
THEOREM SessionsMoveWithFiles ==
  ASSUME ~Overlap
  PROVE  HandSpec => []SessionMovesWithFiles
<1>1. HandInit => HandOverInv
  <2> SUFFICES ASSUME HandInit PROVE HandOverInv OBVIOUS
  <2>1. /\ \A w \in Worktree : hand[w].at = "idle" /\ home[w] = w
        /\ records = <<>>
    BY DEF HandInit, NoHand
  <2>2. SessionMovesWithFiles BY <2>1, HandoverAssumption DEF SessionMovesWithFiles
  <2> QED BY <2>1, <2>2, HandInitially DEF HandOverInv, OneAtWork, ListIsFresh, LastIsCurrent, AtHand
<1>2. HandOverInv /\ [HandNext]_handVars => HandOverInv' BY HandOverStep
<1>3. HandOverInv => SessionMovesWithFiles BY DEF HandOverInv
<1> QED BY <1>1, <1>2, <1>3, PTL DEF HandSpec

\* A hand-over replaces a file only while it holds what the user saw, and by what was
\* shown, however many are under way.
THEOREM ShownIsWritten == HandSpec => OnlyWhatWasShown
<1> DEFINE Seen == \E w \in Worktree, p \in Path :
         /\ hand[w].shown[p] = <<tree[Main][p], tree'[Main][p]>>
         /\ \A q \in Path \ {p} : tree'[Main][q] = tree[Main][q]
<1>1. ASSUME HandTypeOK, [HandNext]_handVars, wrote' # wrote PROVE Seen
  <2>1. PICK w \in Worktree : Land(w)
    BY <1>1 DEF HandNext, handVars, Look, ReadPath, Shown, Confirm, Commit, WriteNext, Applied, BreaksOff, BeginWorktree,
         EndWorktree, RemoveWorktree, UseDir, Edit, Die
  <2> DEFINE p == hand[w].now
  <2>2. /\ p \in Path /\ hand[w].read = hand[w].shown /\ hand[w].read \in Previews
    BY <1>1, <2>1 DEF Land, HandTypeOK, WellInHand, HandStates, AtHand
  <2>3. tree[Main][p] = hand[w].read[p][1] BY <2>1 DEF Land, UnchangedSince
  <2>4. tree' = [tree EXCEPT ![Main][p] = hand[w].read[p][2]] BY <2>1 DEF Land
  <2>5. /\ tree'[Main][p] = hand[w].read[p][2]
        /\ \A q \in Path \ {p} : tree'[Main][q] = tree[Main][q]
    BY <1>1, <2>2, <2>4 DEF HandTypeOK, Dir
  <2>6. hand[w].read[p] = <<hand[w].read[p][1], hand[w].read[p][2]>> BY <2>2 DEF Previews
  <2> QED BY <2>2, <2>3, <2>5, <2>6
<1>2. HandTypeOK /\ [HandNext]_handVars => [wrote' # wrote => Seen]_handVars BY <1>1
<1> QED BY <1>2, HandTypeCorrect, PTL DEF HandSpec, OnlyWhatWasShown

-----------------------------------------------------------------------------
(* Records. *)

Grants == Folder \cup {"none"}
Leases == [by : Id \cup {NoOne}, state : {"released", "held", "reconcile"}]

Rows == [
  schema : {"old", "now", "newer"}, next : Nat \ {0}, runs : Nat, grants : Nat,
  home : [Id -> Project \cup {"none"}], root : [Project -> Folder \cup {Nowhere}],
  run : [Id -> {"none", "active"}], proc : [Id -> {"none", "live", "lost", "unknown"}],
  grant : [Id -> Grants],
  lease : [Folder -> Leases],
  large : BOOLEAN]

\* What holds of the records by themselves: a number not given yet has no session
\* and nothing was granted to it, and a project with sessions has a directory.
WellKept(r) ==
  /\ r \in Rows
  /\ \A s \in Id : s >= r.next => r.home[s] = "none" /\ r.grant[s] = "none"
  /\ \A s \in Id : r.home[s] # "none" => r.root[r.home[s]] # Nowhere

RecordsTypeOK ==
  /\ WellKept(rows)
  /\ content \in {"none", "torn", "whole"} /\ service \in {"off", "open", "safe", "on"}
  /\ saving \in BOOLEAN
  /\ tasks \in [Id -> Folder \cup {Nowhere}] /\ slots \in [Id -> Folder \cup {Nowhere}]
  /\ chosen \in Project \cup {"any", "none"}
  /\ leaving \in [Project -> [at : {"none", "stops", "revokes"}, grants : SUBSET Id]]

\* The backup differs from what the import left in the imported project and its
\* session only, and nobody works for that one unless a run was started since.
BackupFits ==
  IF import.made
    THEN /\ WellKept(import.backup) /\ import.backup.root["imported"] = Nowhere
         /\ \A s \in Id \ {import.id} :
              /\ import.print.home[s] = import.backup.home[s]
              /\ import.print.run[s] = import.backup.run[s]
         /\ import.print.grant = import.backup.grant
         /\ import.print.root["own"] = import.backup.root["own"]
         /\ import.print.runs = import.backup.runs /\ import.print.large = import.backup.large
         /\ import.id = import.backup.next /\ import.print.runs <= rows.runs
         /\ import.id \in Id
         /\ tasks[import.id] # Nowhere \/ slots[import.id] # Nowhere => import.print.runs < rows.runs
    ELSE rows.root["imported"] = Nowhere

\* RecordsOutlastUse, told apart for tasks and processes.
WorkFits == \A s \in Id :
  /\ tasks[s] # Nowhere => rows.home[s] # "none" /\ rows.root[rows.home[s]] = tasks[s]
  /\ slots[s] # Nowhere => rows.home[s] # "none" /\ rows.root[rows.home[s]] = slots[s]

\* Who holds full access.
Holders == {s \in Id : rows.grant[s] \in Folder}

\* A grant is for the directory its session's project has.
GrantsFit == \A s \in Holders :
  rows.home[s] # "none" /\ rows.root[rows.home[s]] = rows.grant[s]

\* What a choice of p has to take back is on its list, or will be.
TakesBack(p) ==
  \/ leaving[p].at = "stops" /\ \A s \in Holders : rows.home[s] # p
  \/ leaving[p].at = "revokes" /\ Holders \subseteq leaving[p].grants

ChoiceHolds ==
  /\ \A p \in Project : chosen = p =>
       \/ leaving[p].at = "stops"
       \/ leaving[p].at = "revokes" /\ \A s \in Holders \ leaving[p].grants : rows.home[s] = p
       \/ \A s \in Holders : rows.home[s] = p
  /\ chosen = "none" => Holders = {} \/ \E p \in Project : TakesBack(p)

RecordsInv == RecordsTypeOK /\ WorkFits /\ BackupFits /\ GrantsFit /\ ChoiceHolds

-----------------------------------------------------------------------------
\* Giving a lease back touches nothing else.
LEMMA ReturnedKeeps ==
  ASSUME WellKept(rows), NEW s \in Id, NEW d \in Folder
  PROVE  /\ WellKept(Returned(rows, s, d))
         /\ \A k \in {"next", "runs", "grants", "home", "root", "run", "proc", "grant", "large"} :
              Returned(rows, s, d)[k] = rows[k]
<1>1. CASE rows.lease[d] # [by |-> s, state |-> "held"] BY <1>1 DEF Returned
<1>2. CASE rows.lease[d] = [by |-> s, state |-> "held"]
  <2> DEFINE new == IF rows.proc[s] \in Unsure THEN [rows.lease[d] EXCEPT !.state = "reconcile"] ELSE Released
  <2>1. new \in Leases BY <1>2 DEF Leases, Released, NoOne
  <2>2. Returned(rows, s, d) = [rows EXCEPT !.lease[d] = new] BY <1>2 DEF Returned
  <2> HIDE DEF new
  <2>3. [rows EXCEPT !.lease[d] = new] \in Rows BY <2>1 DEF WellKept, Rows
  <2> QED BY <2>2, <2>3, SMTT(30) DEF WellKept, Rows
<1> QED BY <1>1, <1>2

\* What the fingerprint of the records tells apart.
LEMMA FingerprintKeeps ==
  ASSUME NEW r \in Rows
  PROVE  /\ Fingerprint(r).home = r.home /\ Fingerprint(r).run = r.run /\ Fingerprint(r).grant = r.grant
         /\ Fingerprint(r).root = r.root /\ Fingerprint(r).runs = r.runs /\ Fingerprint(r).large = r.large
BY DEF Rows, Fingerprint

LEMMA RecordsInitially == RecordsInit => RecordsInv
<1> SUFFICES ASSUME RecordsInit PROVE RecordsInv OBVIOUS
<1> USE RecordsShape DEF RecordsInit, NoLeaving, NoTasks
<1>1. PICK v \in {"old", "now", "newer"} : rows = [FirstRows EXCEPT !.schema = v] OBVIOUS
<1>2. FirstRows \in Rows
  <2>1. [d \in Folder |-> Released] \in [Folder -> Leases] BY DEF Released, Leases
  <2> QED BY <2>1 DEF FirstRows, Rows, Grants, Project
<1>3. rows \in Rows BY <1>1, <1>2 DEF Rows
<1>4. /\ rows.home = [s \in Id |-> IF s = 1 THEN "own" ELSE "none"] /\ rows.next = 2
      /\ rows.root = [p \in Project |-> IF p = "own" THEN FirstFolder ELSE Nowhere]
      /\ rows.grant = [s \in Id |-> "none"]
  BY <1>1 DEF FirstRows
<1>5. WellKept(rows) BY <1>3, <1>4 DEF WellKept, Id, Project
<1>6. RecordsTypeOK BY <1>5 DEF RecordsTypeOK
<1>7. WorkFits /\ BackupFits BY <1>4 DEF WorkFits, BackupFits, NoImport, Project
<1>8. Holders = {} BY <1>4 DEF Holders
<1> QED BY <1>6, <1>7, <1>8 DEF RecordsInv, GrantsFit, ChoiceHolds, Project

LEMMA OpenRecordsKeeps ==
  ASSUME RecordsInv, OpenRecords
  PROVE  RecordsInv'
<1> USE RecordsShape DEF OpenRecords, Memory
<1>1. RecordsTypeOK' BY DEF RecordsInv, RecordsTypeOK, WellKept, Rows, Grants, Id, Project, NoOne
<1>2. WorkFits' BY DEF RecordsInv, RecordsTypeOK, WellKept, Rows, WorkFits
<1>3. BackupFits' BY DEF RecordsInv, RecordsTypeOK, WellKept, Rows, BackupFits
<1>4. GrantsFit' BY DEF RecordsInv, RecordsTypeOK, WellKept, Rows, Grants, Holders, GrantsFit
<1>5. ChoiceHolds' BY DEF RecordsInv, RecordsTypeOK, WellKept, Rows, Grants, Holders, TakesBack, ChoiceHolds, Project
<1> QED BY <1>1, <1>2, <1>3, <1>4, <1>5 DEF RecordsInv

LEMMA BackUpKeeps ==
  ASSUME RecordsInv, BackUp
  PROVE  RecordsInv'
<1> USE RecordsShape DEF BackUp, Memory
<1>1. RecordsTypeOK' BY DEF RecordsInv, RecordsTypeOK, WellKept, Rows, Grants, Id, Project, NoOne
<1>2. WorkFits' BY DEF RecordsInv, RecordsTypeOK, WellKept, Rows, WorkFits
<1>3. BackupFits' BY DEF RecordsInv, RecordsTypeOK, WellKept, Rows, BackupFits
<1>4. GrantsFit' BY DEF RecordsInv, RecordsTypeOK, WellKept, Rows, Grants, Holders, GrantsFit
<1>5. ChoiceHolds' BY DEF RecordsInv, RecordsTypeOK, WellKept, Rows, Grants, Holders, TakesBack, ChoiceHolds, Project
<1> QED BY <1>1, <1>2, <1>3, <1>4, <1>5 DEF RecordsInv

LEMMA UpgradeKeeps ==
  ASSUME RecordsInv, Upgrade
  PROVE  RecordsInv'
<1> USE RecordsShape DEF Upgrade, Memory
<1>1. RecordsTypeOK' BY DEF RecordsInv, RecordsTypeOK, WellKept, Rows, Grants, Id, Project, NoOne
<1>2. WorkFits' BY DEF RecordsInv, RecordsTypeOK, WellKept, Rows, WorkFits
<1>3. BackupFits' BY DEF RecordsInv, RecordsTypeOK, WellKept, Rows, BackupFits
<1>4. GrantsFit' BY DEF RecordsInv, RecordsTypeOK, WellKept, Rows, Grants, Holders, GrantsFit
<1>5. ChoiceHolds' BY DEF RecordsInv, RecordsTypeOK, WellKept, Rows, Grants, Holders, TakesBack, ChoiceHolds, Project
<1> QED BY <1>1, <1>2, <1>3, <1>4, <1>5 DEF RecordsInv

LEMMA RecoverKeeps ==
  ASSUME RecordsInv, Recover
  PROVE  RecordsInv'
<1> USE RecordsShape DEF Recover, Memory
<1>1. RecordsTypeOK'
  <2> DEFINE kept == [d \in Folder |-> IF rows.lease[d].state = "held"
                       THEN [rows.lease[d] EXCEPT !.state = "reconcile"] ELSE rows.lease[d]]
  <2>0. kept \in [Folder -> Leases] BY DEF RecordsInv, RecordsTypeOK, WellKept, Rows, Grants, Leases
  <2>1. rows' \in Rows
    <3>1. rows \in Rows BY DEF RecordsInv, RecordsTypeOK, WellKept, Rows, Grants, Leases
    <3>2. [s \in Id |-> IF rows.proc[s] = "live" THEN "lost" ELSE rows.proc[s]] \in [Id -> {"none", "live", "lost", "unknown"}]
      BY <3>1 DEF Rows
    <3>3. rows' = [rows EXCEPT
            !.run = [s \in Id |-> "none"],
            !.proc = [s \in Id |-> IF rows.proc[s] = "live" THEN "lost" ELSE rows.proc[s]],
            !.grant = [s \in Id |-> "none"], !.lease = kept]
      OBVIOUS
    <3> HIDE DEF kept, Recover
    <3> QED BY <2>0, <3>1, <3>2, <3>3 DEF Rows, Grants
  <2>2. WellKept(rows)' BY <2>1 DEF RecordsInv, RecordsTypeOK, WellKept, Rows, Id
  <2> QED BY <2>2 DEF RecordsInv, RecordsTypeOK, WellKept, Rows, Project
<1>2. WorkFits' BY DEF RecordsInv, RecordsTypeOK, WellKept, Rows, WorkFits
<1>3. BackupFits' BY DEF RecordsInv, RecordsTypeOK, WellKept, Rows, BackupFits
<1>4. GrantsFit' BY DEF RecordsInv, RecordsTypeOK, WellKept, Rows, Grants, Holders, GrantsFit
<1>5. ChoiceHolds' BY DEF RecordsInv, RecordsTypeOK, WellKept, Rows, Grants, Holders, TakesBack, ChoiceHolds, Project
<1> QED BY <1>1, <1>2, <1>3, <1>4, <1>5 DEF RecordsInv

LEMMA CrashKeeps ==
  ASSUME RecordsInv, Crash
  PROVE  RecordsInv'
<1> USE RecordsShape DEF Crash, Forgets, NoTasks, NoLeaving
<1>1. RecordsTypeOK' BY DEF RecordsInv, RecordsTypeOK, WellKept, Rows, Grants, Id, Project, NoOne
<1>2. WorkFits' BY DEF RecordsInv, RecordsTypeOK, WellKept, Rows, WorkFits
<1>3. BackupFits' BY DEF RecordsInv, RecordsTypeOK, WellKept, Rows, BackupFits
<1>4. GrantsFit' BY DEF RecordsInv, RecordsTypeOK, WellKept, Rows, Grants, Holders, GrantsFit
<1>5. ChoiceHolds' BY DEF RecordsInv, RecordsTypeOK, WellKept, Rows, Grants, Holders, TakesBack, ChoiceHolds, Project
<1> QED BY <1>1, <1>2, <1>3, <1>4, <1>5 DEF RecordsInv

LEMMA CloseKeeps ==
  ASSUME RecordsInv, Close
  PROVE  RecordsInv'
<1> USE RecordsShape DEF Close, Forgets, NoTasks, NoLeaving, Serves
<1>1. RecordsTypeOK' BY DEF RecordsInv, RecordsTypeOK, WellKept, Rows, Grants, Id, Project, NoOne
<1>2. WorkFits' BY DEF RecordsInv, RecordsTypeOK, WellKept, Rows, WorkFits
<1>3. BackupFits' BY DEF RecordsInv, RecordsTypeOK, WellKept, Rows, BackupFits
<1>4. GrantsFit' BY DEF RecordsInv, RecordsTypeOK, WellKept, Rows, Grants, Holders, GrantsFit
<1>5. ChoiceHolds' BY DEF RecordsInv, RecordsTypeOK, WellKept, Rows, Grants, Holders, TakesBack, ChoiceHolds, Project
<1> QED BY <1>1, <1>2, <1>3, <1>4, <1>5 DEF RecordsInv

LEMMA SaveLargeKeeps ==
  ASSUME RecordsInv, SaveLarge
  PROVE  RecordsInv'
<1> USE RecordsShape DEF SaveLarge, Serves
<1>0. rows' = rows \/ rows' = [rows EXCEPT !.large = TRUE] OBVIOUS
<1>0a. saving' \in BOOLEAN BY DEF RecordsInv, RecordsTypeOK
<1>0b. UNCHANGED <<import, content, service, tasks, slots, chosen, leaving>> OBVIOUS
<1>0c. /\ rows' \in Rows /\ rows'.next = rows.next /\ rows'.home = rows.home
       /\ rows'.root = rows.root /\ rows'.grant = rows.grant /\ rows'.runs = rows.runs
  <2>1. rows \in Rows BY DEF RecordsInv, RecordsTypeOK, WellKept
  <2>2. CASE rows' = rows BY <2>1, <2>2
  <2>3. CASE rows' = [rows EXCEPT !.large = TRUE]
    <3> HIDE DEF SaveLarge
    <3> QED BY <2>1, <2>3 DEF Rows
  <2> QED BY <1>0, <2>2, <2>3
<1> HIDE DEF SaveLarge
<1>1. RecordsTypeOK'
  <2>1. WellKept(rows)' BY <1>0c DEF RecordsInv, RecordsTypeOK, WellKept
  <2> QED BY <2>1, <1>0a, <1>0b DEF RecordsInv, RecordsTypeOK
<1>2. WorkFits' BY <1>0b, <1>0c DEF RecordsInv, RecordsTypeOK, WellKept, WorkFits
<1>3. BackupFits' BY <1>0b, <1>0c DEF RecordsInv, RecordsTypeOK, WellKept, Rows, BackupFits
<1>4. GrantsFit' BY <1>0b, <1>0c DEF RecordsInv, RecordsTypeOK, WellKept, Rows, Grants, Holders, GrantsFit
<1>5. ChoiceHolds' BY <1>0b, <1>0c DEF RecordsInv, RecordsTypeOK, WellKept, Rows, Grants, Holders, TakesBack, ChoiceHolds, Project
<1> QED BY <1>1, <1>2, <1>3, <1>4, <1>5 DEF RecordsInv

LEMMA WriteContentKeeps ==
  ASSUME RecordsInv, WriteContent
  PROVE  RecordsInv'
<1> USE RecordsShape DEF WriteContent, Written
<1>1. RecordsTypeOK' BY DEF RecordsInv, RecordsTypeOK, WellKept, Rows, Grants, Id, Project, NoOne
<1>2. WorkFits' BY DEF RecordsInv, RecordsTypeOK, WellKept, Rows, WorkFits
<1>3. BackupFits' BY DEF RecordsInv, RecordsTypeOK, WellKept, Rows, BackupFits
<1>4. GrantsFit' BY DEF RecordsInv, RecordsTypeOK, WellKept, Rows, Grants, Holders, GrantsFit
<1>5. ChoiceHolds' BY DEF RecordsInv, RecordsTypeOK, WellKept, Rows, Grants, Holders, TakesBack, ChoiceHolds, Project
<1> QED BY <1>1, <1>2, <1>3, <1>4, <1>5 DEF RecordsInv

LEMMA SaveRowKeeps ==
  ASSUME RecordsInv, SaveRow
  PROVE  RecordsInv'
<1> USE RecordsShape DEF SaveRow
<1>1. RecordsTypeOK' BY DEF RecordsInv, RecordsTypeOK, WellKept, Rows, Grants, Id, Project, NoOne
<1>2. WorkFits' BY DEF RecordsInv, RecordsTypeOK, WellKept, Rows, WorkFits
<1>3. BackupFits' BY DEF RecordsInv, RecordsTypeOK, WellKept, Rows, BackupFits
<1>4. GrantsFit' BY DEF RecordsInv, RecordsTypeOK, WellKept, Rows, Grants, Holders, GrantsFit
<1>5. ChoiceHolds' BY DEF RecordsInv, RecordsTypeOK, WellKept, Rows, Grants, Holders, TakesBack, ChoiceHolds, Project
<1> QED BY <1>1, <1>2, <1>3, <1>4, <1>5 DEF RecordsInv

LEMMA CreateSessionKeeps ==
  ASSUME RecordsInv, NEW p \in Project, CreateSession(p)
  PROVE  RecordsInv'
<1> USE RecordsShape DEF CreateSession, Serves, Memory
<1>1. RecordsTypeOK'
  <2>1. rows' \in Rows
    <3>1. rows \in Rows /\ rows.next + 1 \in Nat \ {0} BY DEF RecordsInv, RecordsTypeOK, WellKept, Rows, Grants, Leases
    <3>2. [rows.home EXCEPT ![rows.next] = p] \in [Id -> Project \cup {"none"}] BY <3>1 DEF Rows
    <3> QED BY <3>1, <3>2 DEF Rows
  <2>2. WellKept(rows)' BY <2>1 DEF RecordsInv, RecordsTypeOK, WellKept, Rows, Id
  <2> QED BY <2>2 DEF RecordsInv, RecordsTypeOK, WellKept, Rows, Project
<1>2. WorkFits' BY DEF RecordsInv, RecordsTypeOK, WellKept, Rows, WorkFits
<1>3. BackupFits' BY DEF RecordsInv, RecordsTypeOK, WellKept, Rows, BackupFits
<1>4. GrantsFit' BY DEF RecordsInv, RecordsTypeOK, WellKept, Rows, Grants, Holders, GrantsFit
<1>5. ChoiceHolds' BY DEF RecordsInv, RecordsTypeOK, WellKept, Rows, Grants, Holders, TakesBack, ChoiceHolds, Project
<1> QED BY <1>1, <1>2, <1>3, <1>4, <1>5 DEF RecordsInv

LEMMA RunStartsKeeps ==
  ASSUME RecordsInv, NEW s \in Id, RunStarts(s)
  PROVE  RecordsInv'
<1> USE RecordsShape DEF RunStarts, Serves, Sessions
<1> DEFINE d == rows.root[rows.home[s]]
<1>0. d \in Folder /\ rows.home[s] \in Project BY DEF RecordsInv, RecordsTypeOK, WellKept, Rows
<1>1. RecordsTypeOK'
  <2>1. rows' \in Rows
    <3>1. rows \in Rows /\ rows.runs + 1 \in Nat BY DEF RecordsInv, RecordsTypeOK, WellKept, Rows, Grants, Leases
    <3>2. [by |-> s, state |-> "held"] \in Leases BY DEF Leases
    <3>3. [rows.lease EXCEPT ![d] = [by |-> s, state |-> "held"]] \in [Folder -> Leases] BY <3>1, <3>2 DEF Rows
    <3>4. [rows.run EXCEPT ![s] = "active"] \in [Id -> {"none", "active"}] BY <3>1 DEF Rows
    <3> QED BY <3>1, <3>3, <3>4 DEF Rows
  <2>2. WellKept(rows)' BY <2>1 DEF RecordsInv, RecordsTypeOK, WellKept, Rows, Id
  <2>3. tasks' \in [Id -> Folder \cup {Nowhere}] BY <1>0 DEF RecordsInv, RecordsTypeOK
  <2> QED BY <2>2, <2>3 DEF RecordsInv, RecordsTypeOK
<1>2. WorkFits' BY DEF RecordsInv, RecordsTypeOK, WellKept, Rows, WorkFits
<1>3. BackupFits' BY DEF RecordsInv, RecordsTypeOK, WellKept, Rows, BackupFits
<1>4. GrantsFit' BY DEF RecordsInv, RecordsTypeOK, WellKept, Rows, Grants, Holders, GrantsFit
<1>5. ChoiceHolds' BY DEF RecordsInv, RecordsTypeOK, WellKept, Rows, Grants, Holders, TakesBack, ChoiceHolds, Project
<1> QED BY <1>1, <1>2, <1>3, <1>4, <1>5 DEF RecordsInv

LEMMA SpawnKeeps ==
  ASSUME RecordsInv, NEW s \in Id, Spawn(s)
  PROVE  RecordsInv'
<1> USE RecordsShape DEF Spawn, Serves
<1>1. RecordsTypeOK' BY DEF RecordsInv, RecordsTypeOK, WellKept, Rows, Grants, Id, Project, NoOne
<1>2. WorkFits' BY DEF RecordsInv, RecordsTypeOK, WellKept, Rows, WorkFits
<1>3. BackupFits' BY DEF RecordsInv, RecordsTypeOK, WellKept, Rows, BackupFits
<1>4. GrantsFit' BY DEF RecordsInv, RecordsTypeOK, WellKept, Rows, Grants, Holders, GrantsFit
<1>5. ChoiceHolds' BY DEF RecordsInv, RecordsTypeOK, WellKept, Rows, Grants, Holders, TakesBack, ChoiceHolds, Project
<1> QED BY <1>1, <1>2, <1>3, <1>4, <1>5 DEF RecordsInv

LEMMA EndRunKeeps ==
  ASSUME RecordsInv, NEW s \in Id, EndRun(s)
  PROVE  RecordsInv'
<1> USE RecordsShape DEF EndRun, Serves, Memory
<1>1. RecordsTypeOK' BY DEF RecordsInv, RecordsTypeOK, WellKept, Rows, Grants, Id, Project, NoOne
<1>2. WorkFits' BY DEF RecordsInv, RecordsTypeOK, WellKept, Rows, WorkFits
<1>3. BackupFits' BY DEF RecordsInv, RecordsTypeOK, WellKept, Rows, BackupFits
<1>4. GrantsFit' BY DEF RecordsInv, RecordsTypeOK, WellKept, Rows, Grants, Holders, GrantsFit
<1>5. ChoiceHolds' BY DEF RecordsInv, RecordsTypeOK, WellKept, Rows, Grants, Holders, TakesBack, ChoiceHolds, Project
<1> QED BY <1>1, <1>2, <1>3, <1>4, <1>5 DEF RecordsInv

LEMMA TaskGoneKeeps ==
  ASSUME RecordsInv, NEW s \in Id, TaskGone(s)
  PROVE  RecordsInv'
<1> USE RecordsShape DEF TaskGone, Serves
<1>0. rows' = Returned(rows, s, tasks[s]) \/ rows' = rows OBVIOUS
<1>0a. tasks[s] \in Folder BY DEF RecordsInv, RecordsTypeOK
<1>1. RecordsTypeOK'
  <2>1. WellKept(rows)' BY <1>0, <1>0a, ReturnedKeeps DEF RecordsInv, RecordsTypeOK
  <2> QED BY <2>1 DEF RecordsInv, RecordsTypeOK
<1>2. WorkFits' BY <1>0, <1>0a, ReturnedKeeps DEF RecordsInv, RecordsTypeOK, WellKept, Rows, WorkFits
<1>3. BackupFits' BY <1>0, <1>0a, ReturnedKeeps, SMTT(30) DEF RecordsInv, RecordsTypeOK, WellKept, Rows, BackupFits
<1>4. GrantsFit' BY <1>0, <1>0a, ReturnedKeeps DEF RecordsInv, RecordsTypeOK, WellKept, Rows, Grants, Holders, GrantsFit
<1>5. ChoiceHolds' BY <1>0, <1>0a, ReturnedKeeps DEF RecordsInv, RecordsTypeOK, WellKept, Rows, Grants, Holders, TakesBack, ChoiceHolds, Project
<1> QED BY <1>1, <1>2, <1>3, <1>4, <1>5 DEF RecordsInv

LEMMA ProcessOverKeeps ==
  ASSUME RecordsInv, NEW s \in Id, ProcessOver(s)
  PROVE  RecordsInv'
<1> USE RecordsShape DEF ProcessOver, Serves, Memory
<1>0. PICK v \in {"none", "unknown"} : rows' = [rows EXCEPT !.proc[s] = v] OBVIOUS
<1>1. RecordsTypeOK'
  <2>1. rows' \in Rows BY <1>0 DEF RecordsInv, RecordsTypeOK, WellKept, Rows
  <2>2. WellKept(rows)' BY <1>0, <2>1 DEF RecordsInv, RecordsTypeOK, WellKept, Rows
  <2> QED BY <2>2 DEF RecordsInv, RecordsTypeOK
<1>2. WorkFits' BY DEF RecordsInv, RecordsTypeOK, WellKept, Rows, WorkFits
<1>3. BackupFits' BY DEF RecordsInv, RecordsTypeOK, WellKept, Rows, BackupFits
<1>4. GrantsFit' BY DEF RecordsInv, RecordsTypeOK, WellKept, Rows, Grants, Holders, GrantsFit
<1>5. ChoiceHolds' BY DEF RecordsInv, RecordsTypeOK, WellKept, Rows, Grants, Holders, TakesBack, ChoiceHolds, Project
<1> QED BY <1>1, <1>2, <1>3, <1>4, <1>5 DEF RecordsInv

LEMMA SlotGoneKeeps ==
  ASSUME RecordsInv, NEW s \in Id, SlotGone(s)
  PROVE  RecordsInv'
<1> USE RecordsShape DEF SlotGone, Serves
<1>0. rows' = Returned(rows, s, slots[s]) \/ rows' = rows OBVIOUS
<1>0a. slots[s] \in Folder BY DEF RecordsInv, RecordsTypeOK
<1>1. RecordsTypeOK'
  <2>1. WellKept(rows)' BY <1>0, <1>0a, ReturnedKeeps DEF RecordsInv, RecordsTypeOK
  <2> QED BY <2>1 DEF RecordsInv, RecordsTypeOK
<1>2. WorkFits' BY <1>0, <1>0a, ReturnedKeeps DEF RecordsInv, RecordsTypeOK, WellKept, Rows, WorkFits
<1>3. BackupFits' BY <1>0, <1>0a, ReturnedKeeps, SMTT(30) DEF RecordsInv, RecordsTypeOK, WellKept, Rows, BackupFits
<1>4. GrantsFit' BY <1>0, <1>0a, ReturnedKeeps DEF RecordsInv, RecordsTypeOK, WellKept, Rows, Grants, Holders, GrantsFit
<1>5. ChoiceHolds' BY <1>0, <1>0a, ReturnedKeeps DEF RecordsInv, RecordsTypeOK, WellKept, Rows, Grants, Holders, TakesBack, ChoiceHolds, Project
<1> QED BY <1>1, <1>2, <1>3, <1>4, <1>5 DEF RecordsInv

LEMMA DeleteSessionKeeps ==
  ASSUME RecordsInv, NEW s \in Id, DeleteSession(s)
  PROVE  RecordsInv'
<1> USE RecordsShape DEF DeleteSession, Serves, Sessions, InUse, AtWork, Without, Released, Memory
<1>1. RecordsTypeOK'
  <2>0. rows \in Rows BY DEF RecordsInv, RecordsTypeOK, WellKept
  <2>1. [d \in Folder |-> IF rows.lease[d].by \in {s} THEN Released ELSE rows.lease[d]] \in [Folder -> Leases]
    BY <2>0 DEF Rows, Leases
  <2>2. rows' \in Rows BY <2>0, <2>1 DEF Rows, Grants
  <2>3. /\ rows'.next = rows.next /\ rows'.root = rows.root
        /\ rows'.home = [t \in Id |-> IF t \in {s} THEN "none" ELSE rows.home[t]]
        /\ rows'.grant = [t \in Id |-> IF t \in {s} THEN "none" ELSE rows.grant[t]]
    BY <2>0 DEF Rows
  <2>4. WellKept(rows)' BY <2>2, <2>3 DEF RecordsInv, RecordsTypeOK, WellKept
  <2> QED BY <2>4 DEF RecordsInv, RecordsTypeOK
<1>2. WorkFits' BY DEF RecordsInv, RecordsTypeOK, WellKept, Rows, WorkFits
<1>3. BackupFits' BY DEF RecordsInv, RecordsTypeOK, WellKept, Rows, BackupFits
<1>4. GrantsFit' BY DEF RecordsInv, RecordsTypeOK, WellKept, Rows, Grants, Holders, GrantsFit
<1>5. ChoiceHolds' BY DEF RecordsInv, RecordsTypeOK, WellKept, Rows, Grants, Holders, TakesBack, ChoiceHolds, Project
<1> QED BY <1>1, <1>2, <1>3, <1>4, <1>5 DEF RecordsInv

LEMMA DeleteProjectKeeps ==
  ASSUME RecordsInv, NEW p \in Project, DeleteProject(p)
  PROVE  RecordsInv'
<1> USE RecordsShape DEF DeleteProject, Serves, Memory
<1>0. rows \in Rows /\ SessionsOf(p) = {s \in Id : rows.home[s] = p} /\ p # "none"
  BY DEF RecordsInv, RecordsTypeOK, WellKept, SessionsOf, Project
<1>0a. /\ rows'.next = rows.next /\ rows'.runs = rows.runs
       /\ rows'.root = [rows.root EXCEPT ![p] = Nowhere]
       /\ rows'.home = [s \in Id |-> IF s \in SessionsOf(p) THEN "none" ELSE rows.home[s]]
       /\ rows'.grant = [s \in Id |-> IF s \in SessionsOf(p) THEN "none" ELSE rows.grant[s]]
  BY <1>0 DEF Rows, Without
<1>0b. Holders' = Holders \ SessionsOf(p) BY <1>0a DEF Holders
<1>0c. UNCHANGED <<import, content, service, saving, tasks, slots, leaving>> OBVIOUS
<1>0d. \A s \in SessionsOf(p) : tasks[s] = Nowhere /\ slots[s] = Nowhere BY DEF InUse, AtWork
<1>0e. chosen' = IF chosen = p THEN "none" ELSE chosen OBVIOUS
<1>1. RecordsTypeOK'
  <2>0. [d \in Folder |-> IF rows.lease[d].by \in SessionsOf(p) THEN Released ELSE rows.lease[d]] \in [Folder -> Leases]
    BY <1>0 DEF Rows, Released, Leases
  <2>1. rows' \in Rows BY <1>0, <2>0 DEF Rows, Grants, Without
  <2> HIDE DEF DeleteProject
  <2>2. WellKept(rows)' BY <1>0, <1>0a, <2>1 DEF RecordsInv, RecordsTypeOK, WellKept, Rows
  <2> QED BY <2>2, <1>0c, <1>0e DEF RecordsInv, RecordsTypeOK
<1> HIDE DEF DeleteProject
<1>2. WorkFits' BY <1>0, <1>0a, <1>0c, <1>0d DEF RecordsInv, WorkFits, Rows
<1>3. BackupFits' BY <1>0, <1>0a, <1>0c DEF RecordsInv, RecordsTypeOK, BackupFits, Rows
<1>4. GrantsFit'
  <2> SUFFICES ASSUME NEW s \in Holders' PROVE rows'.home[s] # "none" /\ rows'.root[rows'.home[s]] = rows'.grant[s]
    BY DEF GrantsFit
  <2>1. s \in Holders /\ s \in Id /\ s \notin SessionsOf(p) BY <1>0b DEF Holders
  <2> QED BY <2>1, <1>0, <1>0a DEF RecordsInv, GrantsFit, Rows
<1>5. ChoiceHolds'
  <2>1. \A s \in Holders' : s \in Holders /\ rows'.home[s] = rows.home[s] /\ rows.home[s] # p
    BY <1>0, <1>0a, <1>0b DEF Holders
  <2>2. \A q \in Project : TakesBack(q) => TakesBack(q)' BY <2>1, <1>0b, <1>0c DEF TakesBack
  <2>3. CASE chosen = p
    <3>1. chosen' = "none" BY <2>3, <1>0e
    <3>2. Holders' = {} \/ TakesBack(p)' BY <2>1, <2>3, <1>0c DEF RecordsInv, ChoiceHolds, TakesBack
    <3> QED BY <3>1, <3>2 DEF ChoiceHolds, Project
  <2>4. CASE chosen # p
    <3>1. chosen' = chosen BY <2>4, <1>0e
    <3>2. ASSUME NEW q \in Project, chosen = q
          PROVE  \/ leaving'[q].at = "stops"
                 \/ leaving'[q].at = "revokes" /\ \A s \in Holders' \ leaving'[q].grants : rows'.home[s] = q
                 \/ \A s \in Holders' : rows'.home[s] = q
      BY <2>1, <3>2, <1>0c DEF RecordsInv, ChoiceHolds
    <3>3. chosen = "none" => Holders' = {} \/ \E q \in Project : TakesBack(q)'
      BY <1>0b, <2>2 DEF RecordsInv, ChoiceHolds
    <3> QED BY <3>1, <3>2, <3>3 DEF ChoiceHolds
  <2> QED BY <2>3, <2>4
<1> QED BY <1>1, <1>2, <1>3, <1>4, <1>5 DEF RecordsInv

LEMMA ChangeRootKeeps ==
  ASSUME RecordsInv, NEW p \in Project, NEW d \in Folder, ChangeRoot(p, d)
  PROVE  RecordsInv'
<1> USE RecordsShape DEF ChangeRoot, Serves, Memory
<1>0. rows \in Rows /\ SessionsOf(p) = {s \in Id : rows.home[s] = p} /\ p # "none"
  BY DEF RecordsInv, RecordsTypeOK, WellKept, SessionsOf, Project
<1>0a. /\ rows'.next = rows.next /\ rows'.runs = rows.runs /\ rows'.home = rows.home
       /\ rows'.root = [rows.root EXCEPT ![p] = d]
       /\ rows'.grant = [s \in Id |-> IF s \in SessionsOf(p) THEN "none" ELSE rows.grant[s]]
  BY <1>0 DEF Rows, Moved
<1>0b. Holders' = Holders \ SessionsOf(p) BY <1>0a DEF Holders
<1>0c. UNCHANGED <<import, content, service, Memory>> OBVIOUS
<1>0d. \A s \in SessionsOf(p) : tasks[s] = Nowhere /\ slots[s] = Nowhere BY DEF InUse, AtWork
<1>0e. rows.root[p] # Nowhere OBVIOUS
<1>1. RecordsTypeOK'
  <2>1. rows' \in Rows BY <1>0 DEF Rows, Grants, Moved
  <2> HIDE DEF ChangeRoot
  <2>2. WellKept(rows)' BY <1>0, <1>0a, <2>1 DEF RecordsInv, RecordsTypeOK, WellKept, Rows
  <2> QED BY <2>2, <1>0c DEF RecordsInv, RecordsTypeOK
<1> HIDE DEF ChangeRoot
<1>2. WorkFits' BY <1>0, <1>0a, <1>0c, <1>0d DEF RecordsInv, WorkFits, Rows
<1>3. BackupFits' BY <1>0, <1>0a, <1>0c, <1>0e DEF RecordsInv, RecordsTypeOK, BackupFits, Rows
<1>4. GrantsFit'
  <2> SUFFICES ASSUME NEW s \in Holders' PROVE rows'.home[s] # "none" /\ rows'.root[rows'.home[s]] = rows'.grant[s]
    BY DEF GrantsFit
  <2>1. s \in Holders /\ s \in Id /\ s \notin SessionsOf(p) BY <1>0b DEF Holders
  <2> QED BY <2>1, <1>0, <1>0a DEF RecordsInv, GrantsFit, Rows
<1>5. ChoiceHolds' BY <1>0a, <1>0b, <1>0c DEF RecordsInv, ChoiceHolds, TakesBack
<1> QED BY <1>1, <1>2, <1>3, <1>4, <1>5 DEF RecordsInv

LEMMA GrantFullKeeps ==
  ASSUME RecordsInv, NEW s \in Id, GrantFull(s)
  PROVE  RecordsInv'
<1> USE RecordsShape DEF GrantFull, Serves, Sessions, Memory
<1> DEFINE d == rows.root[rows.home[s]]
<1>0. d \in Folder /\ rows.home[s] \in Project BY DEF RecordsInv, RecordsTypeOK, WellKept, Rows
<1>0a. /\ rows'.home = rows.home /\ rows'.root = rows.root /\ rows'.grant = [rows.grant EXCEPT ![s] = d]
       /\ rows'.next = rows.next
  BY DEF RecordsInv, RecordsTypeOK, WellKept, Rows
<1>0b. Holders' = Holders \cup {s} BY <1>0, <1>0a DEF RecordsInv, RecordsTypeOK, WellKept, Rows, Holders
<1>1. RecordsTypeOK'
  <2>1. rows' \in Rows
    <3>1. rows \in Rows /\ rows.grants + 1 \in Nat BY DEF RecordsInv, RecordsTypeOK, WellKept, Rows, Grants, Leases
    <3>2. [rows.grant EXCEPT ![s] = d] \in [Id -> Grants] BY <1>0, <3>1 DEF Rows, Grants
    <3> QED BY <3>1, <3>2 DEF Rows
  <2>2. WellKept(rows)' BY <2>1, <1>0, <1>0a DEF RecordsInv, RecordsTypeOK, WellKept
  <2> QED BY <2>2 DEF RecordsInv, RecordsTypeOK
<1>2. WorkFits' BY DEF RecordsInv, RecordsTypeOK, WellKept, Rows, WorkFits
<1>3. BackupFits' BY DEF RecordsInv, RecordsTypeOK, WellKept, Rows, BackupFits
<1>4. GrantsFit' BY <1>0, <1>0a, <1>0b DEF RecordsInv, RecordsTypeOK, WellKept, Rows, GrantsFit
<1>5. ChoiceHolds'
  <2>1. chosen = "any" \/ chosen = rows.home[s] OBVIOUS
  <2> HIDE DEF GrantFull
  <2>2. UNCHANGED <<chosen, leaving>> BY DEF GrantFull
  <2>3. Holders \subseteq Id BY DEF Holders
  <2> QED BY <2>1, <2>2, <2>3, <1>0, <1>0a, <1>0b DEF RecordsInv, TakesBack, ChoiceHolds, Project
<1> QED BY <1>1, <1>2, <1>3, <1>4, <1>5 DEF RecordsInv

LEMMA RevokeKeeps ==
  ASSUME RecordsInv, NEW s \in Id, Revoke(s)
  PROVE  RecordsInv'
<1> USE RecordsShape DEF Revoke, Serves, Memory
<1>1. RecordsTypeOK'
  <2>1. rows' \in Rows BY DEF RecordsInv, RecordsTypeOK, WellKept, Rows, Grants
  <2>2. /\ rows'.next = rows.next /\ rows'.home = rows.home /\ rows'.root = rows.root
        /\ rows'.grant = [rows.grant EXCEPT ![s] = "none"]
    BY DEF RecordsInv, RecordsTypeOK, WellKept, Rows
  <2>3. rows.grant \in [Id -> Grants] BY DEF RecordsInv, RecordsTypeOK, WellKept, Rows
  <2>4. WellKept(rows)' BY <2>1, <2>2, <2>3 DEF RecordsInv, RecordsTypeOK, WellKept
  <2> QED BY <2>4 DEF RecordsInv, RecordsTypeOK
<1>2. WorkFits' BY DEF RecordsInv, RecordsTypeOK, WellKept, Rows, WorkFits
<1>3. BackupFits' BY DEF RecordsInv, RecordsTypeOK, WellKept, Rows, BackupFits
<1>4. GrantsFit' BY DEF RecordsInv, RecordsTypeOK, WellKept, Rows, Grants, Holders, GrantsFit
<1>5. ChoiceHolds' BY DEF RecordsInv, RecordsTypeOK, WellKept, Rows, Grants, Holders, TakesBack, ChoiceHolds, Project
<1> QED BY <1>1, <1>2, <1>3, <1>4, <1>5 DEF RecordsInv

LEMMA ChooseKeeps ==
  ASSUME RecordsInv, NEW p \in Project, Choose(p)
  PROVE  RecordsInv'
<1> USE RecordsShape DEF Choose, Serves, Chooses, NoLeaving
<1>1. RecordsTypeOK' BY DEF RecordsInv, RecordsTypeOK
<1>2. WorkFits' BY DEF RecordsInv, RecordsTypeOK, WellKept, Rows, WorkFits
<1>3. BackupFits' BY DEF RecordsInv, RecordsTypeOK, WellKept, Rows, BackupFits
<1>4. GrantsFit' BY DEF RecordsInv, RecordsTypeOK, WellKept, Rows, Grants, Holders, GrantsFit
<1>5. ChoiceHolds'
  <2>1. leaving'[p].at = "stops" BY DEF RecordsInv, RecordsTypeOK
  <2> QED BY <2>1 DEF ChoiceHolds, Project
<1> QED BY <1>1, <1>2, <1>3, <1>4, <1>5 DEF RecordsInv

LEMMA ListGrantsKeeps ==
  ASSUME RecordsInv, NEW p \in Project, ListGrants(p)
  PROVE  RecordsInv'
<1> USE RecordsShape DEF ListGrants, Serves
<1>0. {s \in Sessions : rows.grant[s] \in Folder /\ rows.home[s] # p} = {s \in Holders : rows.home[s] # p}
  BY DEF RecordsInv, GrantsFit, Sessions, Holders
<1>0a. leaving' = [leaving EXCEPT ![p] = [at |-> "revokes", grants |-> {s \in Holders : rows.home[s] # p}]]
  BY <1>0
<1>0b. Holders' = Holders BY DEF Holders
<1>0c. {s \in Holders : rows.home[s] # p} \in SUBSET Id BY DEF Holders
<1>0d. UNCHANGED <<rows, import, content, service, saving, tasks, slots, chosen>> /\ leaving[p].at = "stops" OBVIOUS
<1> HIDE DEF ListGrants
<1>1. RecordsTypeOK' BY <1>0a, <1>0c, <1>0d DEF RecordsInv, RecordsTypeOK
<1>2. WorkFits' BY <1>0d DEF RecordsInv, RecordsTypeOK, WellKept, Rows, WorkFits
<1>3. BackupFits' BY <1>0d DEF RecordsInv, RecordsTypeOK, WellKept, Rows, BackupFits
<1>4. GrantsFit' BY <1>0b, <1>0d DEF RecordsInv, GrantsFit
<1>5. ChoiceHolds'
  <2>1. leaving'[p].at = "revokes" /\ leaving'[p].grants = {s \in Holders : rows.home[s] # p}
    BY <1>0a DEF RecordsInv, RecordsTypeOK
  <2>2. \A q \in Project \ {p} : leaving'[q] = leaving[q] BY <1>0a DEF RecordsInv, RecordsTypeOK
  <2>3. \A q \in Project : chosen = q =>
          \/ leaving'[q].at = "stops"
          \/ leaving'[q].at = "revokes" /\ \A s \in Holders \ leaving'[q].grants : rows.home[s] = q
          \/ \A s \in Holders : rows.home[s] = q
    BY <2>1, <2>2 DEF RecordsInv, ChoiceHolds
  <2>4. \A q \in Project : TakesBack(q) => TakesBack(q)'
    BY <1>0b, <1>0d, <2>1, <2>2 DEF TakesBack
  <2> QED BY <1>0b, <1>0d, <2>3, <2>4 DEF RecordsInv, ChoiceHolds
<1> QED BY <1>1, <1>2, <1>3, <1>4, <1>5 DEF RecordsInv

LEMMA RevokeNextKeeps ==
  ASSUME RecordsInv, NEW p \in Project, RevokeNext(p)
  PROVE  RecordsInv'
<1> USE RecordsShape DEF Serves
<1>0. UNCHANGED <<import, content, service, saving, tasks, slots, chosen>> BY DEF RevokeNext
<1>0a. rows \in Rows BY DEF RecordsInv, RecordsTypeOK, WellKept
<1>1. CASE leaving[p].grants = {}
  <2>0. leaving[p].at = "revokes" /\ rows' = rows BY <1>1 DEF RevokeNext
  <2>0a. leaving' = [leaving EXCEPT ![p] = NoLeaving] BY <1>1 DEF RevokeNext
  <2>0b. Holders' = Holders BY <2>0 DEF Holders
  <2>1. RecordsTypeOK' BY <2>0, <2>0a, <1>0 DEF RecordsInv, RecordsTypeOK, NoLeaving
  <2>2. WorkFits' /\ BackupFits' /\ GrantsFit' BY <2>0, <2>0b, <1>0 DEF RecordsInv, WorkFits, BackupFits, GrantsFit
  <2>3. ChoiceHolds'
    <3>1. \A q \in Project \ {p} : leaving'[q] = leaving[q] BY <2>0a DEF RecordsInv, RecordsTypeOK
    <3>2. \A q \in Project : TakesBack(q) => TakesBack(q)' \/ Holders' = {}
      BY <3>1, <2>0, <2>0b, <1>1 DEF TakesBack
    <3>3. \A q \in Project : chosen = q =>
            \/ leaving'[q].at = "stops"
            \/ leaving'[q].at = "revokes" /\ \A s \in Holders \ leaving'[q].grants : rows.home[s] = q
            \/ \A s \in Holders : rows.home[s] = q
      BY <3>1, <2>0, <1>1 DEF RecordsInv, ChoiceHolds
    <3> QED BY <3>2, <3>3, <2>0, <2>0b, <1>0 DEF RecordsInv, ChoiceHolds
  <2> QED BY <2>1, <2>2, <2>3 DEF RecordsInv
<1>2. CASE leaving[p].grants # {}
  <2>0. PICK s \in leaving[p].grants :
          /\ leaving' = [leaving EXCEPT ![p].grants = @ \ {s}]
          /\ rows' = [rows EXCEPT !.grant[s] = "none"]
    BY <1>2 DEF RevokeNext
  <2>0a. s \in Id BY DEF RecordsInv, RecordsTypeOK
  <2>0b. /\ rows' \in Rows /\ rows'.next = rows.next /\ rows'.home = rows.home /\ rows'.runs = rows.runs
         /\ rows'.root = rows.root /\ rows'.grant = [rows.grant EXCEPT ![s] = "none"]
    BY <2>0, <1>0a DEF Rows, Grants
  <2>0c. rows.grant \in [Id -> Grants] BY <1>0a DEF Rows
  <2>0d. Holders' = Holders \ {s} BY <2>0a, <2>0b, <2>0c DEF Holders
  <2>0e. \A q \in Project : /\ leaving'[q].at = leaving[q].at
                            /\ leaving'[q].grants = IF q = p THEN leaving[q].grants \ {s} ELSE leaving[q].grants
    BY <2>0 DEF RecordsInv, RecordsTypeOK
  <2>1. RecordsTypeOK'
    <3>1. WellKept(rows)' BY <2>0a, <2>0b, <2>0c DEF RecordsInv, RecordsTypeOK, WellKept
    <3>2. leaving' \in [Project -> [at : {"none", "stops", "revokes"}, grants : SUBSET Id]]
      BY <2>0 DEF RecordsInv, RecordsTypeOK
    <3> QED BY <3>1, <3>2, <1>0 DEF RecordsInv, RecordsTypeOK
  <2>2. WorkFits' /\ BackupFits' BY <2>0b, <1>0 DEF RecordsInv, WorkFits, BackupFits
  <2>3. GrantsFit' BY <2>0b, <2>0d, <2>0c DEF RecordsInv, GrantsFit, Holders
  <2>4. ChoiceHolds'
    <3>1. \A q \in Project : TakesBack(q) => TakesBack(q)' BY <2>0b, <2>0d, <2>0e DEF TakesBack
    <3>2. ASSUME NEW q \in Project, chosen = q
          PROVE  \/ leaving'[q].at = "stops"
                 \/ leaving'[q].at = "revokes" /\ \A t \in Holders' \ leaving'[q].grants : rows'.home[t] = q
                 \/ \A t \in Holders' : rows'.home[t] = q
      <4>1. \/ leaving[q].at = "stops"
            \/ leaving[q].at = "revokes" /\ \A t \in Holders \ leaving[q].grants : rows.home[t] = q
            \/ \A t \in Holders : rows.home[t] = q
        BY <3>2 DEF RecordsInv, ChoiceHolds
      <4>2. Holders' \ leaving'[q].grants \subseteq Holders \ leaving[q].grants BY <2>0d, <2>0e
      <4>3. leaving'[q].at = leaving[q].at BY <2>0e
      <4> QED BY <4>1, <4>2, <4>3, <2>0b, <2>0d
    <3>3. chosen = "none" => Holders' = {} \/ \E q \in Project : TakesBack(q)'
      BY <2>0d, <3>1 DEF RecordsInv, ChoiceHolds
    <3> QED BY <3>2, <3>3, <1>0 DEF ChoiceHolds
  <2> QED BY <2>1, <2>2, <2>3, <2>4 DEF RecordsInv
<1> QED BY <1>1, <1>2

LEMMA ImportKeeps ==
  ASSUME RecordsInv, NEW d \in Folder, NEW offer \in Offers, Import(d, offer)
  PROVE  RecordsInv'
<1> USE RecordsShape DEF Serves
<1> DEFINE n == rows.next
<1>0. /\ ~import.made /\ n <= MaxId /\ rows' = WithImported(rows, d, offer)
      /\ import' = [made |-> TRUE, backup |-> rows, id |-> n, print |-> Fingerprint(rows')]
      /\ UNCHANGED <<content, service, Memory>>
  BY DEF Import
<1>1. rows \in Rows /\ rows.root["imported"] = Nowhere /\ n \in Id
  BY <1>0 DEF RecordsInv, RecordsTypeOK, WellKept, BackupFits, Rows, Id
<1>2. rows.home[n] = "none" /\ rows.grant[n] = "none" BY <1>1 DEF RecordsInv, RecordsTypeOK, WellKept, Rows
<1>3. tasks[n] = Nowhere /\ slots[n] = Nowhere BY <1>1, <1>2 DEF RecordsInv, WorkFits
<1>4. \A s \in Id : rows.home[s] # "imported" BY <1>1 DEF RecordsInv, RecordsTypeOK, WellKept
<1>5. /\ rows' \in Rows /\ rows'.run = rows.run /\ rows'.grant = rows.grant /\ rows'.runs = rows.runs
      /\ rows'.large = rows.large /\ rows'.next \in {n, n + 1}
      /\ rows'.root \in {rows.root, [rows.root EXCEPT !["imported"] = d]}
      /\ \A s \in Id \ {n} : rows'.home[s] = rows.home[s]
      /\ \/ rows'.home[n] = "none"
         \/ rows'.home[n] = "imported" /\ rows'.root["imported"] = d /\ rows'.next = n + 1
  <2>1. CASE offer = "other" BY <2>1, <1>0, <1>1, <1>2 DEF WithImported
  <2>2. CASE offer # "other"
    <3>1. rows' = [rows EXCEPT !.root["imported"] = d, !.home[n] = "imported", !.next = n + 1]
      BY <2>2, <1>0 DEF WithImported
    <3>2. n + 1 \in Nat \ {0} BY <1>1 DEF Rows
    <3> QED BY <3>1, <3>2, <1>1 DEF Rows, Project
  <2> QED BY <2>1, <2>2
<1>6. RecordsTypeOK'
  <2>1. n \in Nat /\ rows'.next >= n /\ (rows'.home[n] # "none" => rows'.next > n)
    BY <1>1, <1>5 DEF Rows
  <2>2. ASSUME NEW s \in Id, s >= rows'.next PROVE rows'.home[s] = "none" /\ rows'.grant[s] = "none"
    <3>1. rows'.next \in Nat BY <1>5 DEF Rows
    <3>2. CASE s = n BY <3>1, <3>2, <2>1, <2>2, <1>2, <1>5
    <3>3. CASE s # n
      <4>1. s >= n BY <3>1, <2>1, <2>2 DEF Id
      <4> QED BY <3>3, <4>1, <1>5 DEF RecordsInv, RecordsTypeOK, WellKept
    <3> QED BY <3>2, <3>3
  <2>3. \A s \in Id : rows'.home[s] # "none" => rows'.root[rows'.home[s]] # Nowhere
    BY <1>1, <1>4, <1>5 DEF RecordsInv, RecordsTypeOK, WellKept, Rows, Project
  <2>4. WellKept(rows)' BY <1>5, <2>2, <2>3 DEF WellKept
  <2> QED BY <2>4, <1>0 DEF RecordsInv, RecordsTypeOK, Memory
<1>7. WorkFits'
  <2>1. UNCHANGED <<tasks, slots>> BY <1>0 DEF Memory
  <2>2. \A s \in Id \ {n} : rows.home[s] # "none" => rows'.root[rows'.home[s]] = rows.root[rows.home[s]]
    BY <1>1, <1>4, <1>5 DEF Rows
  <2> QED BY <1>3, <1>5, <2>1, <2>2 DEF RecordsInv, WorkFits
<1>8. BackupFits'
  <2>1. /\ Fingerprint(rows').home = rows'.home /\ Fingerprint(rows').run = rows'.run
        /\ Fingerprint(rows').grant = rows'.grant /\ Fingerprint(rows').root = rows'.root
        /\ Fingerprint(rows').runs = rows'.runs /\ Fingerprint(rows').large = rows'.large
    BY <1>5, FingerprintKeeps
  <2>2. rows'.root["own"] = rows.root["own"] BY <1>1, <1>5 DEF Rows, Project
  <2>3. rows.runs <= rows'.runs BY <1>1, <1>5 DEF Rows
  <2> QED BY <1>0, <1>1, <1>3, <1>5, <2>1, <2>2, <2>3 DEF RecordsInv, RecordsTypeOK, BackupFits, Memory
<1>9. Holders' = Holders /\ \A s \in Holders : s # n BY <1>2, <1>5 DEF Holders
<1>10. GrantsFit' BY <1>1, <1>4, <1>5, <1>9 DEF RecordsInv, GrantsFit, Holders, Rows
<1>11. \A s \in Holders : rows'.home[s] = rows.home[s] BY <1>5, <1>9 DEF Holders
<1>12. ChoiceHolds' BY <1>0, <1>9, <1>11 DEF RecordsInv, ChoiceHolds, TakesBack, Memory
<1> QED BY <1>6, <1>7, <1>8, <1>10, <1>12 DEF RecordsInv

LEMMA RollbackImportKeeps ==
  ASSUME RecordsInv, RollbackImport
  PROVE  RecordsInv'
<1>0. /\ import.made /\ rows' = import.backup /\ import' = NoImport
      /\ Fingerprint(rows) = import.print /\ UNCHANGED <<content, service, Memory>>
  BY DEF RollbackImport
<1>1. rows \in Rows BY DEF RecordsInv, RecordsTypeOK, WellKept
<1>2. WellKept(rows') /\ rows'.root["imported"] = Nowhere BY <1>0 DEF RecordsInv, BackupFits
<1>3. /\ rows'.grant = rows.grant /\ rows'.root["own"] = rows.root["own"]
      /\ \A s \in Id \ {import.id} : rows'.home[s] = rows.home[s]
      /\ rows.runs = import.print.runs
  BY <1>0, <1>1, FingerprintKeeps DEF RecordsInv, BackupFits
<1>4. tasks[import.id] = Nowhere /\ slots[import.id] = Nowhere /\ import.id \in Id
  BY <1>0, <1>1, <1>3 DEF RecordsInv, BackupFits, Rows
<1>5. rows'.grant[import.id] = "none" BY <1>0, <1>2 DEF RecordsInv, BackupFits, WellKept, Rows, Id
<1>6. \A s \in Id \ {import.id} : rows.home[s] # "none" => rows.home[s] = "own" /\ rows'.root[rows'.home[s]] = rows.root[rows.home[s]]
  BY <1>1, <1>2, <1>3 DEF WellKept, Rows, Project
<1>7. RecordsTypeOK' BY <1>0, <1>2 DEF RecordsInv, RecordsTypeOK, Memory
<1>8. WorkFits' BY <1>0, <1>3, <1>4, <1>6 DEF RecordsInv, WorkFits, Memory
<1>9. BackupFits' BY <1>0, <1>2 DEF BackupFits, NoImport
<1>10. Holders' = Holders /\ \A s \in Holders : s # import.id BY RecordsShape, <1>3, <1>5 DEF Holders
<1>11. GrantsFit' BY <1>3, <1>6, <1>10 DEF RecordsInv, GrantsFit, Holders
<1>12. \A s \in Holders : rows'.home[s] = rows.home[s] BY <1>3, <1>10 DEF Holders
<1>13. ChoiceHolds' BY <1>0, <1>10, <1>12 DEF RecordsInv, ChoiceHolds, TakesBack, Memory
<1> QED BY <1>7, <1>8, <1>9, <1>11, <1>13 DEF RecordsInv

-----------------------------------------------------------------------------
LEMMA RecordsStep == RecordsInv /\ [RecordsNext]_storeVars => RecordsInv'
<1> SUFFICES ASSUME RecordsInv, [RecordsNext]_storeVars PROVE RecordsInv' OBVIOUS
<1>1. CASE Works
  BY <1>1, RunStartsKeeps, SpawnKeeps, EndRunKeeps, TaskGoneKeeps, ProcessOverKeeps, SlotGoneKeeps DEF Works
<1>2. CASE Chosen BY <1>2, ChooseKeeps, ListGrantsKeeps, RevokeNextKeeps DEF Chosen
<1>3. CASE LivesOn
  BY <1>3, OpenRecordsKeeps, BackUpKeeps, UpgradeKeeps, RecoverKeeps, CrashKeeps, CloseKeeps DEF LivesOn
<1>4. CASE Managed
  BY <1>4, DeleteSessionKeeps, CreateSessionKeeps, DeleteProjectKeeps, ChangeRootKeeps DEF Managed
<1>5. CASE Granted BY <1>5, GrantFullKeeps, RevokeKeeps DEF Granted
<1>6. CASE Saves BY <1>6, SaveLargeKeeps, WriteContentKeeps, SaveRowKeeps DEF Saves
<1>7. CASE TakesOver BY <1>7, RollbackImportKeeps, ImportKeeps DEF TakesOver
<1>8. CASE UNCHANGED storeVars
  BY <1>8 DEF storeVars, RecordsInv, RecordsTypeOK, WellKept, WorkFits, BackupFits, Holders, GrantsFit, TakesBack, ChoiceHolds
<1> QED BY <1>1, <1>2, <1>3, <1>4, <1>5, <1>6, <1>7, <1>8 DEF RecordsNext

LEMMA RecordsInvariance == RecordsSpec => []RecordsInv
BY RecordsInitially, RecordsStep, PTL DEF RecordsSpec

\* The records, and what the service keeps in memory about them, are well formed
\* whatever is deleted, imported, taken back or lost in a crash.
THEOREM RecordsTypeCorrect == RecordsSpec => []RecordsTypeOK
BY RecordsInvariance, PTL DEF RecordsInv

\* While a task or a process of a session is there, its session is on record and its
\* project has the directory it works in: no deletion, move or rollback comes between.
THEOREM WorkKeepsItsRecords == RecordsSpec => []RecordsOutlastUse
<1>1. RecordsInv => RecordsOutlastUse BY DEF RecordsInv, WorkFits, RecordsOutlastUse
<1> QED BY <1>1, RecordsInvariance, PTL

\* Full access is held for the directory the project has now and, when no choice is
\* under way, for the chosen project only.
THEOREM GrantsAreBound == RecordsSpec => []GrantsStayPut
<1>1. RecordsInv => GrantsStayPut
  <2> SUFFICES ASSUME RecordsInv, NEW s \in Id, rows.grant[s] \in Folder
               PROVE  /\ rows.home[s] # "none" /\ rows.root[rows.home[s]] = rows.grant[s]
                      /\ chosen # "any" /\ (\A p \in Project : leaving[p] = NoLeaving) => chosen = rows.home[s]
    BY DEF GrantsStayPut
  <2>1. s \in Holders BY DEF Holders
  <2>2. chosen \in Project \cup {"any", "none"} BY DEF RecordsInv, RecordsTypeOK
  <2> QED BY <2>1, <2>2 DEF RecordsInv, GrantsFit, ChoiceHolds, TakesBack, NoLeaving
<1> QED BY <1>1, RecordsInvariance, PTL

\* Taking an import back loses nothing the user said, ran or granted since.
THEOREM RollbacksLoseNothing == RecordsSpec => RollbackLosesNothing
<1> DEFINE Held ==
      /\ \A s \in Id \ {import.id} :
           /\ rows'.home[s] = rows.home[s] /\ rows'.run[s] = rows.run[s]
           /\ rows'.grant[s] = rows.grant[s]
      /\ rows'.large = rows.large /\ rows'.runs = rows.runs /\ rows'.root["own"] = rows.root["own"]
<1>1. ASSUME RecordsInv, [RecordsNext]_storeVars, import.made, ~import'.made PROVE Held
  <2>1. RollbackImport \/ UNCHANGED import
    BY <1>1 DEF RecordsNext, Works, Chosen, LivesOn, Managed, Granted, Saves, TakesOver, storeVars, RunStarts, Spawn,
         EndRun, TaskGone, ProcessOver, SlotGone, Choose, ListGrants, RevokeNext, OpenRecords, BackUp, Upgrade, Recover,
         Crash, Close, DeleteSession, CreateSession, DeleteProject, ChangeRoot, GrantFull, Revoke, SaveLarge,
         WriteContent, SaveRow, Import
  <2>2. /\ import.made /\ rows' = import.backup /\ Fingerprint(rows) = import.print /\ rows \in Rows
    BY <1>1, <2>1 DEF RollbackImport, RecordsInv, RecordsTypeOK, WellKept
  <2> QED BY <1>1, <2>2, FingerprintKeeps DEF RecordsInv, BackupFits
<1>2. RecordsInv /\ [RecordsNext]_storeVars => [import.made /\ ~import'.made => Held]_storeVars BY <1>1
<1> QED BY <1>2, RecordsInvariance, PTL DEF RecordsSpec, RollbackLosesNothing

-----------------------------------------------------------------------------
(* The pipe. *)

Frames == [to : Service, what : {"request", "cancel"}, ask : Ask]

PipeTypeOK ==
  /\ shell \in BOOLEAN /\ current \in Service \cup {NoService}
  /\ ending \subseteq Service /\ deaf \subseteq Service
  /\ to \in [Ask -> Service \cup {NoService}]
  /\ coming \subseteq Ask /\ waiting \subseteq Ask
  /\ hands \subseteq Frames /\ pipe \in [Service -> Seq(Frames)]
  /\ life \in [Service -> {"none", "up", "closing", "dead"}]
  /\ stopped \subseteq Service
  /\ work \in [Ask -> {"none", "runs", "uses", "unwinds", "over"}]
  /\ open \subseteq Service

\* A frame goes to the service its request was given, and a request that has come
\* so far has one.
Addressed ==
  /\ \A r \in Ask : to[r] = NoService => r \notin coming \cup waiting /\ work[r] = "none"
  /\ \A f \in hands : to[f.ask] = f.to
  /\ \A s \in Service : \A i \in 1..Len(pipe[s]) : to[pipe[s][i].ask] = s

\* The output of a service ends when it is dead.
DeafAreDead == \A s \in deaf : life[s] = "dead"

\* While a request works on the data its service alone holds them.
HeldByUser == \A r \in Ask : work[r] \in {"uses", "unwinds"} => open = {to[r]}

PipeInv == PipeTypeOK /\ Addressed /\ DeafAreDead /\ HeldByUser /\ DeadAreMissed

-----------------------------------------------------------------------------
LEMMA NoServiceIsNone == NoService \notin Service
BY PipeShape DEF Service, NoService

LEMMA PipeInitially == PipeInit => PipeInv
BY NoServiceIsNone DEF PipeInit, PipeInv, PipeTypeOK, Addressed, DeafAreDead, HeldByUser, DeadAreMissed

\* The shell.
LEMMA StartServiceKeeps ==
  ASSUME PipeInv, NEW s \in Service, StartService(s)
  PROVE  PipeInv'
BY NoServiceIsNone DEF PipeInv, PipeTypeOK, Addressed, DeafAreDead, HeldByUser, DeadAreMissed, StartService, Frame, ServiceSide, ShellSide

LEMMA AdmitKeeps ==
  ASSUME PipeInv, NEW r \in Ask, Admit(r)
  PROVE  PipeInv'
<1> USE NoServiceIsNone DEF PipeInv, PipeTypeOK, Admit, ServiceSide
<1>1. PipeTypeOK' OBVIOUS
<1>2. current \in Service OBVIOUS
<1>3. \A q \in Ask : to[q] # NoService => to'[q] = to[q] OBVIOUS
<1>4. Addressed'
  <2>1. \A q \in Ask : to'[q] = NoService => q \notin coming' \cup waiting' /\ work'[q] = "none"
    BY <1>2, <1>3 DEF Addressed
  <2>2. \A f \in hands' : to'[f.ask] = f.to BY <1>3 DEF Addressed, Frames
  <2>3. \A s \in Service : \A i \in 1..Len(pipe'[s]) : to'[pipe'[s][i].ask] = s
    <3> SUFFICES ASSUME NEW s \in Service, NEW i \in 1..Len(pipe[s]) PROVE to'[pipe[s][i].ask] = s OBVIOUS
    <3>1. pipe[s] \in Seq(Frames) OBVIOUS
    <3>2. pipe[s][i] \in Frames BY <3>1
    <3>3. pipe[s][i].ask \in Ask BY <3>2 DEF Frames
    <3>4. to[pipe[s][i].ask] = s BY DEF Addressed
    <3> QED BY <1>3, <3>3, <3>4
  <2> QED BY <2>1, <2>2, <2>3 DEF Addressed
<1>5. DeafAreDead' BY DEF DeafAreDead
<1>6. HeldByUser' BY <1>3 DEF HeldByUser, Addressed
<1>7. DeadAreMissed' BY <1>3 DEF DeadAreMissed, Frame, Addressed
<1> QED BY <1>1, <1>4, <1>5, <1>6, <1>7

LEMMA EnterKeeps ==
  ASSUME PipeInv, NEW r \in Ask, Enter(r)
  PROVE  PipeInv'
<1> USE NoServiceIsNone DEF PipeInv, PipeTypeOK, Enter, ServiceSide
<1>1. to[r] \in Service BY DEF Addressed
<1>2. Frame(to[r], "request", r) \in Frames BY <1>1 DEF Frame, Frames
<1>3. PipeTypeOK' BY <1>2
<1>4. Addressed' BY <1>1 DEF Addressed, Frame
<1>5. DeafAreDead' BY DEF DeafAreDead
<1>6. HeldByUser' BY DEF HeldByUser
<1>7. DeadAreMissed' BY DEF DeadAreMissed, Frame
<1> QED BY <1>3, <1>4, <1>5, <1>6, <1>7

LEMMA CancelRequestKeeps ==
  ASSUME PipeInv, NEW r \in Ask, CancelRequest(r)
  PROVE  PipeInv'
<1> USE NoServiceIsNone DEF PipeInv, PipeTypeOK, CancelRequest, Tell, ServiceSide
<1>1. Frame(current, "cancel", r) \in Frames BY DEF Frame, Frames
<1>2. PipeTypeOK' BY <1>1
<1>3. Addressed' BY DEF Addressed, Frame
<1>4. DeafAreDead' BY DEF DeafAreDead
<1>5. HeldByUser' BY DEF HeldByUser
<1>6. DeadAreMissed' BY DEF DeadAreMissed, Frame
<1> QED BY <1>2, <1>3, <1>4, <1>5, <1>6

LEMMA WriteKeeps ==
  ASSUME PipeInv, NEW f \in hands, Write(f)
  PROVE  PipeInv'
<1> USE NoServiceIsNone DEF PipeInv, PipeTypeOK
<1>1. f \in Frames /\ f.to \in Service /\ f.ask \in Ask /\ to[f.ask] = f.to BY DEF Frames, Addressed
<1>2. /\ pipe' = pipe \/ pipe' = [pipe EXCEPT ![f.to] = Append(@, f)]
      /\ waiting' = waiting \/ waiting' = waiting \ {f.ask}
  BY DEF Write, Tell
<1>3. PipeTypeOK'
  <2>1. Append(pipe[f.to], f) \in Seq(Frames) BY <1>1
  <2>2. pipe' \in [Service -> Seq(Frames)] BY <1>1, <1>2, <2>1
  <2> QED BY <1>2, <2>2 DEF Write
<1> USE DEF Write, Tell
<1>4. Addressed'
  <2>1. \A s \in Service : \A i \in 1..Len(pipe'[s]) : to[pipe'[s][i].ask] = s
    <3> SUFFICES ASSUME NEW s \in Service, NEW i \in 1..Len(pipe'[s]) PROVE to[pipe'[s][i].ask] = s OBVIOUS
    <3>1. pipe[s] \in Seq(Frames) OBVIOUS
    <3>2. CASE pipe'[s] = pipe[s] BY <3>2 DEF Addressed
    <3>3. CASE s = f.to /\ pipe'[s] = Append(pipe[s], f)
      <4>1. CASE i \in 1..Len(pipe[s]) BY <3>1, <3>3, <4>1 DEF Addressed
      <4>2. CASE i = Len(pipe[s]) + 1 BY <1>1, <3>1, <3>3, <4>2
      <4> QED BY <3>1, <3>3, <4>1, <4>2
    <3> QED BY <1>1, <1>2, <3>2, <3>3
  <2> QED BY <2>1 DEF Addressed
<1>5. DeafAreDead' BY DEF DeafAreDead
<1>6. HeldByUser' BY DEF HeldByUser
<1>7. DeadAreMissed'
  <2> SUFFICES ASSUME NEW r \in waiting', to[r] \in deaf PROVE Frame(to[r], "request", r) \in hands'
    BY DEF DeadAreMissed
  <2>1. Frame(to[r], "request", r) \in hands /\ life[to[r]] = "dead" BY DEF DeadAreMissed, DeafAreDead
  <2>2. CASE Frame(to[r], "request", r) = f BY <2>1, <2>2 DEF Frame
  <2> QED BY <2>1, <2>2
<1> QED BY <1>3, <1>4, <1>5, <1>6, <1>7

LEMMA OutputEndsKeeps ==
  ASSUME PipeInv, NEW s \in Service, OutputEnds(s)
  PROVE  PipeInv'
BY NoServiceIsNone DEF PipeInv, PipeTypeOK, Addressed, DeafAreDead, HeldByUser, DeadAreMissed, OutputEnds, Hears, Tell, AskedOf, Frame, ServiceSide

LEMMA StopServiceKeeps ==
  ASSUME PipeInv, StopService
  PROVE  PipeInv'
BY NoServiceIsNone DEF PipeInv, PipeTypeOK, Addressed, DeafAreDead, HeldByUser, DeadAreMissed, StopService, Frame, ServiceSide

LEMMA StopReturnsKeeps ==
  ASSUME PipeInv, NEW s \in Service, StopReturns(s)
  PROVE  PipeInv'
BY NoServiceIsNone DEF PipeInv, PipeTypeOK, Addressed, DeafAreDead, HeldByUser, DeadAreMissed, StopReturns, Tell, AskedOf, Frame, ServiceSide

LEMMA ShellDiesKeeps ==
  ASSUME PipeInv, ShellDies
  PROVE  PipeInv'
BY NoServiceIsNone DEF PipeInv, PipeTypeOK, Addressed, DeafAreDead, HeldByUser, DeadAreMissed, ShellDies, Tell, Frame, ServiceSide

\* The service.
LEMMA DeathKeeps ==
  ASSUME PipeInv, NEW s \in Service, Dead(s), UNCHANGED ShellSide
  PROVE  PipeInv'
BY NoServiceIsNone DEF PipeInv, PipeTypeOK, Addressed, DeafAreDead, HeldByUser, DeadAreMissed, Dead, Working, AskedOf, Frame, ShellSide

LEMMA ReadKeeps ==
  ASSUME PipeInv, NEW s \in Service, Read(s)
  PROVE  PipeInv'
<1> USE NoServiceIsNone DEF PipeInv, PipeTypeOK, Read, ShellSide
<1> DEFINE f == Head(pipe[s])
<1>1. pipe[s] \in Seq(Frames) /\ pipe[s] # <<>> OBVIOUS
<1>2. f \in Frames /\ f = pipe[s][1] /\ 1 \in 1..Len(pipe[s]) BY <1>1
<1>3. f.ask \in Ask /\ to[f.ask] = s BY <1>2 DEF Addressed, Frames
<1>4. Tail(pipe[s]) \in Seq(Frames) /\ Len(Tail(pipe[s])) = Len(pipe[s]) - 1
      /\ \A i \in 1..Len(Tail(pipe[s])) : Tail(pipe[s])[i] = pipe[s][i + 1]
  BY <1>1
<1>5. Takes(s, f) OBVIOUS
<1>6. work' \in [Ask -> {"none", "runs", "uses", "unwinds", "over"}] /\ stopped' \subseteq Service
  BY <1>3, <1>5 DEF Takes
<1>7. \A q \in Ask : /\ work'[q] \in {"uses", "unwinds"} => work[q] \in {"uses", "unwinds"}
                     /\ q # f.ask => work'[q] = work[q]
  BY <1>3, <1>5 DEF Takes
<1>8. PipeTypeOK' BY <1>4, <1>6
<1>9. Addressed'
  <2>1. \A t \in Service : \A i \in 1..Len(pipe'[t]) : to[pipe'[t][i].ask] = t
    <3> SUFFICES ASSUME NEW t \in Service, NEW i \in 1..Len(pipe'[t]) PROVE to[pipe'[t][i].ask] = t OBVIOUS
    <3>1. CASE t = s
      <4>1. i + 1 \in 1..Len(pipe[s]) /\ pipe'[s][i] = pipe[s][i + 1] BY <1>1, <1>4, <3>1
      <4> QED BY <3>1, <4>1 DEF Addressed
    <3>2. CASE t # s BY <3>2 DEF Addressed
    <3> QED BY <3>1, <3>2
  <2> QED BY <1>3, <1>7, <2>1 DEF Addressed
<1>10. DeafAreDead' BY DEF DeafAreDead
<1>11. HeldByUser' BY <1>7 DEF HeldByUser
<1>12. DeadAreMissed' BY DEF DeadAreMissed, Frame
<1> QED BY <1>8, <1>9, <1>10, <1>11, <1>12

LEMMA UsesKeeps ==
  ASSUME PipeInv, NEW r \in Ask, Uses(r)
  PROVE  PipeInv'
BY NoServiceIsNone DEF PipeInv, PipeTypeOK, Addressed, DeafAreDead, HeldByUser, DeadAreMissed, Uses, Frame, ShellSide

LEMMA RepliesKeeps ==
  ASSUME PipeInv, NEW r \in Ask, Replies(r)
  PROVE  PipeInv'
BY NoServiceIsNone DEF PipeInv, PipeTypeOK, Addressed, DeafAreDead, HeldByUser, DeadAreMissed, Replies, Tell, Frame

LEMMA UnwoundKeeps ==
  ASSUME PipeInv, NEW r \in Ask, Unwound(r)
  PROVE  PipeInv'
BY NoServiceIsNone DEF PipeInv, PipeTypeOK, Addressed, DeafAreDead, HeldByUser, DeadAreMissed, Unwound, Frame, ShellSide

LEMMA StopOrdersKeep ==
  ASSUME PipeInv, NEW s \in Service, IsToStop(s) \/ InputEnds(s)
  PROVE  PipeInv'
BY NoServiceIsNone DEF PipeInv, PipeTypeOK, Addressed, DeafAreDead, HeldByUser, DeadAreMissed, IsToStop, InputEnds, Frame, ShellSide

LEMMA ShutsDownKeeps ==
  ASSUME PipeInv, NEW s \in Service, ShutsDown(s)
  PROVE  PipeInv'
BY NoServiceIsNone DEF PipeInv, PipeTypeOK, Addressed, DeafAreDead, HeldByUser, DeadAreMissed, ShutsDown, Working, AskedOf, Frame, ShellSide

LEMMA LeavesKeeps ==
  ASSUME PipeInv, NEW s \in Service, Leaves(s)
  PROVE  PipeInv'
BY NoServiceIsNone DEF PipeInv, PipeTypeOK, Addressed, DeafAreDead, HeldByUser, DeadAreMissed, Leaves, AllUnwound, Working, AskedOf, Frame, ShellSide

-----------------------------------------------------------------------------
LEMMA PipeStep ==
  ASSUME PipeInv, [PipeNext]_pipeVars
  PROVE  PipeInv'
<1>1. CASE ForShell BY <1>1, StopServiceKeeps, ShellDiesKeeps DEF ForShell
<1>2. CASE \E s \in Service : ForService(s)
  <2> PICK s \in Service : ForService(s) BY <1>2
  <2>1. CASE KillLate(s) \/ Exits(s) \/ Crashes(s) BY <2>1, DeathKeeps DEF KillLate, Exits, Crashes
  <2> QED BY <2>1, StartServiceKeeps, OutputEndsKeeps, StopReturnsKeeps, ReadKeeps, StopOrdersKeep,
             ShutsDownKeeps, LeavesKeeps DEF ForService
<1>3. CASE \E r \in Ask : ForAsk(r)
  BY <1>3, AdmitKeeps, EnterKeeps, CancelRequestKeeps, UsesKeeps, RepliesKeeps, UnwoundKeeps DEF ForAsk
<1>4. CASE \E f \in hands : Write(f) BY <1>4, WriteKeeps
<1>5. CASE UNCHANGED pipeVars
  BY <1>5 DEF pipeVars, PipeInv, PipeTypeOK, Addressed, DeafAreDead, HeldByUser, DeadAreMissed, Frame
<1> QED BY <1>1, <1>2, <1>3, <1>4, <1>5 DEF PipeNext

LEMMA PipeInvariance == PipeSpec => []PipeInv
<1>1. PipeInv /\ [PipeNext]_pipeVars => PipeInv' BY PipeStep
<1> QED BY <1>1, PipeInitially, PTL DEF PipeSpec

\* Two services never work on the data at the same time: the new one finds them
\* locked until every request of the old one has unwound or its process is gone
\* (ipc.serve, DesktopState, Store).
THEOREM DataAreNotShared == PipeSpec => []DataHasOneService
<1>1. PipeInv => DataHasOneService BY DEF PipeInv, PipeTypeOK, HeldByUser, DataHasOneService
<1> QED BY <1>1, PipeInvariance, PTL

\* A page that waits for a service whose output has ended has a request that is
\* still to be written, and so is told (local_executor_request and its reader).
THEOREM NobodyWaitsForTheDead == PipeSpec => []DeadAreMissed
<1>1. PipeInv => DeadAreMissed BY DEF PipeInv
<1> QED BY <1>1, PipeInvariance, PTL

-----------------------------------------------------------------------------
(* The history. *)

Entries == [role : {"user", "reply", "calls", "tool"}, of : Nat, nr : Nat]
Points == [through : Nat, kept : Seq(Nat)]

\* The variables hold what they are meant to (context_history.py, context_manager.py).
TalkTypeOK ==
  /\ log \in Seq(Entries) /\ point \in Points /\ draft \in Points
  /\ order \in {"none", "pending", "compacting"} /\ phase \in Phases /\ outdated \in BOOLEAN
  /\ steers \in Nat /\ said \in Nat /\ asked \in Nat

\* A checkpoint of this history keeps what it keeps in order, and every word of
\* the user up to where it reaches.
Fits(lines, p) ==
  /\ p.through <= Len(lines)
  /\ \A a \in 1..Len(p.kept) : p.kept[a] <= p.through
  /\ \A a, b \in 1..Len(p.kept) : a < b /\ p.kept[a] > 0 /\ p.kept[b] > 0 => p.kept[a] < p.kept[b]
  /\ \A i \in 1..p.through : lines[i].role = "user" => \E a \in 1..Len(p.kept) : p.kept[a] = i

TalkInv == TalkTypeOK /\ Fits(log, point) /\ Fits(log, draft)

LEMMA LeastNumber ==
  ASSUME NEW S \in SUBSET Nat, S # {}
  PROVE  \E m \in S : \A n \in S : m <= n
<1>1. PICK m \in S : \A n \in S : ~(<<n, m>> \in OpToRel(<, Nat))
  BY NatLessThanWellFounded, WFMin
<1>2. ASSUME NEW n \in S PROVE m <= n
  <2>1. m \in Nat /\ n \in Nat OBVIOUS
  <2>2. ~(n < m) BY <1>1, <2>1 DEF OpToRel
  <2> QED BY <2>1, <2>2
<1> QED BY <1>2

\* h[i] is the first i parts in one.
Joins(parts, n, h) == \A i \in 1..n : h[i] = IF i = 1 THEN parts[i] ELSE h[i - 1] \o parts[i]

LEMMA FlattenIs ==
  ASSUME NEW parts, NEW n \in Nat, Len(parts) = n, n > 0, NEW h, Joins(parts, n, h)
  PROVE  FlattenSeq(parts) = h[n]
<1> DEFINE f == CHOOSE g : g = [i \in 1..n |-> IF i = 1 THEN parts[i] ELSE g[i - 1] \o parts[i]]
<1>1. FlattenSeq(parts) = f[n] BY DEF FlattenSeq
<1>2. f = [i \in 1..n |-> IF i = 1 THEN parts[i] ELSE f[i - 1] \o parts[i]]
  <2> DEFINE g == [i \in 1..n |-> h[i]]
  <2>1. ASSUME NEW i \in 1..n PROVE h[i] = IF i = 1 THEN parts[i] ELSE g[i - 1] \o parts[i]
    <3>1. i = 1 \/ i - 1 \in 1..n OBVIOUS
    <3> QED BY <3>1 DEF Joins
  <2>2. g = [i \in 1..n |-> IF i = 1 THEN parts[i] ELSE g[i - 1] \o parts[i]] BY <2>1
  <2> QED BY <2>2
<1> HIDE DEF f
<1>3. \A i \in 1..n : f[i] = IF i = 1 THEN parts[i] ELSE f[i - 1] \o parts[i] BY <1>2
<1>4. \A i \in 1..n : h[i] = IF i = 1 THEN parts[i] ELSE h[i - 1] \o parts[i] BY DEF Joins
<1> SUFFICES ASSUME f[n] # h[n] PROVE FALSE BY <1>1
<1> DEFINE S == {i \in 1..n : f[i] # h[i]}
<1>5. PICK i \in S : \A j \in S : i <= j
  <2>1. n \in S OBVIOUS
  <2>2. S \in SUBSET Nat OBVIOUS
  <2> HIDE DEF S
  <2> QED BY <2>1, <2>2, LeastNumber
<1>6. i # 1 BY <1>3, <1>4, <1>5
<1>7. i - 1 \in 1..n /\ ~(i - 1 \in S) BY <1>5, <1>6
<1>8. f[i - 1] = h[i - 1] BY <1>7
<1>9. f[i] = f[i - 1] \o parts[i] /\ h[i] = h[i - 1] \o parts[i] BY <1>3, <1>4, <1>5, <1>6
<1> QED BY <1>5, <1>8, <1>9

\* h puts the first parts together.
PutTogether(S, parts, n, h) ==
  /\ h \in [1..n -> Seq(S)] /\ FlattenSeq(parts) = h[n]
  /\ \A i \in 1..n : h[i] = IF i = 1 THEN parts[i] ELSE h[i - 1] \o parts[i]

\* What is flattened is put together part by part.
LEMMA PartByPart ==
  ASSUME NEW S, NEW parts \in Seq(Seq(S)), NEW n \in Nat, Len(parts) = n, n > 0
  PROVE  \E h : PutTogether(S, parts, n, h)
<1> DEFINE Sound(m, h) == h \in [1..m -> Seq(S)] /\ \A i \in 1..m : h[i] = IF i = 1 THEN parts[i] ELSE h[i - 1] \o parts[i]
           Bad == {m \in 1..n : ~\E h : Sound(m, h)}
<1>1. \A i \in 1..n : parts[i] \in Seq(S) OBVIOUS
<1>2. Bad = {}
  <2> SUFFICES ASSUME Bad # {} PROVE FALSE OBVIOUS
  <2>1. PICK m \in Bad : \A k \in Bad : m <= k
    <3>1. Bad \in SUBSET Nat OBVIOUS
    <3> HIDE DEF Bad
    <3> QED BY <3>1, LeastNumber
  <2>2. m \in 1..n /\ ~\E h : Sound(m, h) OBVIOUS
  <2>0. \A k \in 1..n : k < m => \E h : Sound(k, h)
    <3> SUFFICES ASSUME NEW k \in 1..n, k < m, ~\E h : Sound(k, h) PROVE FALSE OBVIOUS
    <3>1. k \in Bad OBVIOUS
    <3> HIDE DEF Bad
    <3>2. m <= k BY <2>1, <3>1
    <3> QED BY <3>2, <2>2
  <2>3. CASE m = 1
    <3> DEFINE h == [i \in 1..1 |-> parts[1]]
    <3>1. h \in [1..1 -> Seq(S)] BY <1>1
    <3>2. \A i \in 1..1 : i = 1 /\ h[i] = parts[i] OBVIOUS
    <3>3. Sound(1, h)
      <4> HIDE DEF h
      <4> QED BY <3>1, <3>2
    <3> QED BY <2>2, <2>3, <3>3
  <2>4. CASE m # 1
    <3>1. m - 1 \in 1..n /\ m - 1 < m BY <2>2, <2>4
    <3>2. PICK g : Sound(m - 1, g)
      <4> HIDE DEF Sound
      <4> QED BY <2>0, <3>1
    <3> DEFINE h == [i \in 1..m |-> IF i = m THEN g[m - 1] \o parts[m] ELSE g[i]]
    <3>3. m - 1 \in 1..(m - 1) BY <2>2, <2>4
    <3>4. g[m - 1] \in Seq(S) /\ parts[m] \in Seq(S) BY <1>1, <2>2, <3>2, <3>3
    <3>5. g[m - 1] \o parts[m] \in Seq(S) BY <3>4
    <3>6. ASSUME NEW i \in 1..m, i # m PROVE i \in 1..(m - 1) /\ g[i] \in Seq(S) BY <2>2, <3>2, <3>6
    <3>7. h \in [1..m -> Seq(S)] BY <3>5, <3>6
    <3>8. \A i \in 1..m : h[i] = IF i = m THEN g[m - 1] \o parts[m] ELSE g[i] OBVIOUS
    <3> HIDE DEF h
    <3>9. ASSUME NEW i \in 1..m PROVE h[i] = IF i = 1 THEN parts[i] ELSE h[i - 1] \o parts[i]
      <4>1. CASE i = m
        <5>1. m - 1 \in 1..m /\ m - 1 # m BY <2>2, <2>4
        <5>2. h[m - 1] = g[m - 1] BY <5>1, <3>8
        <5>3. h[m] = g[m - 1] \o parts[m] BY <4>1, <3>8
        <5> QED BY <4>1, <5>2, <5>3, <2>4
      <4>2. CASE i # m /\ i # 1
        <5>1. i \in 1..(m - 1) /\ i - 1 \in 1..m /\ i - 1 # m BY <4>2, <2>2
        <5>2. h[i] = g[i] /\ h[i - 1] = g[i - 1] BY <4>2, <5>1, <3>8
        <5>3. g[i] = g[i - 1] \o parts[i] BY <4>2, <5>1, <3>2
        <5> QED BY <4>2, <5>2, <5>3
      <4>3. CASE i # m /\ i = 1
        <5>1. i \in 1..(m - 1) BY <4>3, <2>2
        <5>2. g[i] = parts[i] BY <4>3, <5>1, <3>2
        <5> QED BY <4>3, <5>2, <3>8
      <4> QED BY <4>1, <4>2, <4>3
    <3>10. Sound(m, h) BY <3>7, <3>9
    <3> QED BY <2>2, <3>10
  <2> QED BY <2>3, <2>4
<1>3. n \in 1..n OBVIOUS
<1>4. PICK h : Sound(n, h)
  <2>1. ~(n \in Bad) BY <1>2
  <2>2. n \in Bad <=> ~\E h : Sound(n, h)
    <3> HIDE DEF Sound
    <3> QED BY <1>3
  <2> HIDE DEF Bad, Sound
  <2> QED BY <2>1, <2>2
<1> HIDE DEF Bad
<1>7. Joins(parts, n, h) BY <1>4 DEF Joins
<1>5. FlattenSeq(parts) = h[n]
  <2> HIDE DEF Sound
  <2> QED BY <1>7, FlattenIs
<1>6. PutTogether(S, parts, n, h) BY <1>4, <1>5 DEF PutTogether
<1> QED BY <1>6

LEMMA FunctionIsSeq ==
  ASSUME NEW S, NEW n \in Nat, NEW f \in [1..n -> S]
  PROVE  f \in Seq(S) /\ Len(f) = n
OBVIOUS

LEMMA FlattenTyped ==
  ASSUME NEW S, NEW parts \in Seq(Seq(S))
  PROVE  FlattenSeq(parts) \in Seq(S)
<1> DEFINE n == Len(parts)
<1>1. n \in Nat OBVIOUS
<1>2. CASE n = 0
  <2>1. FlattenSeq(parts) = parts BY <1>2 DEF FlattenSeq
  <2>2. parts = <<>> BY <1>2
  <2> QED BY <2>1, <2>2
<1>3. CASE n > 0
  <2>1. n = Len(parts) OBVIOUS
  <2> HIDE DEF n
  <2>2. PICK h : PutTogether(S, parts, n, h) BY <1>1, <1>3, <2>1, PartByPart
  <2>3. h \in [1..n -> Seq(S)] /\ FlattenSeq(parts) = h[n] BY <2>2 DEF PutTogether
  <2> QED BY <1>1, <1>3, <2>3
<1> QED BY <1>1, <1>2, <1>3

LEMMA MaxInside ==
  ASSUME NEW n \in Nat, NEW S \in SUBSET (0..n), S # {}
  PROVE  Max(S) \in S
<1> DEFINE T == {n - x : x \in S}
<1>0. ASSUME NEW x \in S PROVE n - x \in Nat
  <2>1. x \in 0..n OBVIOUS
  <2> QED BY <2>1
<1>1. T \in SUBSET Nat /\ T # {} BY <1>0
<1>2. PICK m \in T : \A k \in T : m <= k
  <2> HIDE DEF T
  <2> QED BY <1>1, LeastNumber
<1>3. PICK x \in S : m = n - x OBVIOUS
<1>4. ASSUME NEW y \in S PROVE x >= y
  <2>1. n - y \in T OBVIOUS
  <2>2. m <= n - y BY <2>1, <1>2
  <2>3. x \in 0..n /\ y \in 0..n OBVIOUS
  <2> QED BY <2>2, <2>3, <1>3
<1>5. \E z \in S : \A y \in S : z >= y BY <1>4
<1> QED BY <1>5 DEF Max


-----------------------------------------------------------------------------
(* What a compaction keeps. *)

\* r names the words among the first m lines, in their order.
Keeps(lines, r, m) ==
  /\ r \in Seq(Nat)
  /\ \A a \in 1..Len(r) : r[a] \in 1..m
  /\ \A a, b \in 1..Len(r) : a < b => r[a] < r[b]
  /\ \A i \in 1..m : lines[i].role = "user" => \E a \in 1..Len(r) : r[a] = i

LEMMA KeepsNext ==
  ASSUME NEW lines, NEW m \in Nat, NEW r, Keeps(lines, r, m)
  PROVE  Keeps(lines, r \o (IF lines[m + 1].role = "user" THEN <<m + 1>> ELSE <<>>), m + 1)
<1>1. r \in Seq(Nat) BY DEF Keeps
<1>2. CASE lines[m + 1].role = "user"
  <2>1. PICK s : s = r \o <<m + 1>> OBVIOUS
  <2>2. s \in Seq(Nat) /\ Len(s) = Len(r) + 1 BY <1>1, <2>1
  <2>3. \A a \in 1..Len(r) : s[a] = r[a] BY <1>1, <2>1
  <2>4. s[Len(r) + 1] = m + 1 BY <1>1, <2>1
  <2>5. Len(r) \in Nat BY <1>1
  <2>6. \A a \in 1..Len(s) : a \in 1..Len(r) \/ a = Len(r) + 1 BY <2>2, <2>5
  <2>7. \A a \in 1..Len(s) : s[a] \in 1..(m + 1) BY <2>3, <2>4, <2>6 DEF Keeps
  <2>8. ASSUME NEW a \in 1..Len(s), NEW b \in 1..Len(s), a < b PROVE s[a] < s[b]
    <3>1. a \in 1..Len(r) BY <2>2, <2>5, <2>8
    <3>2. s[a] = r[a] /\ r[a] \in 1..m BY <2>3, <3>1 DEF Keeps
    <3>3. CASE b = Len(r) + 1 BY <3>2, <3>3, <2>4
    <3>4. CASE b \in 1..Len(r) BY <3>1, <3>2, <3>4, <2>3, <2>8 DEF Keeps
    <3> QED BY <3>3, <3>4, <2>6
  <2>9. ASSUME NEW i \in 1..(m + 1), lines[i].role = "user" PROVE \E a \in 1..Len(s) : s[a] = i
    <3>1. CASE i = m + 1
      <4>1. Len(r) + 1 \in 1..Len(s) BY <2>2, <2>5
      <4> QED BY <3>1, <4>1, <2>4
    <3>2. CASE i # m + 1
      <4>1. i \in 1..m BY <3>2
      <4>2. PICK a \in 1..Len(r) : r[a] = i BY <4>1, <2>9 DEF Keeps
      <4>3. a \in 1..Len(s) /\ s[a] = i BY <4>2, <2>2, <2>3, <2>5
      <4> QED BY <4>3
    <3> QED BY <3>1, <3>2
  <2>10. Keeps(lines, s, m + 1) BY <2>2, <2>7, <2>8, <2>9 DEF Keeps
  <2> QED BY <1>2, <2>1, <2>10
<1>3. CASE lines[m + 1].role # "user"
  <2>1. r \o <<>> = r BY <1>1
  <2>2. \A a \in 1..Len(r) : r[a] \in 1..(m + 1) BY DEF Keeps
  <2>3. ASSUME NEW i \in 1..(m + 1), lines[i].role = "user" PROVE \E a \in 1..Len(r) : r[a] = i
    <3>1. i # m + 1 BY <1>3, <2>3
    <3>2. i \in 1..m BY <3>1
    <3> QED BY <3>2, <2>3 DEF Keeps
  <2>4. Keeps(lines, r, m + 1) BY <1>1, <2>2, <2>3 DEF Keeps
  <2> QED BY <1>3, <2>1, <2>4
<1> QED BY <1>2, <1>3

LEMMA RetainedKeeps ==
  ASSUME NEW n \in Nat
  PROVE  Keeps(log, Retained(n), n)
<1>1. PICK parts : parts = [i \in 1..n |-> IF log[i].role = "user" THEN <<i>> ELSE <<>>] OBVIOUS
<1>2. Retained(n) = FlattenSeq(parts) BY <1>1 DEF Retained
<1>3. parts \in Seq(Seq(Nat)) /\ Len(parts) = n
  <2>1. ASSUME NEW i \in 1..n PROVE (IF log[i].role = "user" THEN <<i>> ELSE <<>>) \in Seq(Nat)
    OBVIOUS
  <2>2. parts \in [1..n -> Seq(Nat)] BY <1>1, <2>1
  <2> QED BY <2>2
<1>4. \A i \in 1..n : parts[i] = IF log[i].role = "user" THEN <<i>> ELSE <<>> BY <1>1
<1>5. Keeps(log, <<>>, 0) BY DEF Keeps
<1>6. CASE n = 0
  <2>1. parts = <<>> BY <1>3, <1>6
  <2>2. FlattenSeq(parts) = <<>> BY <2>1 DEF FlattenSeq
  <2> QED BY <2>2, <1>2, <1>5, <1>6
<1>7. CASE n > 0
  <2>1. PICK h : PutTogether(Nat, parts, n, h) BY <1>3, <1>7, PartByPart
  <2>2. /\ h \in [1..n -> Seq(Nat)] /\ FlattenSeq(parts) = h[n]
        /\ \A i \in 1..n : h[i] = IF i = 1 THEN parts[i] ELSE h[i - 1] \o parts[i]
    BY <2>1 DEF PutTogether
  <2> DEFINE Bad == {m \in 1..n : ~Keeps(log, h[m], m)}
  <2>3. Bad = {}
    <3> SUFFICES ASSUME Bad # {} PROVE FALSE OBVIOUS
    <3>1. PICK m \in Bad : \A k \in Bad : m <= k
      <4>1. Bad \in SUBSET Nat OBVIOUS
      <4> HIDE DEF Bad
      <4> QED BY <4>1, LeastNumber
    <3>2. m \in 1..n /\ ~Keeps(log, h[m], m) OBVIOUS
    <3>3. CASE m = 1
      <4>1. Keeps(log, <<>> \o (IF log[0 + 1].role = "user" THEN <<0 + 1>> ELSE <<>>), 0 + 1)
        BY <1>5, KeepsNext
      <4>2. h[1] = IF log[1].role = "user" THEN <<1>> ELSE <<>> BY <2>2, <1>4, <3>2, <3>3
      <4>3. h[1] = <<>> \o (IF log[0 + 1].role = "user" THEN <<0 + 1>> ELSE <<>>) BY <4>2
      <4>4. 0 + 1 = 1 OBVIOUS
      <4> QED BY <4>1, <4>3, <4>4, <3>2, <3>3
    <3>4. CASE m # 1
      <4>1. PICK k : k = m - 1 OBVIOUS
      <4>2. k \in 1..n /\ k < m /\ k \in Nat /\ k + 1 = m BY <4>1, <3>2, <3>4
      <4>3. Keeps(log, h[k], k)
        <5> SUFFICES ASSUME ~Keeps(log, h[k], k) PROVE FALSE OBVIOUS
        <5>1. k \in Bad BY <4>2
        <5> HIDE DEF Bad
        <5>2. m <= k BY <3>1, <5>1
        <5> QED BY <5>2, <4>2, <3>2
      <4>4. Keeps(log, h[k] \o (IF log[k + 1].role = "user" THEN <<k + 1>> ELSE <<>>), k + 1)
        BY <4>2, <4>3, KeepsNext
      <4>5. h[m] = h[m - 1] \o parts[m] BY <2>2, <3>2, <3>4
      <4>6. parts[m] = IF log[m].role = "user" THEN <<m>> ELSE <<>> BY <1>4, <3>2
      <4> QED BY <4>1, <4>2, <4>4, <4>5, <4>6, <3>2
    <3> QED BY <3>3, <3>4
  <2>4. n \in 1..n BY <1>7
  <2>5. Keeps(log, h[n], n)
    <3> HIDE DEF Keeps
    <3> QED BY <2>3, <2>4
  <2> QED BY <2>2, <2>5, <1>2
<1> QED BY <1>6, <1>7

LEMMA PrefixInside ==
  ASSUME log \in Seq(Entries)
  PROVE  PrefixEnd \in 0..Len(log)
<1> DEFINE T == {i \in DOMAIN log : GroupOf[i] = i}
           S == {0} \cup {n \in DOMAIN log : \E i, j \in T : n < i /\ i < j}
<1>1. PrefixEnd = Max(S) BY DEF PrefixEnd
<1>2. DOMAIN log = 1..Len(log) /\ Len(log) \in Nat OBVIOUS
<1>3. S \in SUBSET (0..Len(log)) BY <1>2
<1>4. S # {} OBVIOUS
<1> HIDE DEF S
<1>5. Max(S) \in S BY <1>2, <1>3, <1>4, MaxInside
<1> QED BY <1>1, <1>3, <1>5

LEMMA BehindIt ==
  ASSUME NEW s \in Seq(Nat), NEW t \in Seq(Nat), NEW i \in 1..Len(t)
  PROVE  (s \o t)[Len(s) + i] = t[i]
<1>1. Len(s) \in Nat /\ Len(t) \in Nat /\ i \in Nat OBVIOUS
<1>2. PICK j : j = Len(s) + i OBVIOUS
<1>3. j \in 1..(Len(s) + Len(t)) /\ ~(j <= Len(s)) /\ j - Len(s) = i BY <1>1, <1>2
<1>4. (s \o t)[j] = IF j <= Len(s) THEN s[j] ELSE t[j - Len(s)] BY <1>3, ConcatProperties
<1>5. (s \o t)[j] = t[i] BY <1>3, <1>4
<1> QED BY <1>2, <1>5

\* Around the summary stand the words before it and the items behind.
Around(r, t, q) ==
  /\ q \in Seq(Nat) /\ Len(q) = Len(r) + 1 + Len(t)
  /\ \A a \in 1..Len(r) : q[a] = r[a]
  /\ q[Len(r) + 1] = 0
  /\ \A i \in 1..Len(t) : q[Len(r) + 1 + i] = t[i]

LEMMA AroundSummary ==
  ASSUME NEW r \in Seq(Nat), NEW t \in Seq(Nat)
  PROVE  Around(r, t, r \o <<0>> \o t)
<1>0. PICK q : q = r \o <<0>> \o t OBVIOUS
<1>1. PICK s : s = r \o <<0>> OBVIOUS
<1>2. s \in Seq(Nat) /\ Len(s) = Len(r) + 1 BY <1>1
<1>3. \A a \in 1..Len(r) : s[a] = r[a] BY <1>1
<1>4. s[Len(r) + 1] = 0 BY <1>1
<1>5. q = s \o t BY <1>0, <1>1
<1>6. Len(r) \in Nat /\ Len(t) \in Nat OBVIOUS
<1>14. s \in Seq(Nat) BY <1>2
<1>7. q \in Seq(Nat) /\ Len(q) = Len(s) + Len(t) BY <1>14, <1>5, ConcatProperties
<1>8. \A a \in 1..Len(s) : q[a] = s[a] BY <1>2, <1>5
<1>9. \A i \in 1..Len(t) : q[Len(s) + i] = t[i] BY <1>14, <1>5, BehindIt
<1>10. \A a \in 1..Len(r) : q[a] = r[a] BY <1>2, <1>3, <1>6, <1>8
<1>11. q[Len(r) + 1] = 0 BY <1>2, <1>4, <1>6, <1>8
<1>12. Len(q) = Len(r) + 1 + Len(t) BY <1>2, <1>6, <1>7
<1>13. Around(r, t, q) BY <1>2, <1>7, <1>9, <1>10, <1>11, <1>12 DEF Around
<1> QED BY <1>0, <1>13

\* q keeps the words r of the first n lines, and the lines t behind them.
KeepsAround(lines, k, n, r, t, q) ==
  /\ k = Len(lines) /\ Keeps(lines, r, n) /\ t \in Seq(Nat) /\ Len(t) = k - n
  /\ (\A i \in 1..(k - n) : t[i] = n + i) /\ q = r \o <<0>> \o t

\* What a compaction proposes is a checkpoint of the history.
LEMMA CandidateIsFit ==
  ASSUME NEW lines, NEW k \in Nat, NEW n \in 0..k, NEW r, NEW t, NEW q, KeepsAround(lines, k, n, r, t, q)
  PROVE  [through |-> k, kept |-> q] \in Points /\ Fits(lines, [through |-> k, kept |-> q])
<1>5. r \in Seq(Nat) /\ Len(r) \in Nat BY DEF Keeps, KeepsAround
<1>20. t \in Seq(Nat) /\ q = r \o <<0>> \o t /\ Len(t) = k - n BY DEF KeepsAround
<1>6. /\ q \in Seq(Nat) /\ Len(q) = Len(r) + 1 + Len(t)
      /\ \A a \in 1..Len(r) : q[a] = r[a]
      /\ q[Len(r) + 1] = 0
      /\ \A i \in 1..Len(t) : q[Len(r) + 1 + i] = t[i]
  <2>1. Around(r, t, q) BY <1>5, <1>20, AroundSummary
  <2> QED BY <2>1 DEF Around
<1>0. PICK R \in Nat : R = Len(r) BY <1>5
<1>1. PICK Q \in Nat : Q = Len(q) BY <1>6
<1>2. Q = R + 1 + (k - n) /\ n \in Nat /\ n <= k BY <1>0, <1>1, <1>6, <1>20
<1>21. \A a \in 1..Q : q[a] \in Nat BY <1>1, <1>6
<1>3. \A c \in 1..R : r[c] \in 1..n BY <1>0 DEF Keeps, KeepsAround
<1>8. \A a \in 1..R : q[a] = r[a] BY <1>0, <1>6
<1>9. q[R + 1] = 0 BY <1>0, <1>6
<1>10. \A i \in 1..(k - n) : q[R + 1 + i] = n + i BY <1>0, <1>6, <1>20 DEF KeepsAround
<1>4. \A a, b \in 1..R : a < b => r[a] < r[b] BY <1>0 DEF Keeps, KeepsAround
<1>7. \A i \in 1..n : lines[i].role = "user" => \E a \in 1..R : r[a] = i BY <1>0 DEF Keeps, KeepsAround
<1>13. ASSUME NEW a \in 1..Q
       PROVE  \/ a \in 1..R /\ q[a] = r[a]
              \/ a = R + 1 /\ q[a] = 0
              \/ a > R + 1 /\ q[a] = n + (a - R - 1)
  <2>1. CASE a > R + 1
    <3>1. PICK i : i = a - R - 1 OBVIOUS
    <3>2. i \in 1..(k - n) /\ a = R + 1 + i BY <3>1, <2>1, <1>2
    <3>3. q[R + 1 + i] = n + i BY <3>2, <1>10
    <3>4. q[a] = n + (a - R - 1) BY <3>1, <3>2, <3>3
    <3> QED BY <2>1, <3>4
  <2>2. CASE a = R + 1 BY <2>2, <1>9
  <2>3. CASE a < R + 1
    <3>1. a \in 1..R BY <2>3
    <3> QED BY <3>1, <1>8
  <2> QED BY <2>1, <2>2, <2>3
<1>14. ASSUME NEW a \in 1..Q PROVE q[a] <= k
  <2>1. CASE a \in 1..R /\ q[a] = r[a] BY <2>1, <1>3, <1>2
  <2>2. CASE a = R + 1 /\ q[a] = 0 BY <2>2
  <2>3. CASE a > R + 1 /\ q[a] = n + (a - R - 1) BY <2>3, <1>2
  <2> QED BY <2>1, <2>2, <2>3, <1>13, <1>21
<1>15. ASSUME NEW a \in 1..Q, NEW b \in 1..Q, a < b, q[a] > 0, q[b] > 0
       PROVE  q[a] < q[b]
  <2>1. CASE a \in 1..R /\ q[a] = r[a]
    <3>1. r[a] \in 1..n BY <2>1, <1>3
    <3>2. CASE b \in 1..R /\ q[b] = r[b] BY <2>1, <3>2, <1>15, <1>4
    <3>3. CASE b > R + 1 /\ q[b] = n + (b - R - 1) BY <2>1, <3>1, <3>3, <1>2
    <3>4. b # R + 1 BY <1>15, <1>9, <1>21
    <3> QED BY <3>2, <3>3, <3>4, <1>13
  <2>2. CASE a > R + 1 /\ q[a] = n + (a - R - 1)
    <3>1. b > R + 1 BY <2>2, <1>15, <1>2
    <3>2. q[b] = n + (b - R - 1) BY <3>1, <1>13
    <3> QED BY <2>2, <3>1, <3>2, <1>15, <1>2
  <2>3. a # R + 1 BY <1>15, <1>9, <1>21
  <2> QED BY <2>1, <2>2, <2>3, <1>13, <1>21
<1>16. ASSUME NEW i \in 1..k, lines[i].role = "user" PROVE \E a \in 1..Q : q[a] = i
  <2>1. CASE i \in 1..n
    <3>1. PICK a \in 1..R : r[a] = i BY <2>1, <1>16, <1>7
    <3>2. a \in 1..Q BY <1>2
    <3>3. q[a] = i BY <3>1, <1>8
    <3> QED BY <3>2, <3>3
  <2>2. CASE ~(i \in 1..n)
    <3>1. PICK j : j = i - n OBVIOUS
    <3>2. j \in 1..(k - n) /\ i = n + j BY <3>1, <2>2, <1>2
    <3>3. q[R + 1 + j] = i BY <3>2, <1>10
    <3>4. R + 1 + j \in 1..Q BY <3>2, <1>2
    <3> QED BY <3>3, <3>4
  <2> QED BY <2>1, <2>2
<1>17. [through |-> k, kept |-> q] \in Points BY <1>6 DEF Points
<1>18. Fits(lines, [through |-> k, kept |-> q])
  <2>1. PICK p : p = [through |-> k, kept |-> q] OBVIOUS
  <2>2. p.through = k /\ p.kept = q BY <2>1
  <2>3. k <= Len(lines) BY DEF KeepsAround
  <2>4. Fits(lines, p) BY <2>2, <2>3, <1>1, <1>14, <1>15, <1>16 DEF Fits
  <2> QED BY <2>1, <2>4
<1> QED BY <1>17, <1>18

LEMMA CandidateFits == log \in Seq(Entries) => Candidate \in Points /\ Fits(log, Candidate)
<1> SUFFICES ASSUME log \in Seq(Entries) PROVE Candidate \in Points /\ Fits(log, Candidate) OBVIOUS
<1>1. PrefixEnd \in 0..Len(log) BY PrefixInside
<1>2. PICK n : n = PrefixEnd OBVIOUS
<1>3. Keeps(log, Retained(n), n)
  <2>1. n \in Nat BY <1>1, <1>2
  <2> QED BY <2>1, RetainedKeeps
<1>4. Candidate = [through |-> Len(log),
                   kept |-> Retained(n) \o <<0>> \o [i \in 1..(Len(log) - n) |-> n + i]]
  BY <1>2 DEF Candidate
<1>5. PICK k \in Nat : k = Len(log) OBVIOUS
<1>6. PICK t : t = [i \in 1..(k - n) |-> n + i] OBVIOUS
<1>7. n \in 0..k /\ k - n \in Nat BY <1>1, <1>2, <1>5
<1>8. t \in Seq(Nat) /\ Len(t) = k - n
  <2>1. t \in [1..(k - n) -> Nat] BY <1>6, <1>7
  <2> QED BY <2>1, <1>7
<1>9. \A i \in 1..(k - n) : t[i] = n + i BY <1>6
<1>10. PICK q : q = Retained(n) \o <<0>> \o t OBVIOUS
<1>11. Candidate = [through |-> k, kept |-> q] BY <1>4, <1>5, <1>6, <1>10
<1>12. PICK r : r = Retained(n) OBVIOUS
<1>13. KeepsAround(log, k, n, r, t, q) BY <1>3, <1>5, <1>8, <1>9, <1>10, <1>12 DEF KeepsAround
<1>14. [through |-> k, kept |-> q] \in Points /\ Fits(log, [through |-> k, kept |-> q])
  BY <1>7, <1>13, CandidateIsFit
<1> QED BY <1>11, <1>14

-----------------------------------------------------------------------------
(* The history grows only. *)

Grows(old, new) == Len(old) <= Len(new) /\ \A i \in 1..Len(old) : new[i] = old[i]

LEMMA StillFits ==
  ASSUME NEW old \in Seq(Entries), NEW new \in Seq(Entries), Grows(old, new),
         NEW p \in Points, Fits(old, p)
  PROVE  Fits(new, p)
<1>1. p.through \in Nat /\ Len(old) \in Nat /\ Len(new) \in Nat BY DEF Points
<1>2. Len(old) <= Len(new) /\ \A i \in 1..Len(old) : new[i] = old[i] BY DEF Grows
<1>3. p.through <= Len(old) BY DEF Fits
<1>4. \A i \in 1..p.through : i \in 1..Len(old) BY <1>1, <1>3
<1>5. \A i \in 1..p.through : new[i] = old[i] BY <1>2, <1>4
<1>6. p.through <= Len(new) BY <1>1, <1>2, <1>3
<1> QED BY <1>5, <1>6 DEF Fits

LEMMA AppendGrows ==
  ASSUME NEW lines \in Seq(Entries), NEW x \in Entries
  PROVE  Append(lines, x) \in Seq(Entries) /\ Grows(lines, Append(lines, x))
<1>1. Append(lines, x) \in Seq(Entries) OBVIOUS
<1>2. Len(Append(lines, x)) = Len(lines) + 1 /\ Len(lines) \in Nat OBVIOUS
<1>3. \A i \in 1..Len(lines) : Append(lines, x)[i] = lines[i] OBVIOUS
<1> QED BY <1>1, <1>2, <1>3 DEF Grows

LEMMA JoinGrows ==
  ASSUME NEW lines \in Seq(Entries), NEW more \in Seq(Entries)
  PROVE  lines \o more \in Seq(Entries) /\ Grows(lines, lines \o more)
<1>1. lines \o more \in Seq(Entries) OBVIOUS
<1>2. Len(lines \o more) = Len(lines) + Len(more) /\ Len(lines) \in Nat /\ Len(more) \in Nat OBVIOUS
<1>3. \A i \in 1..Len(lines) : (lines \o more)[i] = lines[i] OBVIOUS
<1> QED BY <1>1, <1>2, <1>3 DEF Grows

LEMMA KindsTyped ==
  /\ Words \in Entries /\ Reply \in Entries
  /\ \A n \in Nat : Calls(n) \in Entries
  /\ \A i, k \in Nat : Result(i, k) \in Entries
BY DEF Words, Reply, Calls, Result, Entries

LEMMA AppendsAll ==
  ASSUME log \in Seq(Entries), NEW xs \in Seq(Entries)
  PROVE  AppendAll(xs) \in Seq(Entries) /\ Grows(log, AppendAll(xs))
<1>1. PICK parts : parts = [i \in DOMAIN xs |-> IF Filed(xs[i]) THEN <<>> ELSE <<xs[i]>>] OBVIOUS
<1>2. DOMAIN xs = 1..Len(xs) /\ Len(xs) \in Nat OBVIOUS
<1>3. ASSUME NEW i \in DOMAIN xs PROVE (IF Filed(xs[i]) THEN <<>> ELSE <<xs[i]>>) \in Seq(Entries)
  <2>1. xs[i] \in Entries BY <1>2
  <2> QED BY <2>1
<1>4. parts \in [1..Len(xs) -> Seq(Entries)] BY <1>1, <1>2, <1>3
<1>5. parts \in Seq(Seq(Entries)) BY <1>2, <1>4, FunctionIsSeq
<1>6. FlattenSeq(parts) \in Seq(Entries) BY <1>5, FlattenTyped
<1>7. AppendAll(xs) = log \o FlattenSeq(parts) BY <1>1 DEF AppendAll
<1> QED BY <1>6, <1>7, JoinGrows

LEMMA UnansweredTyped ==
  ASSUME log \in Seq(Entries)
  PROVE  Unanswered \in Seq(Entries)
<1> DEFINE opened(i, k) == IF Filed(Result(i, k)) THEN <<>> ELSE <<Result(i, k)>>
           among(i) == IF log[i].role = "calls" THEN FlattenSeq([k \in 1..log[i].nr |-> opened(i, k)]) ELSE <<>>
<1>1. DOMAIN log = 1..Len(log) /\ Len(log) \in Nat OBVIOUS
<1>2. ASSUME NEW i \in DOMAIN log PROVE among(i) \in Seq(Entries)
  <2>1. i \in Nat BY <1>1
  <2>2. log[i].nr \in Nat
    <3>1. log[i] \in Entries BY <1>1
    <3> QED BY <3>1 DEF Entries
  <2>3. ASSUME NEW k \in 1..log[i].nr PROVE opened(i, k) \in Seq(Entries)
    <3>1. k \in Nat BY <2>2
    <3>2. Result(i, k) \in Entries BY <2>1, <3>1, KindsTyped
    <3> QED BY <3>2
  <2>4. PICK parts : parts = [k \in 1..log[i].nr |-> opened(i, k)] OBVIOUS
  <2>5. parts \in [1..log[i].nr -> Seq(Entries)]
    <3> HIDE DEF opened
    <3> QED BY <2>3, <2>4
  <2>6. parts \in Seq(Seq(Entries)) BY <2>2, <2>5, FunctionIsSeq
  <2>7. FlattenSeq(parts) \in Seq(Entries) BY <2>6, FlattenTyped
  <2>8. among(i) = FlattenSeq(parts) \/ among(i) = <<>>
    <3> HIDE DEF opened
    <3> QED BY <2>4
  <2>9. <<>> \in Seq(Entries) OBVIOUS
  <2> HIDE DEF among
  <2> QED BY <2>7, <2>8, <2>9
<1>3. Unanswered = FlattenSeq([i \in DOMAIN log |-> among(i)]) BY DEF Unanswered
<1> HIDE DEF among
<1>4. PICK parts : parts = [i \in DOMAIN log |-> among(i)] OBVIOUS
<1>5. parts \in [1..Len(log) -> Seq(Entries)] BY <1>1, <1>2, <1>4
<1>6. parts \in Seq(Seq(Entries)) BY <1>1, <1>5, FunctionIsSeq
<1> QED BY <1>3, <1>4, <1>6, FlattenTyped

LEMMA SteeredTyped ==
  ASSUME steers \in Nat
  PROVE  Steered \in Seq(Entries)
<1>1. Words \in Entries BY KindsTyped
<1>2. Steered \in [1..steers -> Entries] BY <1>1 DEF Steered
<1> QED BY <1>2

LEMMA LeftBehind ==
  ASSUME log \in Seq(Entries), steers \in Nat
  PROVE  /\ AppendAll(Steered) \in Seq(Entries) /\ Grows(log, AppendAll(Steered))
         /\ AppendAll(Unanswered \o Steered) \in Seq(Entries)
         /\ Grows(log, AppendAll(Unanswered \o Steered))
<1>1. Steered \in Seq(Entries) /\ Unanswered \in Seq(Entries) BY SteeredTyped, UnansweredTyped
<1>2. Unanswered \o Steered \in Seq(Entries) BY <1>1
<1> QED BY <1>1, <1>2, AppendsAll

-----------------------------------------------------------------------------
(* The words survive. *)

\* The model is sent what the checkpoint keeps and the items behind it.
LEMMA TalkInvGivesWords == TalkInv => WordsSurvive
<1> SUFFICES ASSUME TalkInv PROVE WordsSurvive OBVIOUS
<1>1. /\ log \in Seq(Entries) /\ point.through \in Nat /\ point.kept \in Seq(Nat)
      /\ Len(log) \in Nat /\ DOMAIN log = 1..Len(log)
  BY DEF TalkInv, TalkTypeOK, Points
<1>2. PICK n \in Nat : n = point.through BY <1>1
<1>3. PICK k \in Nat : k = Len(log) BY <1>1
<1>4. PICK p \in Seq(Nat) : p = point.kept BY <1>1
<1>5. PICK K \in Nat : K = Len(p) BY <1>4
<1>6. /\ n <= k
      /\ \A a \in 1..K : p[a] <= n
      /\ \A a, b \in 1..K : a < b /\ p[a] > 0 /\ p[b] > 0 => p[a] < p[b]
      /\ \A i \in 1..n : log[i].role = "user" => \E a \in 1..K : p[a] = i
  BY <1>2, <1>3, <1>4, <1>5 DEF TalkInv, Fits
<1>7. k - n \in Nat BY <1>6
<1>8. PICK t : t = [i \in 1..(k - n) |-> n + i] OBVIOUS
<1>9. t \in Seq(Nat) /\ Len(t) = k - n
  <2>1. t \in [1..(k - n) -> Nat] BY <1>8
  <2> QED BY <2>1, <1>7, FunctionIsSeq
<1>10. \A i \in 1..(k - n) : t[i] = n + i BY <1>8
<1>11. PICK q : q = p \o t OBVIOUS
<1>12. Messages = q BY <1>2, <1>3, <1>4, <1>8, <1>11 DEF Messages
<1>13. q \in Seq(Nat) /\ Len(q) = Len(p) + Len(t) BY <1>9, <1>11, ConcatProperties
<1>14. PICK Q \in Nat : Q = Len(q) BY <1>13
<1>15. Q = K + (k - n) BY <1>5, <1>9, <1>13, <1>14
<1>16. \A a \in 1..K : q[a] = p[a] BY <1>5, <1>9, <1>11, ConcatProperties
<1>17. \A i \in 1..(k - n) : q[K + i] = n + i
  <2>1. ASSUME NEW i \in 1..(k - n) PROVE q[K + i] = t[i]
    <3>1. i \in 1..Len(t) BY <1>9
    <3>2. t \in Seq(Nat) BY <1>9
    <3>3. (p \o t)[Len(p) + i] = t[i] BY <3>1, <3>2, BehindIt
    <3> QED BY <3>3, <1>5, <1>11
  <2> QED BY <2>1, <1>10
<1>18. ASSUME NEW a \in 1..Q, a > K PROVE q[a] = n + (a - K)
  <2>1. PICK i : i = a - K OBVIOUS
  <2>2. i \in 1..(k - n) /\ a = K + i BY <2>1, <1>15, <1>18
  <2>3. q[K + i] = n + i BY <2>2, <1>17
  <2> QED BY <2>1, <2>2, <2>3
<1>19. \A a \in 1..Q : q[a] \in Nat BY <1>13, <1>14
<1>20. ASSUME NEW i \in DOMAIN log, IsWord(i) PROVE Contains(q, i)
  <2>1. i \in 1..k /\ log[i].role = "user" BY <1>1, <1>3, <1>20 DEF IsWord
  <2>2. CASE i \in 1..n
    <3>1. PICK a \in 1..K : p[a] = i BY <2>1, <2>2, <1>6
    <3>2. a \in 1..Q BY <1>15, <1>7
    <3>3. q[a] = i BY <3>1, <1>16
    <3> QED BY <3>2, <3>3, <1>14 DEF Contains
  <2>3. CASE ~(i \in 1..n)
    <3>1. PICK j : j = i - n OBVIOUS
    <3>2. j \in 1..(k - n) /\ n + j = i BY <3>1, <2>1, <2>3
    <3>3. q[K + j] = i BY <3>2, <1>17
    <3>4. K + j \in 1..Q BY <3>2, <1>15, <1>7
    <3> QED BY <3>3, <3>4, <1>14 DEF Contains
  <2> QED BY <2>2, <2>3
<1>21. ASSUME NEW a \in 1..Q, NEW b \in 1..Q, a < b, q[a] > 0, q[b] > 0
       PROVE  q[a] < q[b]
  <2>1. CASE b > K
    <3>1. q[b] = n + (b - K) BY <2>1, <1>18
    <3>2. CASE a > K
      <4>1. q[a] = n + (a - K) BY <3>2, <1>18
      <4> QED BY <3>1, <4>1, <1>21
    <3>3. CASE ~(a > K)
      <4>1. a \in 1..K BY <3>3
      <4>2. q[a] <= n BY <4>1, <1>6, <1>16
      <4>3. n < n + (b - K) BY <2>1
      <4>4. q[a] \in Nat BY <1>19
      <4> QED BY <4>2, <4>3, <4>4, <3>1, <2>1
    <3> QED BY <3>2, <3>3
  <2>2. CASE ~(b > K)
    <3>1. a \in 1..K /\ b \in 1..K BY <2>2, <1>21
    <3>2. q[a] = p[a] /\ q[b] = p[b] BY <3>1, <1>16
    <3> QED BY <3>1, <3>2, <1>21, <1>6
  <2> QED BY <2>1, <2>2
<1>22. \A a, b \in DOMAIN q : a < b /\ IsWord(q[a]) /\ IsWord(q[b]) => q[a] < q[b]
  <2>1. DOMAIN q = 1..Q BY <1>13, <1>14
  <2> QED BY <2>1, <1>21 DEF IsWord
<1> QED BY <1>12, <1>20, <1>22 DEF WordsSurvive

-----------------------------------------------------------------------------
(* Every action keeps the inductive invariant. *)

LEMMA NoPointFits ==
  ASSUME NEW lines \in Seq(Entries)
  PROVE  NoPoint \in Points /\ Fits(lines, NoPoint)
<1>1. NoPoint.through = 0 /\ NoPoint.kept = <<>> BY DEF NoPoint
<1>2. Len(lines) \in Nat OBVIOUS
<1>3. NoPoint \in Points BY DEF NoPoint, Points
<1> QED BY <1>1, <1>2, <1>3 DEF Fits

LEMMA StaysTheSame ==
  ASSUME NEW lines \in Seq(Entries)
  PROVE  Grows(lines, lines)
BY DEF Grows

\* A checkpoint that is not touched, or one of the history as it is now.
Stands(old, new, p, q) == q = p \/ (q \in Points /\ Fits(new, q))

LEMMA KeptBy ==
  ASSUME TalkInv, log' \in Seq(Entries), Grows(log, log'),
         Stands(log, log', point, point'), Stands(log, log', draft, draft'),
         order' \in {"none", "pending", "compacting"}, phase' \in Phases, outdated' \in BOOLEAN,
         steers' \in Nat, said' \in Nat, asked' \in Nat
  PROVE  TalkInv'
<1>1. log \in Seq(Entries) /\ point \in Points /\ draft \in Points BY DEF TalkInv, TalkTypeOK
<1>2. Fits(log, point) /\ Fits(log, draft) BY DEF TalkInv
<1>3. Fits(log', point) /\ Fits(log', draft) BY <1>1, <1>2, StillFits
<1>4. point' \in Points /\ Fits(log', point')
  BY <1>1, <1>3 DEF Stands
<1>5. draft' \in Points /\ Fits(log', draft')
  BY <1>1, <1>3 DEF Stands
<1>6. TalkTypeOK' BY <1>4, <1>5 DEF TalkTypeOK
<1> QED BY <1>4, <1>5, <1>6 DEF TalkInv

LEMMA SaysKeeps ==
  ASSUME TalkInv, StartRun \/ Steer
  PROVE  TalkInv'
<1>1. /\ log \in Seq(Entries) /\ said \in Nat /\ steers \in Nat /\ asked \in Nat
      /\ order \in {"none", "pending", "compacting"} /\ phase \in Phases /\ outdated \in BOOLEAN
  BY DEF TalkInv, TalkTypeOK
<1>2. CASE StartRun
  <2>1. log' = Append(log, Words) BY <1>2 DEF StartRun
  <2>2. log' \in Seq(Entries) /\ Grows(log, log') BY <1>1, <2>1, AppendGrows, KindsTyped
  <2>3. Stands(log, log', point, point') /\ Stands(log, log', draft, draft') BY <1>2 DEF StartRun, Stands
  <2>4. /\ order' = order /\ phase' = "boundary" /\ outdated' = FALSE
        /\ steers' = steers /\ said' = said + 1 /\ asked' = asked
    BY <1>2 DEF StartRun
  <2>5. phase' \in Phases BY <2>4 DEF Phases
  <2>6. said' \in Nat BY <1>1, <2>4
  <2> QED BY <1>1, <2>2, <2>3, <2>4, <2>5, <2>6, KeptBy
<1>3. CASE Steer
  <2>2. log' \in Seq(Entries) /\ Grows(log, log') BY <1>1, <1>3, StaysTheSame DEF Steer
  <2>3. Stands(log, log', point, point') /\ Stands(log, log', draft, draft') BY <1>3 DEF Steer, Stands
  <2>4. /\ order' = order /\ phase' = phase /\ outdated' = TRUE
        /\ steers' = steers + 1 /\ said' = said + 1 /\ asked' = asked
    BY <1>3 DEF Steer
  <2>6. said' \in Nat /\ steers' \in Nat BY <1>1, <2>4
  <2> QED BY <1>1, <2>2, <2>3, <2>4, <2>6, KeptBy
<1> QED BY <1>2, <1>3

LEMMA BoundaryKeeps ==
  ASSUME TalkInv, ToModel \/ Compacts
  PROVE  TalkInv'
<1>1. /\ log \in Seq(Entries) /\ said \in Nat /\ steers \in Nat /\ asked \in Nat
      /\ order \in {"none", "pending", "compacting"} /\ phase \in Phases /\ outdated \in BOOLEAN
  BY DEF TalkInv, TalkTypeOK
<1>2. CASE ToModel
  <2>1. log' = AppendAll(Steered) BY <1>2 DEF ToModel
  <2>2. log' \in Seq(Entries) /\ Grows(log, log') BY <1>1, <2>1, LeftBehind
  <2>3. Stands(log, log', point, point') /\ Stands(log, log', draft, draft') BY <1>2 DEF ToModel, Stands
  <2>4. outdated' = FALSE /\ steers' = 0 /\ said' = said /\ asked' = asked BY <1>2 DEF ToModel
  <2>5. phase' \in Phases BY <1>2 DEF ToModel, Phases
  <2>6. order' \in {"none", "pending", "compacting"} BY <1>2 DEF ToModel
  <2>7. steers' \in Nat /\ outdated' \in BOOLEAN BY <2>4
  <2> QED BY <1>1, <2>2, <2>3, <2>4, <2>5, <2>6, <2>7, KeptBy
<1>3. CASE Compacts
  <2>1. log' = log /\ point' = point /\ outdated' = outdated
        /\ steers' = steers /\ said' = said /\ asked' = asked
    BY <1>3 DEF Compacts
  <2>2. log' \in Seq(Entries) /\ Grows(log, log') BY <1>1, <2>1, StaysTheSame
  <2>3. Candidate \in Points /\ Fits(log', Candidate) BY <1>1, <2>1, CandidateFits
  <2>4. draft' = draft \/ draft' = Candidate BY <1>3 DEF Compacts
  <2>5. Stands(log, log', point, point') /\ Stands(log, log', draft, draft') BY <2>1, <2>3, <2>4 DEF Stands
  <2>6. phase' \in Phases BY <1>3 DEF Compacts, Phases
  <2>7. order' \in {"none", "pending", "compacting"} BY <1>1, <1>3 DEF Compacts
  <2> QED BY <1>1, <2>1, <2>2, <2>5, <2>6, <2>7, KeptBy
<1> QED BY <1>2, <1>3

LEMMA SummarizedKeeps ==
  ASSUME TalkInv, Summarized
  PROVE  TalkInv'
<1>1. /\ log \in Seq(Entries) /\ said \in Nat /\ steers \in Nat /\ asked \in Nat
      /\ draft \in Points /\ Fits(log, draft) /\ outdated \in BOOLEAN
  BY DEF TalkInv, TalkTypeOK
<1>2. /\ log' = log /\ outdated' = outdated /\ steers' = steers /\ said' = said /\ asked' = asked
      /\ draft' = NoPoint /\ order' = "none"
  BY DEF Summarized
<1>3. log' \in Seq(Entries) /\ Grows(log, log') BY <1>1, <1>2, StaysTheSame
<1>4. Stands(log, log', draft, draft') BY <1>2, <1>3, NoPointFits DEF Stands
<1>5. point' = point \/ point' = draft BY DEF Summarized
<1>6. Stands(log, log', point, point') BY <1>1, <1>2, <1>5 DEF Stands
<1>7. phase' \in Phases BY DEF Summarized, Phases
<1> QED BY <1>1, <1>2, <1>3, <1>4, <1>6, <1>7, KeptBy

LEMMA RespondKeeps ==
  ASSUME TalkInv, Respond \/ SentBack
  PROVE  TalkInv'
<1>1. /\ log \in Seq(Entries) /\ said \in Nat /\ steers \in Nat /\ asked \in Nat
      /\ order \in {"none", "pending", "compacting"} /\ phase \in Phases /\ outdated \in BOOLEAN
  BY DEF TalkInv, TalkTypeOK
<1>2. /\ point' = point /\ draft' = draft /\ order' = order /\ outdated' = outdated
      /\ steers' = steers /\ said' = said /\ asked' = asked
  BY DEF Respond, SentBack
<1>3. log' \in Seq(Entries) /\ Grows(log, log')
  <2>1. CASE log' = log BY <2>1, <1>1, StaysTheSame
  <2>2. CASE \E n \in 1..MaxCalls : log' = Append(log, Calls(n))
    <3>1. PICK n \in 1..MaxCalls : log' = Append(log, Calls(n)) BY <2>2
    <3>2. n \in Nat BY ConversationBounds
    <3>3. Calls(n) \in Entries BY <3>2, KindsTyped
    <3> QED BY <3>1, <3>3, <1>1, AppendGrows
  <2>3. CASE log' = Append(log, Reply) BY <2>3, <1>1, KindsTyped, AppendGrows
  <2>4. CASE log' = Append(log, Words) BY <2>4, <1>1, KindsTyped, AppendGrows
  <2> QED BY <2>1, <2>2, <2>3, <2>4 DEF Respond, SentBack
<1>4. phase' \in Phases BY DEF Respond, SentBack, Phases
<1>5. Stands(log, log', point, point') /\ Stands(log, log', draft, draft') BY <1>2 DEF Stands
<1> QED BY <1>1, <1>2, <1>3, <1>4, <1>5, KeptBy

LEMMA CallsKeep ==
  ASSUME TalkInv, Answered \/ ToolDone
  PROVE  TalkInv'
<1>1. /\ log \in Seq(Entries) /\ said \in Nat /\ steers \in Nat /\ asked \in Nat
      /\ order \in {"none", "pending", "compacting"} /\ phase \in Phases /\ outdated \in BOOLEAN
  BY DEF TalkInv, TalkTypeOK
<1>2. CASE Answered
  <2>1. log' = Append(log, Words) BY <1>2 DEF Answered
  <2>2. log' \in Seq(Entries) /\ Grows(log, log') BY <1>1, <2>1, AppendGrows, KindsTyped
  <2>3. Stands(log, log', point, point') /\ Stands(log, log', draft, draft') BY <1>2 DEF Answered, Stands
  <2>4. /\ order' = order /\ phase' = phase /\ outdated' = TRUE
        /\ steers' = steers /\ said' = said + 1 /\ asked' = asked
    BY <1>2 DEF Answered
  <2>6. said' \in Nat BY <1>1, <2>4
  <2> QED BY <1>1, <2>2, <2>3, <2>4, <2>6, KeptBy
<1>3. CASE ToolDone
  <2>1. /\ point' = point /\ draft' = draft /\ order' = order /\ outdated' = outdated
        /\ steers' = steers /\ said' = said /\ asked' = asked
    BY <1>3 DEF ToolDone
  <2>2. log' \in Seq(Entries) /\ Grows(log, log')
    <3>1. CASE Unanswered = <<>>
      <4>1. log' = log BY <1>3, <3>1 DEF ToolDone
      <4> QED BY <4>1, <1>1, StaysTheSame
    <3>2. CASE Unanswered # <<>>
      <4>1. log' = Append(log, Unanswered[1]) BY <1>3, <3>2 DEF ToolDone
      <4>2. Unanswered \in Seq(Entries) BY <1>1, UnansweredTyped
      <4>3. Unanswered[1] \in Entries BY <3>2, <4>2
      <4> QED BY <4>1, <4>3, <1>1, AppendGrows
    <3> QED BY <3>1, <3>2
  <2>3. phase' \in Phases BY <1>1, <1>3 DEF ToolDone, Phases
  <2>4. Stands(log, log', point, point') /\ Stands(log, log', draft, draft') BY <2>1 DEF Stands
  <2> QED BY <1>1, <2>1, <2>2, <2>3, <2>4, KeptBy
<1> QED BY <1>2, <1>3

LEMMA EndKeeps ==
  ASSUME TalkInv, FinishTalk \/ Revive
  PROVE  TalkInv'
<1>1. /\ log \in Seq(Entries) /\ said \in Nat /\ steers \in Nat /\ asked \in Nat
      /\ order \in {"none", "pending", "compacting"} /\ phase \in Phases /\ outdated \in BOOLEAN
  BY DEF TalkInv, TalkTypeOK
<1>2. /\ log' = AppendAll(Unanswered \o Steered) /\ steers' = 0 /\ outdated' = outdated
      /\ said' = said /\ asked' = asked /\ draft' = NoPoint /\ phase' = "over" /\ order' = "none"
  BY DEF FinishTalk, Revive, LeftOpen, Settle
<1>3. log' \in Seq(Entries) /\ Grows(log, log') BY <1>1, <1>2, LeftBehind
<1>4. (log \in Seq(Entries) => Candidate \in Points /\ Fits(log, Candidate))'
  BY CandidateFits, PTL
<1>5. Candidate' \in Points /\ Fits(log', Candidate') BY <1>3, <1>4
<1>6. point' = point \/ point' = Candidate' BY DEF FinishTalk, Revive, Settle
<1>7. Stands(log, log', point, point') BY <1>5, <1>6 DEF Stands
<1>8. Stands(log, log', draft, draft') BY <1>2, <1>3, NoPointFits DEF Stands
<1>9. phase' \in Phases BY <1>2 DEF Phases
<1> QED BY <1>1, <1>2, <1>3, <1>7, <1>8, <1>9, KeptBy

LEMMA AskKeeps ==
  ASSUME TalkInv, AskCompaction
  PROVE  TalkInv'
<1>1. /\ log \in Seq(Entries) /\ said \in Nat /\ steers \in Nat /\ asked \in Nat
      /\ order \in {"none", "pending", "compacting"} /\ phase \in Phases /\ outdated \in BOOLEAN
  BY DEF TalkInv, TalkTypeOK
<1>2. /\ log' = log /\ draft' = draft /\ phase' = phase /\ outdated' = outdated
      /\ steers' = steers /\ said' = said /\ asked' = asked + 1
  BY DEF AskCompaction
<1>3. log' \in Seq(Entries) /\ Grows(log, log') BY <1>1, <1>2, StaysTheSame
<1>4. Candidate \in Points /\ Fits(log', Candidate) BY <1>1, <1>2, CandidateFits
<1>5. point' = point \/ point' = Candidate BY DEF AskCompaction
<1>6. Stands(log, log', point, point') /\ Stands(log, log', draft, draft') BY <1>2, <1>4, <1>5 DEF Stands
<1>7. order' \in {"none", "pending", "compacting"} BY <1>1 DEF AskCompaction
<1>8. asked' \in Nat BY <1>1, <1>2
<1> QED BY <1>1, <1>2, <1>3, <1>6, <1>7, <1>8, KeptBy

LEMMA TalkStarts == TalkInit => TalkInv
<1> SUFFICES ASSUME TalkInit PROVE TalkInv OBVIOUS
<1>1. log = <<>> /\ point = NoPoint /\ draft = NoPoint BY DEF TalkInit
<1>2. log \in Seq(Entries) BY <1>1
<1>3. /\ point \in Points /\ Fits(log, point) /\ draft \in Points /\ Fits(log, draft)
  BY <1>1, <1>2, NoPointFits
<1>4. TalkTypeOK BY <1>2, <1>3 DEF TalkInit, TalkTypeOK, Phases
<1> QED BY <1>3, <1>4 DEF TalkInv

LEMMA TalkStep == TalkInv /\ [TalkNext]_talkVars => TalkInv'
<1> SUFFICES ASSUME TalkInv, [TalkNext]_talkVars PROVE TalkInv' OBVIOUS
<1>1. CASE StartRun \/ Steer BY <1>1, SaysKeeps
<1>2. CASE ToModel \/ Compacts BY <1>2, BoundaryKeeps
<1>3. CASE Summarized BY <1>3, SummarizedKeeps
<1>4. CASE Respond \/ SentBack BY <1>4, RespondKeeps
<1>5. CASE Answered \/ ToolDone BY <1>5, CallsKeep
<1>6. CASE FinishTalk \/ Revive BY <1>6, EndKeeps
<1>7. CASE AskCompaction BY <1>7, AskKeeps
<1>8. CASE UNCHANGED talkVars
  BY <1>8 DEF talkVars, TalkInv, TalkTypeOK, Fits
<1> QED BY <1>1, <1>2, <1>3, <1>4, <1>5, <1>6, <1>7, <1>8 DEF TalkNext

LEMMA TalkInvariant == TalkSpec => []TalkInv
<1> QED BY TalkStarts, TalkStep, PTL DEF TalkSpec

\* The history, its checkpoints and the state of a compaction are what they are
\* meant to be (context_history.py, context_manager.py).
THEOREM TalkTypeCorrect == TalkSpec => []TalkTypeOK
<1>1. TalkInv => TalkTypeOK BY DEF TalkInv
<1> QED BY <1>1, TalkInvariant, PTL

\* Whatever is compacted, interrupted or restarted, the model is sent all the
\* words of the user, once each and in their order (context_history.py:182).
THEOREM WordsAreKept == TalkSpec => []WordsSurvive
<1> QED BY TalkInvGivesWords, TalkInvariant, PTL

=============================================================================
