---------------------------- MODULE SessionTurns ----------------------------
(***************************************************************************)
(* The turns of one session: TurnQueue, PlanningInteraction and the guards *)
(* of Runtime.create.                                                      *)
(*                                                                         *)
(* A session has at most one active run.  Its next run is started by the   *)
(* user, by the follow-up turn that waits in the session's record, or by   *)
(* the order to carry out the plan of a run in plan mode.  A run in plan   *)
(* mode may ask the user and waits for the answer in a future.  Runs are   *)
(* numbered in the order of their creation.                                *)
(***************************************************************************)
EXTENDS Naturals, Sequences, FiniteSets

CONSTANTS
  Request,   \* follow-up turns that clients send, and may send again
  Client,    \* orders to carry out a plan, each with a request of its own
  MaxRun, MaxGen   \* bounds of the runs and of their generations

ASSUME TurnBounds == MaxRun \in Nat /\ MaxGen \in Nat

TurnRun == 1..MaxRun

VARIABLES
  st,        \* status of the runs; failed is every end but the completed one
  by,        \* what started a run: [how, what]
  mode,      \* collaboration_mode, "ready" once a plan may be carried out
  last,      \* last_run_id of the session; only this run can be active
  gen,       \* its generation, which every control advances
  halt,      \* its cancel_requested_at
  item,      \* queued_turn of the session
  sent,      \* the run that a request for a follow-up turn named
  soon,      \* TurnQueue.advance callbacks of the event loop
  question,  \* its pending_input: the generation it was asked in
  future,    \* PlanningInteraction.pending
  heard,     \* what became of its last question: answered, told to the model
  receipt,   \* control receipts of implement, by run and client
  check,     \* the run whose resumption a client's implement validates
  shut       \* TurnQueue.closed

runVars == <<st, by, mode, last, gen, halt>>
queueVars == <<item, sent, soon>>
askVars == <<question, future, heard>>
planVars == <<receipt, check>>
turnVars == <<runVars, queueVars, askVars, planVars, shut>>

NoItem == [req |-> "none", after |-> 0, state |-> "none", result |-> 0]
NoQuestion == MaxGen + 1

TurnsInit ==
  /\ st = [r \in TurnRun |-> "none"] /\ by = [r \in TurnRun |-> <<"none", 0>>]
  /\ mode = [r \in TurnRun |-> "default"]
  /\ last = 0 /\ gen = 0 /\ halt = FALSE
  /\ item = NoItem /\ sent = [q \in Request |-> 0] /\ soon = <<>>
  /\ question = NoQuestion /\ future = "none" /\ heard = "none"
  /\ receipt = [r \in TurnRun |-> [c \in Client |-> 0]]
  /\ check = [c \in Client |-> 0]
  /\ shut = FALSE

InProgress(r) == st[r] \in {"running", "waiting"}
Waits == last > 0 /\ st[last] = "waiting"
Ended(r) == st[r] \in {"completed", "failed"}

-----------------------------------------------------------------------------
(* Runtime.create and finish. *)

\* A new run of the session, refused while one of its runs is active.
NewRun(how, what, m) ==
  /\ last < MaxRun /\ \A r \in TurnRun : ~InProgress(r)
  /\ last' = last + 1
  /\ st' = [st EXCEPT ![last + 1] = "running"]
  /\ by' = [by EXCEPT ![last + 1] = <<how, what>>]
  /\ mode' = [mode EXCEPT ![last + 1] = m]
  /\ gen' = 0 /\ halt' = FALSE

UserTurn ==
  /\ ~shut
  /\ \E m \in {"default", "plan"} : NewRun("user", 0, m)
  /\ UNCHANGED <<queueVars, askVars, planVars, shut>>

\* TurnQueue.settled.
Settled(r, s) ==
  soon' = IF ~shut /\ item.state = "pending" /\ item.after = r
          THEN Append(soon, r) ELSE soon

\* A run does not come to its end before the callbacks of the event loop have
\* run that were there when it started.
RunEnds(r) ==
  /\ st[r] = "running" /\ future = "none" /\ soon = <<>>
  /\ \E s \in IF halt THEN {"failed"} ELSE {"completed", "failed"} :
       /\ st' = [st EXCEPT ![r] = s]
       /\ mode' \in IF s = "completed" /\ mode[r] = "plan"
                    THEN {mode, [mode EXCEPT ![r] = "ready"]} ELSE {mode}
       /\ Settled(r, s)
  /\ UNCHANGED <<by, last, gen, halt, item, sent, askVars, planVars, shut>>

-----------------------------------------------------------------------------
(* TurnQueue. *)

Queue(q, r) ==
  item' = [req |-> q, after |-> r, state |-> "pending", result |-> 0]

\* A request names the same run whenever it is sent.  One that is still in the
\* session's record is answered from there.
EnqueueTurn(q, r) ==
  /\ ~shut /\ InProgress(r)
  /\ sent[q] \in {0, r} /\ sent' = [sent EXCEPT ![q] = r]
  /\ item.req # q /\ item.state \notin {"pending", "blocked"}
  /\ Queue(q, r)
  /\ UNCHANGED <<runVars, soon, askVars, planVars, shut>>

Withdraw ==
  /\ ~shut /\ item.state \in {"pending", "blocked"}
  /\ item' = [item EXCEPT !.state = "cancelled"]
  /\ UNCHANGED <<runVars, sent, soon, askVars, planVars, shut>>

\* Faulty variant: the queued turn is only looked at by its state.
CallsForFaulty(r) == item.state = "pending"

\* The turn that advance finds is the one it was scheduled for.
CallsFor(r) == ~shut /\ item.state = "pending" /\ item.after = r

Block == item' = [item EXCEPT !.state = "blocked"] /\ UNCHANGED runVars

\* create refuses a run next to an active one and checks project, grant and
\* model again, which may fail for reasons of their own.
Advance ==
  /\ soon # <<>> /\ soon' = Tail(soon)
  /\ \/ /\ ~CallsFor(Head(soon))
        /\ UNCHANGED <<runVars, item>>
     \/ /\ CallsFor(Head(soon)) /\ st[Head(soon)] # "completed"
        /\ Block
     \/ /\ CallsFor(Head(soon)) /\ st[Head(soon)] = "completed"
        /\ \/ /\ NewRun("queue", item.req, IF mode[Head(soon)] = "default"
                                          THEN "default" ELSE "plan")
              /\ item' = [item EXCEPT !.state = "launched", !.result = last + 1]
           \/ Block
  /\ UNCHANGED <<sent, askVars, planVars, shut>>

-----------------------------------------------------------------------------
(* PlanningInteraction.ask, answer and invalidate. *)

AskUser ==
  /\ last > 0 /\ st[last] = "running" /\ mode[last] = "plan" /\ ~halt
  /\ question = NoQuestion /\ future = "none"
  /\ st' = [st EXCEPT ![last] = "waiting"]
  /\ question' = gen /\ future' = "open" /\ heard' = "none"
  /\ UNCHANGED <<by, mode, last, gen, halt, queueVars, planVars, shut>>

Answerable ==
  /\ Waits /\ question # NoQuestion
  /\ question = gen /\ future = "open"

\* The answer is a new constraint: it advances the generation and settles the
\* question in one transaction; the coroutine wakes later.
Answer ==
  /\ ~shut /\ Answerable /\ gen < MaxGen
  /\ st' = [st EXCEPT ![last] = "running"]
  /\ gen' = gen + 1 /\ question' = NoQuestion /\ heard' = "answered"
  /\ future' = IF future = "open" THEN "answered" ELSE future
  /\ UNCHANGED <<by, mode, last, halt, queueVars, planVars, shut>>

Invalidate == future' = IF future = "open" THEN "cancelled" ELSE future

\* A steer, a pause or a cancel of the run.
Interrupt ==
  /\ ~shut /\ last > 0 /\ InProgress(last) /\ gen < MaxGen
  /\ gen' = gen + 1 /\ halt' \in {halt, TRUE}
  /\ Invalidate
  /\ UNCHANGED <<st, by, mode, last, question, heard, queueVars, planVars, shut>>

\* The coroutine of ask wakes; its finally clears what is still its question.
AskReturns ==
  /\ future \in {"answered", "cancelled"}
  /\ future' = "none" /\ question' = NoQuestion
  /\ st' = [st EXCEPT ![last] = IF @ = "waiting" THEN "running" ELSE @]
  /\ heard' = IF future = "answered" THEN "told" ELSE heard
  /\ UNCHANGED <<by, mode, last, gen, halt, queueVars, planVars, shut>>

-----------------------------------------------------------------------------
(* PlanningInteraction.implement. *)

ImplementBegins(c, r) ==
  /\ ~shut /\ check[c] = 0
  /\ receipt[r][c] = 0
  /\ st[r] = "completed" /\ mode[r] = "ready"
  /\ check' = [check EXCEPT ![c] = r]
  /\ UNCHANGED <<runVars, queueVars, askVars, receipt, shut>>

StillLatest(r) == last = r

\* After the await the receipt and the session's last run are read again.
ImplementEnds(c) ==
  /\ check[c] # 0 /\ check' = [check EXCEPT ![c] = 0]
  /\ \/ /\ receipt[check[c]][c] = 0 /\ StillLatest(check[c])
        /\ NewRun("plan", check[c], "default")
        /\ receipt' = [receipt EXCEPT ![check[c]][c] = last + 1]
     \/ UNCHANGED <<runVars, receipt>>
  /\ UNCHANGED <<queueVars, askVars, shut>>

-----------------------------------------------------------------------------
(* Runtime.close and the next start of the service. *)

CloseTurns ==
  /\ ~shut /\ shut' = TRUE
  /\ halt' = (last > 0 /\ InProgress(last))
  /\ Invalidate
  /\ UNCHANGED <<st, by, mode, last, gen, queueVars, question, heard, planVars>>

\* Faulty variant: the queued turn waits for a run that is over.
KeptFaulty == item

\* TurnQueue.__init__ after Store._recover.
Kept == IF item.state = "pending" THEN [item EXCEPT !.state = "blocked"] ELSE item

RestartTurns ==
  /\ shut' = FALSE
  /\ st' = [r \in TurnRun |-> IF InProgress(r) THEN "failed" ELSE st[r]]
  /\ question' = NoQuestion /\ future' = "none" /\ heard' = "none"
  /\ halt' = FALSE
  /\ item' = Kept /\ soon' = <<>>
  /\ check' = [c \in Client |-> 0]
  /\ UNCHANGED <<by, mode, last, gen, sent, receipt>>

-----------------------------------------------------------------------------

TurnsNext ==
  \/ UserTurn \/ AskUser \/ Answer \/ Interrupt \/ AskReturns
  \/ Withdraw \/ Advance \/ CloseTurns \/ RestartTurns
  \/ \E r \in TurnRun : RunEnds(r)
  \/ \E q \in Request, r \in TurnRun : EnqueueTurn(q, r)
  \/ \E c \in Client, r \in TurnRun : ImplementBegins(c, r)
  \/ \E c \in Client : ImplementEnds(c)

\* The event loop serves its callbacks and wakes coroutines; a run, a client or
\* a user need not do anything.
TurnsSpec ==
  /\ TurnsInit /\ [][TurnsNext]_turnVars
  /\ WF_turnVars(Advance) /\ WF_turnVars(AskReturns)

-----------------------------------------------------------------------------
(* Properties. *)

\* A follow-up turn starts at most one run, however often its request arrives,
\* and that run comes directly after the one it was queued behind, which had
\* completed: no turn of the user in between, no failed run, no restart.  It is
\* given up with a reason only when that run is over.
TurnStartsOnce ==
  /\ \A r \in TurnRun : by[r][1] = "queue" =>
       /\ r > 1 /\ sent[by[r][2]] = r - 1 /\ st[r - 1] = "completed"
       /\ \A s \in TurnRun : by[s] = by[r] => s = r
  /\ item.state = "blocked" => Ended(item.after)

\* A follow-up turn whose run is over does not wait for ever: it is started,
\* blocked with a reason, or withdrawn, unless the service is shutting down.
QueuedTurnSettles ==
  (item.state = "pending" /\ item.after > 0 /\ Ended(item.after))
    ~> (item.state # "pending" \/ shut)

=============================================================================
