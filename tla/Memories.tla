------------------------------ MODULE Memories ------------------------------
(***************************************************************************)
(* Long-term memories (memories.py, memory_store.py, memory_routes.py): a  *)
(* worker reads what was said in finished sessions, has a model draw       *)
(* memories from it and saves them, while the user turns the feature on    *)
(* and off, edits and forgets memories, deletes sessions and goes on       *)
(* talking.                                                                *)
(*                                                                         *)
(* The service is one event loop: a step runs from one await to the next.  *)
(* The worker awaits between two sessions, while it asks for the model     *)
(* profiles and while the model answers.  Saving the settings awaits the   *)
(* end of the worker; every other request is one step.                     *)
(*                                                                         *)
(* The creation time of a message is its number: the clock counts          *)
(* messages.  A version number is kept where a step compares it, and a     *)
(* change that only bumps `revision` (or the session's updated_at) shows   *)
(* in the worker's `fresh` (or `same`).                                    *)
(***************************************************************************)
EXTENDS Naturals, Sequences, SequencesExt, FiniteSets, FiniteSetsExt

CONSTANTS
  Chat,      \* sessions of one project
  Drawn,     \* scope and stable key of the memories the model may give
  Own,       \* scope and key of the memories the user may write
  Fact,      \* contents
  MaxWord,   \* bound of the messages
  MaxAct,    \* bound of the user's management requests and restarts
  MinUser,   \* messages of the user one extraction needs (2 in the code)
  MaxBatch,  \* messages one extraction takes
  MaxCall,   \* max_calls_per_day
  MaxRow,    \* memories of one scope
  NoChat, NoRow

\* A row: its content, whether it is a tombstone, who wrote it, and the session
\* and the message it was drawn from.
MemoryRow == [fact : Fact, deleted : BOOLEAN, origin : {"user", "model"}, from : Chat \cup {NoChat}, at : 0..MaxWord]

ASSUME MemoriesShape ==
  /\ NoChat \notin Chat /\ Drawn \cap Own = {}
  /\ {MinUser, MaxWord, MaxAct, MaxBatch, MaxCall, MaxRow} \subseteq Nat
  /\ NoRow \notin MemoryRow

VARIABLES
  policy,    \* the settings row
  chat,      \* sessions: whether they exist, their messages, their own settings
  rows,      \* the memories table: scope and stable key to a row
  worker,    \* the background task
  leaving,   \* a cancelled task has not unwound yet, and it was in a call
  request,   \* a save of the settings that waits for the task
  attempts,  \* how many calls were begun today, and those that are marked as running
  active,    \* the session whose run is active
  recalled,  \* the rows the active run was shown
  withheld,  \* history: messages said, or still there, without consent
  forgotten, \* history: what the user forgot
  clock, acts

memoryVars == <<policy, chat, rows, worker, leaving, request, attempts, active, recalled,
                withheld, forgotten, clock, acts>>

Slot == Drawn \cup Own

Off == [at |-> "off"]
Asleep == [at |-> "asleep"]
NotLeaving == [on |-> FALSE, call |-> FALSE]
NoRequest == [on |-> FALSE]

NewChat == [live |-> TRUE, said |-> <<>>, done |-> FALSE, use |-> TRUE, make |-> TRUE,
            since |-> 0, version |-> 1, cursor |-> 0]

MemoriesInit ==
  /\ policy \in [on : BOOLEAN, use : {TRUE}, make : BOOLEAN, shut : {TRUE}, since : {0}, version : {1}]
  /\ chat = [s \in Chat |-> NewChat]
  /\ rows = [p \in Slot |-> NoRow]
  /\ worker = IF policy.on /\ policy.make THEN Asleep ELSE Off
  /\ leaving = NotLeaving /\ request = NoRequest
  /\ attempts = [calls |-> 0, running |-> 0] /\ active = NoChat /\ recalled = {}
  /\ withheld = {} /\ forgotten = {} /\ clock = 0 /\ acts = 0

\* allowed(session_id, "generate_memories") and allowed(session_id, "use_memories")
MayMake(s) == policy.on /\ policy.make /\ chat[s].make
MayUse(s) == policy.on /\ policy.use /\ chat[s].use

Stamps(s) == {w.at : w \in ToSet(chat[s].said)}
Living(p) == rows[p] # NoRow /\ ~rows[p].deleted
Full(table, scope) ==
  Cardinality({p \in Slot : p[1] = scope /\ table[p] # NoRow /\ ~table[p].deleted}) >= MaxRow

\* Everything that bumps `revision`, and everything that sets a session's updated_at.
Stale(job) == IF "fresh" \in DOMAIN job THEN [job EXCEPT !.fresh = FALSE] ELSE job
Touched(job, s) == IF "same" \in DOMAIN job THEN [job EXCEPT !.same = @ \ {s}] ELSE job

-----------------------------------------------------------------------------
(* Runs of the sessions: the messages the worker will read.  Whatever was set
   before the first message was said is an initial state. *)

\* recall: what the user wrote is always shown, what was generated when it is about the goal.
Recall(s, related) ==
  IF MayUse(s) THEN {p \in Slot : Living(p) /\ (rows[p].origin = "user" \/ p \in related)} ELSE {}

Users(words) == Len(SelectSeq(words, LAMBDA w : w.who = "user"))

Say(s, who, outside) ==
  /\ clock < MaxWord /\ clock' = clock + 1
  /\ chat' = [chat EXCEPT ![s].said = Append(@, [at |-> clock + 1, who |-> who, outside |-> outside]),
                          ![s].done = FALSE]
  /\ withheld' = IF MayMake(s) THEN withheld ELSE withheld \cup {clock + 1}

StartRun(s) ==
  /\ active = NoChat /\ chat[s].live /\ active' = s
  /\ \E related \in {{}, Slot} : recalled' = Recall(s, related)
  /\ Say(s, "user", FALSE) /\ worker' = Touched(worker, s)
  /\ UNCHANGED <<policy, rows, leaving, request, attempts, forgotten, acts>>

\* The model says something, or reads the documentation of an outside service.
Answer ==
  /\ active # NoChat /\ \E outside \in BOOLEAN : Say(active, "model", outside)
  /\ UNCHANGED <<policy, rows, worker, leaving, request, attempts, active, recalled,
                 forgotten, acts>>

EndRun ==
  /\ active # NoChat /\ active' = NoChat
  /\ \E done \in BOOLEAN : chat' = [chat EXCEPT ![active].done = done]
  /\ recalled' = {}
  /\ UNCHANGED <<policy, rows, worker, leaving, request, attempts, withheld,
                 forgotten, clock, acts>>

-----------------------------------------------------------------------------
(* The worker. *)

\* _loop and the head of tick
Tick ==
  /\ worker = Asleep /\ ~leaving.on /\ active = NoChat /\ policy.on /\ policy.make
  /\ worker' = [at |-> "scan", config |-> policy, fresh |-> TRUE,
                todo |-> {s \in Chat : chat[s].live}, same |-> {s \in Chat : chat[s].live},
                done |-> {s \in Chat : chat[s].done}, on |-> NoChat, batch |-> <<>>,
                version |-> 0]
  /\ UNCHANGED <<policy, chat, rows, leaving, request, attempts, active, recalled,
                 withheld, forgotten, clock, acts>>

\* What is new since the last extraction and since generation was switched on:
\* messages are said in the order of their times.
Eligible(s) ==
  LET said == chat[s].said
      since == IF policy.since > chat[s].since THEN policy.since ELSE chat[s].since
      news == {k \in 1..(Len(said) + 1) : \A i \in k..Len(said) : said[i].at > chat[s].cursor /\ said[i].at > since}
  IN SubSeq(said, Min(news), Len(said))

\* source: the messages to extract from, <<>> for None.
Source(s, config, done) ==
  LET batch == SubSeq(Eligible(s), 1, IF Len(Eligible(s)) < MaxBatch THEN Len(Eligible(s)) ELSE MaxBatch)
      outside == config.shut /\ \E w \in ToSet(chat[s].said) : w.outside
  IN IF MayMake(s) /\ done /\ ~outside /\ Users(batch) >= MinUser THEN batch ELSE <<>>

Sleep(job) == worker' = Asleep /\ UNCHANGED <<leaving, request, withheld, forgotten, clock, acts>>

\* One session of the scan.  Its run may not be idle long enough or be too old, or
\* the session waits for its retry_after; one deleted meanwhile is passed over.
Look(s) ==
  /\ worker.at = "scan" /\ active = NoChat /\ s \in worker.todo
  /\ \E due \in BOOLEAN :
       LET batch == Source(s, worker.config, s \in worker.done /\ due) IN
       worker' = IF chat[s].live /\ batch # <<>>
                 THEN [worker EXCEPT !.at = "profiles", !.on = s, !.batch = batch, !.fresh = TRUE,
                                     !.version = chat[s].version, !.todo = {}, !.done = {}, !.same = @ \cap {s}]
                 ELSE [worker EXCEPT !.todo = @ \ {s}]
  /\ UNCHANGED <<policy, chat, rows, leaving, request, attempts, active, recalled,
                 withheld, forgotten, clock, acts>>

EndScan ==
  /\ worker.at = "scan" /\ (worker.todo = {} \/ active # NoChat) /\ Sleep(worker)
  /\ UNCHANGED <<policy, chat, rows, attempts, active, recalled>>

\* No model, over the model's budget, or over the calls of a day.
NoCall ==
  /\ worker.at = "profiles" /\ Sleep(worker)
  /\ UNCHANGED <<policy, chat, rows, attempts, active, recalled>>

Overtaken == ~worker.fresh \/ active # NoChat \/ ~MayMake(worker.on)

GiveUp ==
  /\ worker.at = "profiles" /\ Overtaken /\ Sleep(worker)
  /\ UNCHANGED <<policy, chat, rows, attempts, active, recalled>>

Call ==
  /\ worker.at = "profiles" /\ ~Overtaken /\ attempts.calls < MaxCall
  /\ attempts' = [calls |-> attempts.calls + 1, running |-> attempts.running + 1]
  /\ worker' = [worker EXCEPT !.at = "call"]
  /\ UNCHANGED <<policy, chat, rows, leaving, request, active, recalled, withheld,
                 forgotten, clock, acts>>

Finish == attempts' = [attempts EXCEPT !.running = @ - 1]

\* What the model may draw from the batch: a memory, and the time of the latest
\* message it cites, one of the cited ones being the user's.
Output(batch) ==
  [slot : Drawn, fact : Fact,
   at : {w.at : w \in {v \in ToSet(batch) : \E u \in ToSet(batch) : u.who = "user" /\ u.at <= v.at}}]

Blocked(table, m) ==
  LET old == table[m.slot] IN
  \/ old # NoRow /\ (old.deleted \/ old.origin = "user" \/ old.at >= m.at)
  \/ \E p \in Slot : p[1] = m.slot[1] /\ table[p] # NoRow /\ table[p].fact = m.fact

Merge(table, m, s) ==
  IF Blocked(table, m) THEN table
  ELSE [table EXCEPT ![m.slot] =
          [fact |-> m.fact, deleted |-> FALSE, origin |-> "model", from |-> s, at |-> m.at]]

\* A new memory for a scope that is full undoes the whole save.
Overflow(table, m) ==
  ~Blocked(table, m) /\ table[m.slot] = NoRow /\ Full(table, m.slot[1])

\* The settings, the session and the runs are those the extraction began with.
Unchanged ==
  LET s == worker.on IN
  /\ worker.fresh /\ policy.version = worker.config.version /\ chat[s].live
  /\ chat[s].version = worker.version /\ active = NoChat /\ s \in worker.same /\ MayMake(s)

Save ==
  /\ worker.at = "call" /\ Unchanged
  /\ Source(worker.on, worker.config, chat[worker.on].done) = worker.batch
  /\ \E m \in Output(worker.batch), none \in BOOLEAN :
       /\ none \/ ~Overflow(rows, m)
       /\ rows' = IF none THEN rows ELSE Merge(rows, m, worker.on)
  /\ chat' = [chat EXCEPT ![worker.on].cursor = Last(worker.batch).at]
  /\ Finish /\ Sleep(worker)
  /\ UNCHANGED <<policy, active, recalled>>

\* The call timed out or failed, its answer has no valid form, something changed
\* meanwhile, the run is too old by now, or a memory found its scope full.
Fail ==
  /\ worker.at = "call" /\ Finish /\ Sleep(worker)
  /\ UNCHANGED <<policy, chat, rows, active, recalled>>

-----------------------------------------------------------------------------
(* The user's requests. *)

Act == acts < MaxAct /\ acts' = acts + 1

\* stop: the task is cancelled, and unwinds after this step.
Stopped(job) ==
  /\ worker' = Off
  /\ leaving' = [on |-> TRUE, call |-> job.at = "call"]

Unwind ==
  /\ leaving.on /\ leaving' = NotLeaving
  /\ IF leaving.call THEN Finish ELSE UNCHANGED attempts
  /\ UNCHANGED <<policy, chat, rows, worker, request, active, recalled, withheld,
                 forgotten, clock, acts>>

\* enabled_before compares the switch for both together.
MakingFaulty(p) == p.on
Making(p) == p.on /\ p.make

\* save_settings with a version the user saw, and start afterwards
Store(new) ==
  /\ policy' = IF new.version # policy.version THEN policy
               ELSE [new EXCEPT !.version = @ + 1,
                                !.since = IF Making(new) /\ ~Making(policy) THEN clock ELSE policy.since]
  /\ withheld' = IF Making(policy') THEN withheld ELSE withheld \cup UNION {Stamps(s) : s \in Chat}
  /\ worker' = IF Making(policy') /\ worker = Off THEN Asleep ELSE worker

With(on, make) == [policy EXCEPT !.on = on, !.make = make]
Wanted == {With(on, make) : on, make \in BOOLEAN}

\* Without a task, stop does not wait and the request is one step.
SaveSettings ==
  /\ Act /\ \E new \in Wanted \cup {[policy EXCEPT !.version = @ - 1]} :
       IF worker = Off
       THEN Store(new) /\ UNCHANGED <<leaving, request>>
       ELSE /\ ~request.on /\ request' = [on |-> TRUE, new |-> new] /\ Stopped(worker)
            /\ UNCHANGED <<policy, withheld>>
  /\ UNCHANGED <<chat, rows, attempts, active, recalled, forgotten, clock>>

SaveAfterStop ==
  /\ request.on /\ ~leaving.on /\ request' = NoRequest /\ Store(request.new)
  /\ UNCHANGED <<chat, rows, leaving, attempts, active, recalled, forgotten, clock, acts>>

\* Every other request raises the revision first, also one that is then refused.
Revise == Act /\ UNCHANGED <<policy, leaving, request, attempts, active, recalled, clock>>

SaveSession(s) ==
  /\ Revise /\ chat[s].live /\ worker' = Stale(worker)
  /\ \/ UNCHANGED <<chat, withheld>>  \* an old version
     \/ \E use, make \in BOOLEAN :
          /\ use \/ make
          /\ chat' = [chat EXCEPT ![s].use = use, ![s].make = make, ![s].version = @ + 1,
                                  ![s].since = IF make /\ ~chat[s].make THEN clock ELSE @]
          /\ withheld' = IF make THEN withheld ELSE withheld \cup Stamps(s)
  /\ UNCHANGED <<rows, forgotten>>

Mine(fact, at, from) == [fact |-> fact, deleted |-> FALSE, origin |-> "user", from |-> from, at |-> at]

Create ==
  /\ Revise /\ worker' = Stale(worker)
  /\ \E p \in Own, fact \in Fact :
       /\ rows[p] = NoRow
       /\ rows' = IF Full(rows, p[1]) THEN rows ELSE [rows EXCEPT ![p] = Mine(fact, 0, NoChat)]
  /\ UNCHANGED <<chat, withheld, forgotten>>

Edit ==
  /\ Revise /\ worker' = Stale(worker)
  /\ \E p \in Slot, fact \in Fact :
       /\ Living(p) /\ rows' = [rows EXCEPT ![p] = Mine(fact, @.at, @.from)]
  /\ UNCHANGED <<chat, withheld, forgotten>>

Forget ==
  /\ Revise /\ worker' = Stale(worker)
  /\ \E p \in Slot :
       /\ Living(p) /\ rows' = [rows EXCEPT ![p].deleted = TRUE]
       /\ forgotten' = forgotten \cup {[slot |-> p, fact |-> rows[p].fact]}
  /\ UNCHANGED <<chat, withheld>>

\* Rows the clean-up after a deletion keeps: all tombstones, and what the user wrote.
KeptFaulty(p, gone) == rows[p] # NoRow => rows[p].origin = "user" \/ rows[p].from # gone
Kept(p, gone) == rows[p] # NoRow => rows[p].deleted \/ rows[p].origin = "user" \/ rows[p].from # gone

DeleteSession(s) ==
  /\ Act /\ chat[s].live /\ active # s
  /\ chat' = [chat EXCEPT ![s] = [NewChat EXCEPT !.live = FALSE]]
  /\ rows' = [p \in Slot |-> IF Kept(p, s) THEN rows[p] ELSE NoRow]
  /\ worker' = Stale(worker)
  /\ UNCHANGED <<policy, leaving, request, attempts, active, recalled, withheld,
                 forgotten, clock>>

\* rename, pin and the like: only updated_at is new
Rename(s) ==
  /\ Act /\ chat[s].live /\ worker' = Touched(worker, s)
  /\ UNCHANGED <<policy, chat, rows, leaving, request, attempts, active, recalled,
                 withheld, forgotten, clock>>

\* The service ends and is started again; an open attempt is closed by the next start.
Reopen ==
  /\ Act
  /\ attempts' = [attempts EXCEPT !.running = 0]
  /\ worker' = IF Making(policy) THEN Asleep ELSE Off
  /\ leaving' = NotLeaving /\ request' = NoRequest /\ active' = NoChat
  /\ UNCHANGED <<policy, chat, rows, recalled, withheld, forgotten, clock>>

MemoriesNext ==
  \/ \E s \in Chat : StartRun(s) \/ Look(s) \/ SaveSession(s) \/ DeleteSession(s) \/ Rename(s)
  \/ Answer \/ EndRun \/ Tick \/ EndScan \/ NoCall \/ GiveUp \/ Call \/ Save \/ Fail \/ Unwind
  \/ SaveSettings \/ SaveAfterStop \/ Create \/ Edit \/ Forget \/ Reopen

MemoriesSpec == MemoriesInit /\ [][MemoriesNext]_memoryVars

-----------------------------------------------------------------------------
(* Properties *)

Generates(p) == rows'[p] # rows[p] /\ rows'[p] # NoRow /\ rows'[p].origin = "model" /\ ~rows'[p].deleted

\* What the user forgot does not come back by generation in its scope, neither
\* under its topic nor in its words, whatever is extracted again and from
\* whichever session (put and forget, memory_store.py:152-195; reconcile, :222).
ForgottenStays ==
  [][\A p \in Slot, f \in forgotten :
       Generates(p) /\ p[1] = f.slot[1] => p # f.slot /\ rows'[p].fact # f.fact]_memoryVars

\* A message that was said while generation was off for its session, or that was
\* there when it was switched off, is never sent to the model, and nothing is
\* sent or saved while generation is off, a run is active or the session is gone
\* (source and extract, memories.py:131-250; save_settings, memory_store.py:115).
OnlyWithConsent ==
  [][/\ attempts'.calls > attempts.calls =>
          /\ MayMake(worker.on) /\ chat[worker.on].live /\ active = NoChat
          /\ \A w \in ToSet(worker.batch) : w.at \notin withheld
     /\ \A p \in Slot : Generates(p) =>
          /\ MayMake(rows'[p].from) /\ chat[rows'[p].from].live /\ active = NoChat
          /\ rows'[p].at \notin withheld]_memoryVars

=============================================================================
