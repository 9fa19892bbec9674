---------------------------- MODULE Conversation ----------------------------
(***************************************************************************)
(* The history of a session and its compaction (ContextHistory,            *)
(* LocalContext.prepare, Runtime.finish and compact_idle).                 *)
(*                                                                         *)
(* The history is only appended to.  A completed checkpoint replaces its   *)
(* beginning in what the model is sent: the words of the user are kept, the*)
(* last two groups of items are kept, the rest becomes a summary.  A run   *)
(* compacts between two awaits before a model request; the user may ask for*)
(* a compaction at any time.                                               *)
(***************************************************************************)
EXTENDS Naturals, Sequences, SequencesExt

CONSTANTS
  MaxItem,     \* bound of the items of the history
  MaxCalls,    \* bound of the calls of one response
  MaxSay,      \* bound of the user's messages, answers and steers
  MaxRequest   \* bound of the compactions the user asks for

ASSUME ConversationBounds ==
  /\ MaxItem \in Nat /\ MaxCalls \in Nat \ {0} /\ MaxSay \in Nat /\ MaxRequest \in Nat

VARIABLES
  log,      \* context_items of the session
  point,    \* the last completed checkpoint: [through, kept]
  order,    \* state of the checkpoint that is not settled
  draft,    \* the candidate a run has computed and not saved yet
  phase,    \* where the session's run is
  outdated, \* its generation has changed since the boundary
  steers,   \* steers received and not yet in the history
  said, asked

talkVars == <<log, point, order, draft, phase, outdated, steers, said, asked>>

Phases == {"none", "boundary", "compacting", "summary", "model", "calls", "ending", "over"}

\* Items: user words; a reply; a response with nr calls; the result nr of the
\* calls of item of.
Words == [role |-> "user", of |-> 0, nr |-> 0]
Reply == [role |-> "reply", of |-> 0, nr |-> 0]
Calls(n) == [role |-> "calls", of |-> 0, nr |-> n]
Result(i, k) == [role |-> "tool", of |-> i, nr |-> k]
NoPoint == [through |-> 0, kept |-> <<>>]

TalkInit ==
  /\ log = <<>> /\ point = NoPoint /\ order = "none" /\ draft = NoPoint
  /\ phase = "none" /\ outdated = FALSE /\ steers = 0 /\ said = 0 /\ asked = 0

\* Every append has a key of its own, so that a repeated one changes nothing.
Filed(x) == x.role = "tool" /\ Contains(log, x)
AppendAll(xs) == log \o FlattenSeq([i \in DOMAIN xs |-> IF Filed(xs[i]) THEN <<>> ELSE <<xs[i]>>])

\* The calls without a result, in the order of the model.
Unanswered ==
  LET open(i, k) == IF Filed(Result(i, k)) THEN <<>> ELSE <<Result(i, k)>>
      of(i) == IF log[i].role = "calls" THEN FlattenSeq([k \in 1..log[i].nr |-> open(i, k)]) ELSE <<>> IN
  FlattenSeq([i \in DOMAIN log |-> of(i)])

\* The bound MaxItem leaves room for what has to be appended in any case.
Room(n) == Len(log) + Len(Unanswered) + steers + n <= MaxItem

\* commit_messages: the steers that are not in the history yet.
Steered == [i \in 1..steers |-> Words]

-----------------------------------------------------------------------------
(* ContextHistory.compact. *)

\* An item belongs to the group of the calls before it if it is a result.
GroupOf ==
  LET start[i \in DOMAIN log] ==
        IF /\ i > 1 /\ log[i].role = "tool" /\ log[start[i - 1]].role = "calls"
        THEN start[i - 1] ELSE i IN
  start

\* The items before the last two groups, which begin behind them.
PrefixEnd ==
  LET starts == {i \in DOMAIN log : GroupOf[i] = i} IN
  Max({0} \cup {n \in DOMAIN log : \E i, j \in starts : n < i /\ i < j})

\* Faulty variant: the summary speaks for the user as well.
RetainedFaulty(n) == <<>>

Retained(n) == FlattenSeq([i \in 1..n |-> IF log[i].role = "user" THEN <<i>> ELSE <<>>])

\* "unfinished tool calls": a group before the last two lacks a result.
Torn ==
  \E g \in 1..PrefixEnd : log[g].role = "calls" /\ \E k \in 1..log[g].nr :
    ~\E i \in 1..PrefixEnd : GroupOf[i] = g /\ log[i] = Result(g, k)

Compactable == PrefixEnd > 0 /\ ~Torn

\* 0 stands for the summary, other numbers for items of the history.
Candidate ==
  [through |-> Len(log),
   kept |-> Retained(PrefixEnd) \o <<0>> \o [i \in 1..(Len(log) - PrefixEnd) |-> PrefixEnd + i]]

\* ContextHistory.messages.
Messages == point.kept \o [i \in 1..(Len(log) - point.through) |-> point.through + i]

-----------------------------------------------------------------------------
(* A run of the session. *)

\* Runtime.create puts the user's words into the history; the wish of a user
\* for a compaction is served on the way.
StartRun ==
  /\ phase \in {"none", "over"} /\ said < MaxSay /\ Room(1)
  /\ log' = Append(log, Words) /\ said' = said + 1
  /\ phase' = "boundary" /\ outdated' = FALSE
  /\ UNCHANGED <<point, order, draft, steers, asked>>

\* RunControls.request for a steer.
Steer ==
  /\ phase \notin {"none", "over"} /\ said < MaxSay /\ Room(1)
  /\ steers' = steers + 1 /\ said' = said + 1 /\ outdated' = TRUE
  /\ UNCHANGED <<log, point, order, draft, phase, asked>>

\* The boundary before a model request, and the beginning of prepare.
ToModel ==
  /\ phase = "boundary"
  /\ log' = AppendAll(Steered) /\ steers' = 0 /\ outdated' = FALSE
  /\ \/ order = "none" /\ phase' = "model" /\ UNCHANGED order
     \/ order' = "compacting" /\ phase' = "compacting"
  /\ UNCHANGED <<point, draft, said, asked>>

\* sleep(0) is over: the run was overtaken, or the candidate is computed.
Compacts ==
  /\ phase = "compacting"
  /\ \/ outdated /\ order' = "none" /\ phase' = "boundary" /\ UNCHANGED draft
     \/ /\ ~outdated /\ Compactable
        /\ draft' = Candidate /\ phase' = "summary" /\ UNCHANGED order
     \/ /\ ~outdated /\ ~Compactable
        /\ order' = "none" /\ phase' = "model" /\ UNCHANGED draft
  /\ UNCHANGED <<log, point, outdated, steers, said, asked>>

\* The summary and the profiles have been fetched; the candidate is saved if
\* nothing was appended, or given up.
Summarized ==
  /\ phase = "summary" /\ order' = "none" /\ draft' = NoPoint
  /\ \/ outdated /\ phase' = "boundary" /\ UNCHANGED point
     \/ ~outdated /\ phase' = "model" /\ point' = IF draft.through = Len(log) THEN draft ELSE point
     \/ ~outdated /\ phase' = "model" /\ UNCHANGED point
  /\ UNCHANGED <<log, outdated, steers, said, asked>>

\* A response, recorded unless a control has cut the request.
Respond ==
  /\ phase = "model"
  /\ \/ outdated /\ phase' = "boundary" /\ UNCHANGED log
     \/ \E n \in 1..MaxCalls : Room(n + 1) /\ log' = Append(log, Calls(n)) /\ phase' = "calls"
     \/ Room(1) /\ log' = Append(log, Reply) /\ phase' = "ending"
  /\ UNCHANGED <<point, order, draft, outdated, steers, said, asked>>

\* The final answer is outdated, or the verification sends it back.
SentBack ==
  /\ phase = "ending" /\ phase' = "boundary"
  /\ \/ outdated /\ UNCHANGED log
     \/ Room(1) /\ log' = Append(log, Words)
  /\ UNCHANGED <<point, order, draft, outdated, steers, said, asked>>

\* PlanningInteraction.answer, while the call that asked waits for it.
Answered ==
  /\ phase = "calls" /\ Unanswered # <<>> /\ said < MaxSay /\ Room(1)
  /\ log[Len(log)].role # "user"
  /\ log' = Append(log, Words) /\ said' = said + 1 /\ outdated' = TRUE
  /\ UNCHANGED <<point, order, draft, phase, steers, asked>>

\* The results are recorded in the order of the calls.
ToolDone ==
  /\ phase = "calls"
  /\ IF Unanswered = <<>> THEN phase' = "boundary" /\ UNCHANGED log
     ELSE log' = Append(log, Unanswered[1]) /\ UNCHANGED phase
  /\ UNCHANGED <<point, order, draft, outdated, steers, said, asked>>

\* What finish does with a compaction that is waiting.
Settle(good) ==
  /\ order' = "none"
  /\ point' = IF order # "none" /\ good /\ Compactable' THEN Candidate' ELSE point

\* Runtime.finish: missing results, steers, then a compaction that waits.
FinishTalk ==
  /\ phase \notin {"none", "over"}
  /\ log' = AppendAll(Unanswered \o Steered) /\ steers' = 0
  /\ \/ phase = "ending" /\ ~outdated /\ Settle(TRUE)
     \/ Settle(FALSE)
  /\ phase' = "over" /\ draft' = NoPoint
  /\ UNCHANGED <<outdated, said, asked>>

LeftOpen == Unanswered

\* Store._recover after the executor died.
Revive ==
  /\ phase \notin {"none", "over"}
  /\ log' = AppendAll(LeftOpen \o Steered) /\ steers' = 0
  /\ phase' = "over" /\ draft' = NoPoint /\ order' = "none"
  /\ UNCHANGED <<point, outdated, said, asked>>

-----------------------------------------------------------------------------
(* The user asks for a compaction. *)

\* Without a run it is done at once, otherwise it waits for a boundary.
AskCompaction ==
  /\ asked < MaxRequest /\ asked' = asked + 1 /\ order = "none"
  /\ IF phase \in {"none", "over"}
     THEN order' = order /\ point' = IF Compactable THEN Candidate ELSE point
     ELSE order' = "pending" /\ UNCHANGED point
  /\ UNCHANGED <<log, draft, phase, outdated, steers, said>>

TalkNext ==
  \/ StartRun \/ Steer \/ ToModel \/ Compacts \/ Summarized \/ Respond
  \/ SentBack \/ Answered \/ ToolDone \/ FinishTalk \/ Revive \/ AskCompaction

\* A run goes on by itself and ends one day; nobody has to say anything.
TalkSpec ==
  /\ TalkInit /\ [][TalkNext]_talkVars
  /\ WF_talkVars(ToModel \/ Compacts \/ Summarized \/ Respond \/ ToolDone)
  /\ WF_talkVars(FinishTalk)

-----------------------------------------------------------------------------
(* Properties. *)

IsWord(i) == i > 0 /\ log[i].role = "user"

\* Whatever is compacted, interrupted or restarted, the model is sent all the
\* words of the user, once each and in their order.
WordsSurvive ==
  LET sent == Messages IN
  /\ \A i \in DOMAIN log : IsWord(i) => Contains(sent, i)
  /\ \A a, b \in DOMAIN sent : a < b /\ IsWord(sent[a]) /\ IsWord(sent[b]) => sent[a] < sent[b]

\* A compaction at the boundary of a request does not meet unfinished calls
\* (context_history.py:188, docs/context-design.md).
SafeBoundaryCompacts == phase \in {"compacting", "model"} => ~Torn
=============================================================================
