----------------------------- MODULE HostStream -----------------------------
(***************************************************************************)
(* One command in an execution host of its own: the program, the threads of*)
(* the host (apps/exec-host/src/main.rs: the loop over the requests, a     *)
(* reader for each output stream, the waiter), the JSON lines between host *)
(* and client, the client's reading pump and queue (exec_host_client.py),  *)
(* and the coroutine that consumes the events (executor.run_command,       *)
(* ExecutionSessions._monitor).                                            *)
(*                                                                         *)
(* The program may leave descendants that keep the pipes open, stop reading*)
(* its input, or be killed; the host may crash; requests may time out; the *)
(* client's queue is bounded and may overflow.                             *)
(***************************************************************************)
EXTENDS Naturals, Sequences, SequencesExt, Functions

CONSTANTS
  Stream,    \* the output streams
  MaxChar,   \* bound of the characters the command prints
  MaxQueue   \* size of the client's queue of events

ASSUME StreamBounds == MaxChar \in Nat /\ MaxQueue \in Nat \ {0}

VARIABLES
  app,       \* the program
  kin,       \* a descendant of it holds the pipes
  written,   \* history: the characters written to each stream
  pipe,      \* bytes in the pipe of each stream
  carry,     \* bytes a reader keeps because their character is not complete
  reader,    \* the reading threads
  waiter,    \* the waiting thread
  expired,   \* timed_out and cancel_requested
  table,     \* the execution is in the host's table
  main,      \* the loop over the requests
  number,    \* notification_sequences of the execution
  inbox,     \* requests on their way to the host
  wire,      \* lines on their way to the client
  queue,     \* the client's queue of events
  broken,    \* the client's _failure
  waitsFor,  \* the request whose answer the consumer waits for
  user,      \* where the consumer is
  expected,  \* the sequence the consumer expects
  heard,     \* characters the consumer has got
  result     \* what the consumer reports

hostVars == <<waiter, expired, table, main, number>>
progVars == <<app, kin, written, pipe>>
clientVars == <<queue, broken>>
userVars == <<waitsFor, user, expected, heard, result>>
streamVars == <<progVars, carry, reader, hostVars, inbox, wire, clientVars, userVars>>

\* A narrow character has one byte, a wide one has two.
Char == {"n", "w"}
BytesOf(c) == IF c = "n" THEN <<"n">> ELSE <<"w1", "w2">>
Lossy == "?"

StreamInit ==
  /\ app = "none" /\ kin = FALSE
  /\ written = [s \in Stream |-> <<>>] /\ pipe = written /\ carry = written
  /\ reader = [s \in Stream |-> "none"]
  /\ waiter = "none" /\ expired = FALSE /\ table = FALSE
  /\ main = "ready" /\ number = 0
  /\ inbox = <<"initialize">> /\ wire = <<>>
  /\ queue = <<>> /\ broken = FALSE
  /\ waitsFor = "initialize" /\ user = "dialing"
  /\ expected = 0 /\ heard = written /\ result = "none"

Up == main # "down"
\* Somebody listens; what happens once the consumer leaves is seen by nobody.
Heeded == user \notin {"leaving", "gone"}
\* Nobody can write to the pipes any more.
Hollow == app # "running" /\ ~kin

-----------------------------------------------------------------------------
(* The program. *)

\* The characters of all streams.
Printed == FoldFunction(LAMBDA text, n : n + Len(text), 0, written)

Prints(s, c) ==
  /\ ~Hollow /\ Heeded /\ Printed < MaxChar
  /\ written' = [written EXCEPT ![s] = Append(@, c)]
  /\ pipe' = [pipe EXCEPT ![s] = @ \o BytesOf(c)]
  /\ UNCHANGED <<app, kin, carry, reader, hostVars, inbox, wire, clientVars, userVars>>

Forks ==
  /\ app = "running" /\ ~kin /\ Heeded /\ kin' = TRUE
  /\ UNCHANGED <<app, written, pipe, carry, reader, hostVars, inbox, wire, clientVars, userVars>>

Exits ==
  /\ Heeded
  /\ \/ app = "running" /\ app' = "exited" /\ UNCHANGED kin
     \/ kin /\ kin' = FALSE /\ UNCHANGED app
  /\ UNCHANGED <<written, pipe, carry, reader, hostVars, inbox, wire, clientVars, userVars>>

\* taskkill_tree and kill.
Killed == app' = (IF app = "running" THEN "exited" ELSE app) /\ kin' = FALSE

-----------------------------------------------------------------------------
(* The host's threads. *)

Event(kind, s, text, nr) == [kind |-> kind, stream |-> s, text |-> text, nr |-> nr]
Reply(method, good) == [kind |-> "reply", stream |-> method, text |-> <<good>>, nr |-> 0]

\* notify: the number is taken and the line sent under one lock; a final event
\* forgets the number.
Notify(events) ==
  /\ wire' = wire \o [i \in DOMAIN events |-> [events[i] EXCEPT !.nr = number + i - 1]]
  /\ number' = IF Last(events).kind \in {"exited", "failed"} THEN 0 ELSE number + Len(events)
Notice(kind) == Event(kind, "", <<>>, 0)
Delta(s, text) == Event("delta", s, text, 0)

\* Faulty variant: what was read is sent as it is.
ReadyFaulty(bytes) == Len(bytes)

\* The bytes of complete characters.
Ready(bytes) == IF bytes # <<>> /\ Last(bytes) = "w1" THEN Len(bytes) - 1 ELSE Len(bytes)

\* from_utf8_lossy.
Decoded(bytes) ==
  LET char(i) == IF bytes[i] = "n" THEN <<"n">>
                 ELSE IF bytes[i] = "w2" THEN (IF i > 1 /\ bytes[i - 1] = "w1" THEN <<"w">> ELSE <<Lossy>>)
                 ELSE IF i < Len(bytes) /\ bytes[i + 1] = "w2" THEN <<>> ELSE <<Lossy>> IN
  FlattenSeq([i \in DOMAIN bytes |-> char(i)])

\* A reader takes some bytes and sends the characters that are complete.
Reads(s) ==
  /\ Up /\ Heeded /\ reader[s] = "reading" /\ pipe[s] # <<>>
  /\ \E n \in 1..Len(pipe[s]) :
       LET pending == carry[s] \o SubSeq(pipe[s], 1, n)
           ready == Ready(pending) IN
       /\ pipe' = [pipe EXCEPT ![s] = SubSeq(@, n + 1, Len(@))]
       /\ carry' = [carry EXCEPT ![s] = SubSeq(pending, ready + 1, Len(pending))]
       /\ IF ready > 0 THEN Notify(<<Delta(s, Decoded(SubSeq(pending, 1, ready)))>>)
          ELSE UNCHANGED <<wire, number>>
  /\ UNCHANGED <<app, kin, written, reader, waiter, expired, table, main, inbox, clientVars, userVars>>

ReadsEnd(s) ==
  /\ Up /\ Heeded /\ reader[s] = "reading" /\ pipe[s] = <<>> /\ Hollow
  /\ reader' = [reader EXCEPT ![s] = "done"] /\ carry' = [carry EXCEPT ![s] = <<>>]
  /\ IF carry[s] # <<>> THEN Notify(<<Delta(s, Decoded(carry[s]))>>) ELSE UNCHANGED <<wire, number>>
  /\ UNCHANGED <<progVars, waiter, expired, table, main, inbox, clientVars, userVars>>

\* The waiter sees the program gone, or lets the deadline kill it.
SeesExit ==
  /\ Up /\ Heeded /\ waiter = "polling" /\ app = "exited" /\ waiter' = "draining"
  /\ UNCHANGED <<progVars, carry, reader, expired, table, main, number, inbox, wire, clientVars, userVars>>

Deadline ==
  /\ Up /\ Heeded /\ waiter = "polling" /\ app = "running" /\ ~expired
  /\ expired' = TRUE /\ Killed
  /\ UNCHANGED <<written, pipe, carry, reader, waiter, table, main, number, inbox, wire, clientVars, userVars>>

Drained == \A s \in Stream : reader[s] = "done"

\* The end is reported when the output is; after a while its loss is.
Reports ==
  /\ Up /\ Heeded /\ waiter = "draining" /\ waiter' = "done" /\ table' = FALSE
  /\ \/ Drained /\ Notify((IF expired THEN <<Notice("cancelled")>> ELSE <<>>) \o <<Notice("exited")>>)
     \/ ~Drained /\ Notify(<<Notice("failed")>>)
  /\ UNCHANGED <<progVars, carry, reader, expired, main, inbox, clientVars, userVars>>

\* poll_exit fails.
WaitFails ==
  /\ Up /\ Heeded /\ waiter = "polling" /\ waiter' = "done" /\ table' = FALSE
  /\ Notify(<<Notice("failed")>>)
  /\ UNCHANGED <<progVars, carry, reader, expired, main, inbox, clientVars, userVars>>

-----------------------------------------------------------------------------
(* The host's loop over the requests. *)

Takes(method) ==
  /\ main = "ready" /\ inbox # <<>> /\ Head(inbox) = method /\ inbox' = Tail(inbox)
Replies(method, good) == wire' = Append(wire, Reply(method, good))

TakesInitialize ==
  /\ Takes("initialize") /\ \E good \in BOOLEAN : Replies("initialize", good)
  /\ UNCHANGED <<progVars, carry, reader, hostVars, clientVars, userVars>>

\* A refused or failing start has started nothing.
TakesStart ==
  /\ Takes("start")
  /\ \/ /\ Replies("start", FALSE)
        /\ UNCHANGED <<app, reader, waiter, table, number>>
     \/ /\ app' = "running" /\ reader' = [s \in Stream |-> "reading"] /\ waiter' = "polling"
        /\ table' = TRUE /\ number' = 1
        /\ wire' = wire \o <<Notice("started"), Reply("start", TRUE)>>
  /\ UNCHANGED <<kin, written, pipe, carry, expired, main, clientVars, userVars>>

\* The program may have stopped reading; then write_all does not return.
TakesWrite ==
  /\ Takes("write")
  /\ \/ Replies("write", table) /\ UNCHANGED main
     \/ table /\ app = "running" /\ main' = "writing" /\ UNCHANGED wire
  /\ UNCHANGED <<progVars, carry, reader, waiter, expired, table, number, clientVars, userVars>>

\* The write ends when the program reads on, or when nobody is left to read.
WriteEnds ==
  /\ main = "writing" /\ main' = "ready"
  /\ \/ app = "running" /\ Replies("write", TRUE)
     \/ Hollow /\ Replies("write", FALSE)
  /\ UNCHANGED <<progVars, carry, reader, waiter, expired, table, number, inbox, clientVars, userVars>>

\* The host ends, by a request or otherwise; its job takes every process along.
HostGone ==
  /\ main' = "down" /\ Killed /\ table' = FALSE /\ number' = 0 /\ waiter' = "none" /\ inbox' = <<>>
  /\ pipe' = [s \in Stream |-> <<>>] /\ carry' = pipe' /\ reader' = [s \in Stream |-> "none"]
  /\ UNCHANGED <<written, expired>>

TakesShutdown ==
  /\ main = "ready" /\ inbox # <<>> /\ Head(inbox) = "shutdown"
  /\ Replies("shutdown", TRUE) /\ HostGone
  /\ UNCHANGED <<clientVars, userVars>>

HostDies ==
  /\ Up /\ Heeded /\ HostGone
  /\ UNCHANGED <<wire, clientVars, userVars>>

-----------------------------------------------------------------------------
(* The client's pump. *)

\* The reply to a request that nobody waits for any more is dropped.
Resolves(m) ==
  /\ waitsFor' = IF m.stream = waitsFor THEN (IF m.text[1] THEN "yes" ELSE "no") ELSE waitsFor
  /\ UNCHANGED clientVars

\* The channel is given up: everybody who waits for an answer is told.
Breaks ==
  /\ broken' = TRUE /\ UNCHANGED queue
  /\ waitsFor' = IF waitsFor \in {"initialize", "start", "write"} THEN "lost" ELSE waitsFor

\* Faulty variant: an event that does not fit is forgotten, numbers and all.
EnqueueFaulty(m) ==
  /\ queue' = IF Len(queue) < MaxQueue THEN Append(queue, m) ELSE Append(Front(queue), m)
  /\ UNCHANGED <<broken, waitsFor>>

\* No event is dropped: a full queue breaks the channel.
Enqueue(m) ==
  IF Len(queue) < MaxQueue
  THEN queue' = Append(queue, m) /\ UNCHANGED <<broken, waitsFor>>
  ELSE Breaks

Pumps ==
  /\ wire # <<>> /\ ~broken /\ Heeded /\ wire' = Tail(wire)
  /\ LET m == Head(wire) IN IF m.kind = "reply" THEN Resolves(m) ELSE Enqueue(m)
  /\ UNCHANGED <<progVars, carry, reader, hostVars, inbox, user, expected, heard, result>>

EndOfFile ==
  /\ ~Up /\ wire = <<>> /\ ~broken /\ Heeded /\ Breaks
  /\ UNCHANGED <<progVars, carry, reader, hostVars, inbox, wire, user, expected, heard, result>>

-----------------------------------------------------------------------------
(* The consumer. *)

\* close, up to the answer to its request.
HangUp(how) ==
  /\ user' = "leaving" /\ result' = how
  /\ IF broken THEN waitsFor' = "lost" /\ UNCHANGED inbox
     ELSE waitsFor' = "shutdown" /\ inbox' = Append(inbox, "shutdown")

\* Only an answer of the host says that nothing was started.
StartFailed(what) == IF user = "dialing" \/ what = "no" THEN "refused" ELSE "unknown"

Connects ==
  /\ user \in {"dialing", "starting"}
  /\ \/ /\ waitsFor = "yes" /\ ~broken /\ UNCHANGED result
        /\ IF user = "dialing"
           THEN user' = "starting" /\ waitsFor' = "start" /\ inbox' = Append(inbox, "start")
           ELSE user' = "listening" /\ waitsFor' = "none" /\ UNCHANGED inbox
     \/ waitsFor \in {"no", "lost"} /\ HangUp(StartFailed(waitsFor))
     \/ waitsFor \in {"initialize", "start"} /\ HangUp(StartFailed("late"))
     \/ waitsFor = "yes" /\ HangUp(IF user = "dialing" THEN "refused" ELSE "unknown")
  /\ UNCHANGED <<progVars, carry, reader, hostVars, wire, clientVars, expected, heard>>

\* The events in their order; the last one tells how the command ended.
Consumes ==
  /\ user = "listening" /\ ~broken /\ queue # <<>> /\ queue' = Tail(queue)
  /\ LET m == Head(queue) IN
     /\ heard' = IF m.kind = "delta" /\ m.nr = expected THEN [heard EXCEPT ![m.stream] = @ \o m.text] ELSE heard
     /\ expected' = expected + 1
     /\ CASE m.nr # expected \/ m.kind = "failed" -> HangUp("unknown")
          [] m.nr = expected /\ m.kind = "exited" ->
               HangUp(IF expired THEN "timed_out" ELSE "exited")
          [] OTHER -> UNCHANGED <<user, result, waitsFor, inbox>>
  /\ UNCHANGED <<progVars, carry, reader, hostVars, wire, broken>>

\* The channel is gone, the run is cancelled or has lost its authorization.
GivesUp ==
  /\ user = "listening"
  /\ \/ broken /\ HangUp("unknown")
     \/ ~broken /\ \E how \in {"stopped", "unknown"} : HangUp(how)
  /\ UNCHANGED <<progVars, carry, reader, hostVars, wire, clientVars, expected, heard>>

\* write_stdin, which may time out like any request; one write, after the start.
AsksWrite ==
  /\ user = "listening" /\ ~broken /\ waitsFor = "none" /\ waitsFor' = "write"
  /\ inbox' = Append(inbox, "write")
  /\ UNCHANGED <<progVars, carry, reader, hostVars, wire, clientVars, user, expected, heard, result>>

\* Faulty variant: the answer of the host is waited for as long as it takes.
ClosesFaulty ==
  /\ user = "leaving" /\ (broken \/ ~Up) /\ user' = "gone" /\ HostGone /\ wire' = <<>>
  /\ UNCHANGED <<clientVars, waitsFor, expected, heard, result>>

\* The host has answered, or has not in time; in any case it is killed.
Closes ==
  /\ user = "leaving" /\ user' = "gone" /\ HostGone /\ wire' = <<>>
  /\ UNCHANGED <<clientVars, waitsFor, expected, heard, result>>

PumpStep ==
  \/ \E s \in Stream : Reads(s) \/ ReadsEnd(s)
  \/ SeesExit \/ Deadline \/ Reports \/ WaitFails
  \/ TakesInitialize \/ TakesStart \/ TakesWrite \/ WriteEnds \/ TakesShutdown \/ HostDies

StreamNext ==
  \/ \E s \in Stream, c \in Char : Prints(s, c)
  \/ Forks \/ Exits \/ PumpStep \/ Pumps \/ EndOfFile
  \/ Connects \/ Consumes \/ GivesUp \/ AsksWrite \/ Closes

\* Threads and coroutines go on; the program, the user and the faults need not.
StreamFairness ==
  /\ \A s \in Stream : WF_streamVars(Reads(s)) /\ WF_streamVars(ReadsEnd(s))
  /\ WF_streamVars(SeesExit) /\ WF_streamVars(Reports) /\ WF_streamVars(TakesInitialize)
  /\ WF_streamVars(TakesStart) /\ WF_streamVars(Pumps) /\ WF_streamVars(EndOfFile)
  /\ WF_streamVars(Connects) /\ WF_streamVars(Consumes) /\ WF_streamVars(Closes) /\ WF_streamVars(TakesShutdown)
  /\ WF_streamVars(user = "listening" /\ broken /\ GivesUp)

StreamSpec == StreamInit /\ [][StreamNext]_streamVars /\ StreamFairness

-----------------------------------------------------------------------------
(* Properties. *)

\* However the bytes are cut into chunks, events and lines, and whatever fails,
\* the consumer gets the characters of each stream in order, each once and
\* intact, and is told the end of the command only after all of them.
CommandPipe == INSTANCE OutputPipe WITH
  PipeNames <- Stream, Letters <- Char, sent <- written, received <- heard,
  closed <- result \in {"exited", "timed_out"}
HostIsPipe == CommandPipe!PipeSpec

\* When the program has ended, or the channel breaks, the consumer learns it:
\* no descendant on the pipes, full queue, blocked write or crash hides it.
EndIsReported == app = "exited" ~> result # "none"

\* Who gives a command up leaves no process behind, even if the host is stuck in
\* a write that the program does not read.
NobodyIsLeft == user = "leaving" ~> app # "running" /\ ~kin /\ user = "gone"
=============================================================================
