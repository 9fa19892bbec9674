---------------------------- MODULE ModelStream ----------------------------
(***************************************************************************)
(* One model turn of a run: the provider's stream and its four protocols   *)
(* (llm/adapters.py, llm/responses.py, llm/sse.py), the gateway with its   *)
(* retries (llm/gateway.py), the direct route (direct_models.py) and the   *)
(* attempt that publishes the text while it arrives and checks the answer  *)
(* at the end (core_adapter.py, secret_filter.py).                         *)
(*                                                                         *)
(* The provider may refuse, stop at its length limit, send an error or     *)
(* break off anywhere; a timeout or a control of the run may strike at any *)
(* moment.  Texts are sequences of letters, a call's arguments are two     *)
(* fragments, and the known secrets are one sequence of letters.           *)
(***************************************************************************)
EXTENDS Naturals, Sequences, SequencesExt

CONSTANTS
  Protocol,  \* subset of {"chat", "ollama", "claude", "responses"}
  Letter,    \* letters of a text
  Secret,    \* a known secret
  MinPrefix, \* a shorter beginning of a secret is no secret
  MaxText,   \* bound of the letters of an answer
  MaxTry,    \* RetryPolicy.max_attempts
  MaxTurn    \* bound of the generations of the run

ASSUME StreamingBounds ==
  /\ Protocol \subseteq {"chat", "ollama", "claude", "responses"}
  /\ Secret \in Seq(Letter) /\ Len(Secret) > 1 /\ MinPrefix \in Nat \ {0}
  /\ MaxText \in Nat /\ MaxTry \in Nat \ {0} /\ MaxTurn \in Nat

VARIABLES
  protocol,  \* the protocol of the selected model
  streams,   \* the profile supports streaming
  turn,      \* generation of the run
  mine,      \* generation of the attempt
  step,      \* where the attempt is
  attempts,     \* attempts of the gateway
  published, \* of the gateway: a delta has been passed on
  answer,    \* history: what the provider answers
  frames,    \* frames on their way
  seen,      \* what the adapter has put together
  partial,   \* raw text received
  safe,      \* filtered text received
  held,      \* letters the filters keep back
  pending,   \* deltas that wait for the publisher
  public,    \* history: what was published, by message
  record     \* the confirmed response

modelVars == <<protocol, streams, turn, mine, step, attempts, published, answer, frames, seen, partial, safe, held, pending, public, record>>

-----------------------------------------------------------------------------
(* The secret filter. *)

Mark == "*"

\* The secret stands at i in the text.
StandsAt(text, i) ==
  i + Len(Secret) <= Len(text) + 1 /\ \A k \in 1..Len(Secret) : text[i + k - 1] = Secret[k]

\* Where str.replace replaces: from the left, without overlaps.
Replaced(text) ==
  CHOOSE T \in SUBSET DOMAIN text :
    \A i \in DOMAIN text : i \in T <=> StandsAt(text, i) /\ ~\E j \in T : j < i /\ i < j + Len(Secret)

\* redact_text for a known value.
Redact(text) ==
  LET T == Replaced(text) IN
  FlattenSeq([i \in DOMAIN text |->
    IF i \in T THEN <<Mark>> ELSE IF \E j \in T : j < i /\ i < j + Len(Secret) THEN <<>> ELSE <<text[i]>>])

\* The text ends with the first n letters of the secret.
EndsIn(text, n) == n <= Len(text) /\ \A k \in 1..n : text[Len(text) - n + k] = Secret[k]

\* _pending: the longest end of the text that may become a secret.
Begun(text) == Max({n \in 0..(Len(Secret) - 1) : EndsIn(text, n)})

\* What is passed on ends before that, and not within the last secret.
Cutoff(text) ==
  LET end == Len(text) - Begun(text)
      last == Max({0} \cup {i \in 1..end : StandsAt(text, i)}) IN
  IF last > 0 /\ end < last + Len(Secret) - 1 THEN last - 1 ELSE end

\* feed: what goes out, and what stays.
Fed(buffer, text) ==
  LET all == buffer \o text IN
  [out |-> Redact(SubSeq(all, 1, Cutoff(all))), held |-> SubSeq(all, Cutoff(all) + 1, Len(all))]

\* finish: the beginning of a secret is masked unless it is short.
Closing(buffer) ==
  LET n == Max({0} \cup {k \in MinPrefix..(Len(Secret) - 1) : EndsIn(buffer, k)}) IN
  Redact(IF n = 0 THEN buffer ELSE SubSeq(buffer, 1, Len(buffer) - n) \o <<Mark>>)

\* A whole text as it may be shown.
ShownText(text) == Fed(<<>>, text).out \o Closing(Fed(<<>>, text).held)

-----------------------------------------------------------------------------
(* The provider. *)

Texts == UNION {[1..n -> Letter] : n \in 0..MaxText}
Whole == <<"{", "}">>
Answers == [text : Texts, call : BOOLEAN, reason : {"stop", "length"}]

F(kind, at, data) == [kind |-> kind, at |-> at, data |-> data]
\* The text in two pieces, of which one may be empty.
Piece(text, i, j) == IF i > j THEN <<>> ELSE <<F("text", 1, SubSeq(text, i, j))>>
TextFrames(a, k) == Piece(a.text, 1, k) \o Piece(a.text, k + 1, Len(a.text))
\* An answer that reached its limit stops within the arguments.
Arguments(a) == IF a.reason = "stop" THEN Whole ELSE <<"{">>

\* The frames of an answer.
Frames(a, k) ==
  LET calls(at) == [i \in 1..Len(Arguments(a)) |-> F("args", at, <<Arguments(a)[i]>>)] IN
  CASE protocol = "chat" ->
         TextFrames(a, k) \o (IF a.call THEN calls(1) ELSE <<>>) \o <<F("reason", 0, a.reason), F("end", 0, <<>>)>>
    [] protocol = "ollama" ->
         TextFrames(a, k) \o (IF a.call THEN <<F("args", 1, Whole)>> ELSE <<>>) \o <<F("end", 0, a.reason)>>
    [] protocol = "claude" ->
         <<F("begin", 0, <<>>), F("open", 1, "text")>> \o TextFrames(a, k) \o <<F("close", 1, <<>>)>>
         \o (IF a.call THEN <<F("open", 2, "tool")>> \o calls(2) \o <<F("close", 2, <<>>)>> ELSE <<>>)
         \o <<F("reason", 0, a.reason), F("end", 0, <<>>)>>
    [] protocol = "responses" ->
         <<F("begin", 0, <<>>), F("open", 1, "text")>> \o TextFrames(a, k)
         \o (IF a.reason = "stop" THEN <<F("end", 0, a)>> ELSE <<F("error", 0, <<>>)>>)

-----------------------------------------------------------------------------
(* The attempt. *)

Nothing == [text |-> <<>>, args |-> <<>>, begun |-> FALSE, open |-> {}, reason |-> "none", over |-> FALSE]
NoAnswer == [text |-> <<>>, call |-> FALSE, reason |-> "stop"]
NoRecord == [text |-> <<>>, call |-> FALSE, given |-> FALSE]

ModelInit ==
  /\ protocol \in Protocol /\ streams \in BOOLEAN
  /\ turn = 1 /\ mine = 0 /\ step = "idle" /\ attempts = 0 /\ published = FALSE
  /\ answer = NoAnswer /\ frames = <<>> /\ seen = Nothing
  /\ partial = <<>> /\ safe = <<>> /\ held = <<>> /\ pending = <<>> /\ public = <<>> /\ record = NoRecord

Doomed == mine # turn
AtWork == step \in {"asking", "reading", "got"}

\* A new attempt at the next safe boundary.
BeginAttempt ==
  /\ step = "idle" /\ step' = "asking" /\ mine' = turn /\ attempts' = 1 /\ published' = FALSE
  /\ answer' = NoAnswer /\ frames' = <<>> /\ seen' = Nothing
  /\ partial' = <<>> /\ safe' = <<>> /\ held' = <<>> /\ pending' = <<>> /\ public' = <<>> /\ record' = NoRecord
  /\ UNCHANGED <<protocol, streams, turn>>

\* A control of the run; the task of the attempt is cancelled.
OvertakeAttempt ==
  /\ turn < MaxTurn /\ step # "confirmed" /\ turn' = turn + 1
  /\ UNCHANGED <<protocol, streams, mine, step, attempts, published, answer, frames, seen, partial, safe, held, pending, public, record>>

\* flush, of the publisher or of the attempt itself.
Flushed(deltas) == public' = IF Doomed THEN public ELSE public \o deltas
FlushPending ==
  /\ AtWork /\ pending # <<>> /\ Flushed(pending) /\ pending' = <<>>
  /\ UNCHANGED <<protocol, streams, turn, mine, step, attempts, published, answer, frames, seen, partial, safe, held, record>>

\* receive and receive_message: the text goes through the filter.
Received(text) ==
  /\ partial' = partial \o text
  /\ held' = Fed(held, text).held /\ safe' = safe \o Fed(held, text).out /\ pending' = pending \o Fed(held, text).out

\* interrupted: what is held back is closed, and the attempt is over.
Interrupted(how) ==
  /\ step' = how /\ held' = <<>> /\ pending' = <<>> /\ Flushed(pending \o Closing(held))
  /\ UNCHANGED <<protocol, streams, turn, mine, attempts, published, answer, frames, seen, partial, safe, record>>

\* The cancellation arrives; the run goes on with a new attempt.
CutAttempt == AtWork /\ Doomed /\ Interrupted("idle")

\* Nothing is tried again once the reader has seen some of it.
MayRetry(transient) == transient /\ ~published /\ attempts < MaxTry

\* The gateway's handling of an error of the adapter.
GatewayFails(transient) ==
  IF MayRetry(transient)
  THEN /\ step' = "asking" /\ attempts' = attempts + 1 /\ frames' = <<>> /\ seen' = Nothing
       /\ UNCHANGED <<protocol, streams, turn, mine, published, answer, partial, safe, held, pending, public, record>>
  ELSE Interrupted("failed")

Active == AtWork /\ ~Doomed

\* A refused connection, an HTTP status, a timeout of the request; then the one
\* of the run, which is not tried again.
AskFails == Active /\ step = "asking" /\ \E transient \in BOOLEAN : GatewayFails(transient)
RequestTimesOut == Active /\ step = "reading" /\ GatewayFails(TRUE)
RunTimesOut == Active /\ Interrupted("failed")

OpenStream ==
  /\ Active /\ step = "asking" /\ streams /\ step' = "reading" /\ seen' = Nothing
  /\ \E a \in Answers : \E k \in 0..Len(a.text) : answer' = a /\ frames' = Frames(a, k)
  /\ UNCHANGED <<protocol, streams, turn, mine, attempts, published, partial, safe, held, pending, public, record>>

\* The answer in one piece.
Complete ==
  /\ Active /\ step = "asking" /\ ~streams /\ step' = "got"
  /\ \E a \in Answers : /\ answer' = a
                        /\ seen' = [Nothing EXCEPT !.text = a.text, !.args = IF a.call THEN Arguments(a) ELSE <<>>,
                                                   !.reason = a.reason, !.over = TRUE]
  /\ UNCHANGED <<protocol, streams, turn, mine, attempts, published, frames, partial, safe, held, pending, public, record>>

\* The connection ends early, or the provider sends an error instead.
BreakOff ==
  /\ Active /\ step = "reading" /\ frames # <<>>
  /\ \E end \in {<<>>, <<F("error", 0, <<>>)>>} : frames' = end /\ frames # end
  /\ UNCHANGED <<protocol, streams, turn, mine, step, attempts, published, answer, seen, partial, safe, held, pending, public, record>>

-----------------------------------------------------------------------------
(* The adapters. *)

Reading == Active /\ step = "reading" /\ frames # <<>>
NextFrame(kind) == Reading /\ Head(frames).kind = kind /\ frames' = Tail(frames)
Keep == UNCHANGED <<protocol, streams, turn, mine, attempts, answer, public, record>>
Quiet == Keep /\ UNCHANGED <<step, published, partial, safe, held, pending>>

\* Text is passed on as it comes.
TextFrame ==
  /\ NextFrame("text") /\ seen' = [seen EXCEPT !.text = @ \o Head(frames).data]
  /\ Received(Head(frames).data) /\ published' = TRUE
  /\ Keep /\ UNCHANGED step

ArgumentFrame ==
  /\ NextFrame("args") /\ seen' = [seen EXCEPT !.args = @ \o Head(frames).data] /\ Quiet

\* Claude's message and blocks; the items of Responses.
LifeCycleFrame ==
  /\ \/ NextFrame("begin") /\ seen' = [seen EXCEPT !.begun = TRUE]
     \/ NextFrame("open") /\ seen' = [seen EXCEPT !.open = @ \cup {Head(frames).at}]
     \/ NextFrame("close") /\ seen' = [seen EXCEPT !.open = @ \ {Head(frames).at}]
     \/ NextFrame("reason") /\ seen' = [seen EXCEPT !.reason = Head(frames).data]
  /\ Quiet

\* Overloaded providers of Claude may be asked again.
ErrorFrame == Reading /\ Head(frames).kind = "error" /\ \E t \in {protocol = "claude", FALSE} : GatewayFails(t)

\* Faulty variant: the end of the connection is the end of the answer.
TerminalFaulty(s) == TRUE

\* What every protocol demands of a stream before it is an answer.
Terminal(s) == s.over /\ (protocol = "claude" => s.begun /\ s.open = {})

EndFrame ==
  /\ NextFrame("end")
  /\ seen' = LET f == Head(frames) IN
       [seen EXCEPT !.over = TRUE, !.reason = IF protocol = "ollama" THEN f.data
                                              ELSE IF protocol = "responses" THEN f.data.reason ELSE @,
                    !.args = IF protocol = "responses" THEN (IF f.data.call THEN Whole ELSE <<>>) ELSE @]
  /\ Quiet

Parses(args) == args \in {<<>>, Whole}

\* The stream is over: the response is put together, or refused.
StreamEnds ==
  /\ Active /\ step = "reading" /\ frames = <<>>
  /\ IF Terminal(seen) /\ Parses(seen.args)
     THEN step' = "got" /\ UNCHANGED <<frames, seen, published, partial, safe, held, pending>> /\ Keep
     ELSE GatewayFails(FALSE)

-----------------------------------------------------------------------------
(* The checks of the attempt, and its end. *)

\* require_complete.
CompleteAnswer(s) == s.reason # "length"

\* The answer is checked; what was not streamed is published now.
Finishes ==
  /\ Active /\ step = "got"
  /\ IF CompleteAnswer(seen) /\ partial \in {<<>>, seen.text} /\ Parses(seen.args)
     THEN LET fed == Fed(held, IF partial = <<>> THEN seen.text ELSE <<>>) IN
          /\ step' = "finished" /\ held' = <<>> /\ pending' = <<>>
          /\ safe' = safe \o fed.out \o Closing(fed.held)
          /\ Flushed(pending \o fed.out \o Closing(fed.held))
          /\ UNCHANGED <<protocol, streams, turn, mine, attempts, published, answer, frames, seen, partial, record>>
     ELSE Interrupted("failed")

\* The response is the run's, unless a control came first.
Confirms ==
  /\ step = "finished" /\ ~Doomed /\ step' = "confirmed" /\ record' = [text |-> safe, call |-> seen.args # <<>>, given |-> TRUE]
  /\ UNCHANGED <<protocol, streams, turn, mine, attempts, published, answer, frames, seen, partial, safe, held, pending, public>>
Discards ==
  /\ step = "finished" /\ Doomed /\ step' = "idle"
  /\ UNCHANGED <<protocol, streams, turn, mine, attempts, published, answer, frames, seen, partial, safe, held, pending, public, record>>

StreamStep == TextFrame \/ ArgumentFrame \/ LifeCycleFrame \/ ErrorFrame \/ EndFrame \/ StreamEnds
ModelNext ==
  \/ BeginAttempt \/ OvertakeAttempt \/ CutAttempt \/ FlushPending
  \/ AskFails \/ RequestTimesOut \/ RunTimesOut \/ OpenStream \/ Complete \/ BreakOff
  \/ StreamStep \/ Finishes \/ Confirms \/ Discards
ModelSpec == ModelInit /\ [][ModelNext]_modelVars

-----------------------------------------------------------------------------
(* Properties. *)

\* A confirmed response is all that the provider answered: a stream that broke off,
\* hit its limit, was tried again or lost its end is no answer, in any protocol.
AnswerIsWhole == record.given =>
  answer.reason = "stop" /\ record.text = ShownText(answer.text) /\ record.call = answer.call

=============================================================================
