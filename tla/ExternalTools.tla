---------------------------- MODULE ExternalTools ----------------------------
(***************************************************************************)
(* Calls of a run to services outside: tools of an integration             *)
(* (integration_mcp.py), of a documentation service (documentation_mcp.py) *)
(* and pages of the web (browser_tools.py).  The user configures a         *)
(* service, connects to it to learn its tools, chooses among them,         *)
(* removes it and approves calls; controls strike the run meanwhile, and   *)
(* the service says of its tools what it likes.                            *)
(*                                                                         *)
(* One service, and one call at a time.  A step runs from one await of the *)
(* event loop to the next.  A request that is refused, because it names an *)
(* old version for instance, changes nothing and is left out.              *)
(***************************************************************************)
EXTENDS Naturals, Sequences, FiniteSets

CONSTANTS
  Tool, Session, Unknown,
  MaxVersion,  \* bound of the versions of the configuration
  MaxHunt,     \* bound of the connections to learn the tools
  MaxAgent,    \* bound of the calls
  MaxTurn,     \* bound of the controls, revocations and changes of run
  Catalog      \* what the service may say of its tools

ASSUME ToolsShape == Unknown \notin Catalog /\ {MaxVersion, MaxHunt, MaxAgent, MaxTurn} \subseteq Nat

VARIABLES
  style,    \* which of the three services
  source,   \* its configuration
  versions, \* how many versions there were
  hunts,    \* connections to learn it
  task,     \* the one in `tasks`, 0 for none
  leaving,  \* the one a removal waits for, 0 for none
  flow,     \* status of the connection
  call,     \* the call under way
  approved, \* grants for a session
  doing,    \* the run
  agreed,   \* history: what the user agreed to for a session
  wish,     \* history: the version the user chose, 0 for the removal, unless he has connected since
  calls, turns

serviceVars == <<source, versions, hunts, task, leaving, flow, wish>>
callVars == <<call, approved, doing, agreed, calls, turns>>
toolVars == <<style, serviceVars, callVars>>

Removed == [there |-> FALSE]
NoCall == [at |-> "none"]
Anything == MaxVersion + 1
Over == [at |-> "over"]
HuntOver(h) == h # 0 => hunts[h] = Over

\* A written tool is asked for at every call, a read one at the user's choice.
Pick == IF style = "mcp" THEN {"off", "write", "ask", "session"} ELSE {"off", "ask"}
NoPicks == [t \in Tool |-> "off"]

Configured(version) ==
  [there |-> TRUE, version |-> version, on |-> FALSE, picks |-> NoPicks, catalog |-> Unknown, fresh |-> FALSE]
\* A page needs no configuration.
Page == [Configured(1) EXCEPT !.on = TRUE, !.picks = [t \in Tool |-> "ask"], !.catalog = CHOOSE c \in Catalog : TRUE, !.fresh = TRUE]

ToolsInit ==
  /\ style \in {"mcp", "docs", "page"}
  /\ source = IF style = "page" THEN Page ELSE Removed
  /\ versions = 0 /\ hunts = <<>> /\ task = 0 /\ leaving = 0 /\ flow = "none"
  /\ call = NoCall /\ approved = {} /\ agreed = {} /\ wish = Anything /\ calls = 0 /\ turns = 0
  /\ doing \in [session : {CHOOSE s \in Session : TRUE}, gen : {0}, paused : {FALSE}, ended : {FALSE}, revoked : {FALSE},
                denied : {{}}, full : BOOLEAN, readonly : BOOLEAN]
  /\ doing.full => ~doing.readonly

\* A change that the call under way was not agreed under.
Disturbed(c) == IF c.at = "none" THEN c ELSE [c EXCEPT !.clean = FALSE]

-----------------------------------------------------------------------------
(* The configuration of a service. *)

SaveSource(new) ==
  /\ versions < MaxVersion /\ versions' = versions + 1
  /\ source' = [new EXCEPT !.version = versions + 1] /\ call' = Disturbed(call)

CreateSource ==
  /\ style # "page" /\ versions = 0 /\ SaveSource(Configured(0))
  /\ UNCHANGED <<style, hunts, task, leaving, flow, wish, approved, doing, agreed, calls, turns>>

Select ==
  /\ style # "page" /\ source.there /\ source.catalog # Unknown
  /\ \E picks \in [Tool -> Pick], on \in BOOLEAN :
       /\ style = "docs" /\ on => picks # NoPicks /\ source.fresh
       /\ SaveSource([source EXCEPT !.on = on, !.picks = picks])
  /\ wish' = versions'
  /\ UNCHANGED <<style, hunts, task, leaving, flow, approved, doing, agreed, calls, turns>>

\* connect and discover
Hunts ==
  /\ style # "page" /\ source.there /\ Len(hunts) < MaxHunt
  /\ hunts' = Append(hunts, [at |-> "connect", version |-> source.version, cut |-> FALSE])
  /\ IF style = "mcp"
     THEN HuntOver(task) /\ task' = Len(hunts') /\ flow' = "connecting" ELSE UNCHANGED <<task, flow>>
  /\ wish' = Anything
  /\ UNCHANGED <<style, source, versions, leaving, callVars>>

\* The service asks for a login; its answer comes by a callback, which counts once.
NeedsLogin(h) ==
  /\ style = "mcp" /\ hunts[h].at = "connect" /\ ~hunts[h].cut /\ flow = "connecting" /\ h = task
  /\ hunts' = [hunts EXCEPT ![h].at = "login"] /\ flow' = "login"
  /\ UNCHANGED <<style, source, versions, task, leaving, wish, callVars>>

Callback ==
  /\ flow = "login" /\ task # 0 /\ hunts[task].at = "login"
  /\ hunts' = [hunts EXCEPT ![task].at = "connect"] /\ flow' = "authorized"
  /\ UNCHANGED <<style, source, versions, task, leaving, wish, callVars>>

\* Without an entry in `flows` there is nothing to write to.
Shows(status) == flow' = IF style = "mcp" /\ flow # "none" THEN status ELSE flow

\* Nothing done meanwhile is overwritten.
NotOvertakenFaulty(h) == source.there
NotOvertaken(h) == source.there /\ source.version = hunts[h].version

Found(h) ==
  /\ hunts[h].at = "connect" /\ ~hunts[h].cut /\ hunts' = [hunts EXCEPT ![h] = Over]
  /\ IF NotOvertaken(h)
     THEN /\ \E c \in Catalog :
               SaveSource([source EXCEPT !.catalog = c, !.on = FALSE, !.picks = NoPicks, !.fresh = TRUE])
          /\ Shows("connected")
     ELSE UNCHANGED <<source, versions, call>> /\ Shows("error")
  /\ UNCHANGED <<style, task, leaving, wish, approved, doing, agreed, calls, turns>>

HuntEnds(h) ==
  /\ hunts[h] # Over /\ hunts' = [hunts EXCEPT ![h] = Over]
  /\ Shows(IF hunts[h].cut THEN "cancelled" ELSE "error")
  /\ UNCHANGED <<style, source, versions, task, leaving, wish, callVars>>

Delete ==
  /\ source' = Removed /\ wish' = 0 /\ call' = Disturbed(call)
  /\ flow' = "none" /\ UNCHANGED <<style, versions, approved, doing, agreed, calls, turns>>

\* remove takes the connection from `tasks`, cancels it and waits for its end.
RemoveSource ==
  /\ style = "mcp" /\ source.there /\ ~HuntOver(task) /\ leaving = 0
  /\ hunts' = [hunts EXCEPT ![task].cut = TRUE] /\ leaving' = task /\ task' = 0
  /\ UNCHANGED <<style, source, versions, flow, wish, callVars>>

RemoveNow ==
  /\ style # "page" /\ source.there /\ HuntOver(task) /\ task' = 0
  /\ Delete /\ UNCHANGED <<hunts, leaving>>

RemoveGoesOn ==
  /\ leaving # 0 /\ HuntOver(leaving) /\ leaving' = 0
  /\ Delete /\ UNCHANGED <<hunts, task>>

\* A day passes.
Ages ==
  /\ style = "docs" /\ source.there /\ source.fresh /\ source' = [source EXCEPT !.fresh = FALSE]
  /\ UNCHANGED <<style, versions, hunts, task, leaving, flow, wish, callVars>>

-----------------------------------------------------------------------------
(* The call. *)

Guard == ~doing.ended /\ ~doing.paused /\ call.gen = doing.gen
Granted == doing.full => ~doing.revoked

\* What validated and execute look for before the user is asked, and again later.
Usable(t, version) ==
  /\ source.there /\ source.version = version /\ source.on /\ source.picks[t] # "off"
  /\ style = "docs" => source.fresh

Key(t) == <<doing.session, source.version, t>>
ByGrant(t) == source.picks[t] = "session" /\ Key(t) \in approved

BeginCall(t) ==
  /\ call.at = "none" /\ calls < MaxAgent /\ calls' = calls + 1
  /\ ~doing.ended /\ ~doing.paused /\ (style # "docs" => Granted)
  /\ source.there /\ Usable(t, source.version) /\ t \notin doing.denied
  /\ doing.readonly => source.picks[t] # "write"
  /\ call' = [at |-> IF ByGrant(t) THEN "connect" ELSE "asked", tool |-> t, version |-> source.version,
              catalog |-> source.catalog, gen |-> doing.gen, cut |-> FALSE, yes |-> FALSE, clean |-> TRUE,
              seen |-> Unknown]
  /\ UNCHANGED <<style, serviceVars, approved, doing, agreed, turns>>

\* The answer of the user, and his name under it; the call goes on later.
Decide ==
  /\ call.at = "asked" /\ ~doing.ended /\ ~doing.paused
  /\ \E yes \in BOOLEAN : call' = [call EXCEPT !.at = "answered", !.yes = yes]
  /\ agreed' = IF call'.yes /\ source.there /\ source.version = call.version /\ source.picks[call.tool] = "session"
               THEN agreed \cup {Key(call.tool)} ELSE agreed
  /\ UNCHANGED <<style, serviceVars, approved, doing, calls, turns>>

\* The call ends, for one of many reasons.
Stop == call' = NoCall /\ UNCHANGED <<style, serviceVars, approved, agreed, calls, turns>>

Declined ==
  /\ call.at = "asked" \/ (call.at = "answered" /\ ~call.yes)
  /\ ~call.cut
  /\ doing' = [doing EXCEPT !.denied = @ \cup {call.tool}] /\ Stop

SameFaulty == TRUE
Same == source.there /\ source.version = call.version

StillAgreed ==
  Guard /\ CASE style = "mcp" -> Granted /\ Same
                [] style = "docs" -> Usable(call.tool, call.version)
                [] style = "page" -> Granted

\* The approval is consumed.  A page is fetched at once, a documentation service
\* needs the identity first.
Woken ==
  /\ call.at = "answered" /\ call.yes /\ ~call.cut /\ Guard
  /\ approved' = IF style = "mcp" /\ source.there /\ source.picks[call.tool] = "session" /\ Same
                 THEN approved \cup {Key(call.tool)} ELSE approved
  /\ IF style = "docs" \/ StillAgreed
     THEN call' = [call EXCEPT !.at = CASE style = "mcp" -> "connect" [] style = "docs" -> "identity" [] style = "page" -> "sent"]
     ELSE call' = NoCall
  /\ UNCHANGED <<style, serviceVars, doing, agreed, calls, turns>>

Identified ==
  /\ call.at = "identity" /\ ~call.cut /\ StillAgreed /\ call' = [call EXCEPT !.at = "connect"]
  /\ UNCHANGED <<style, serviceVars, approved, doing, agreed, calls, turns>>

\* The service tells its tools anew.
Lists ==
  /\ call.at = "connect" /\ ~call.cut
  /\ \E c \in Catalog : call' = [call EXCEPT !.at = "listed", !.seen = c]
  /\ UNCHANGED <<style, serviceVars, approved, doing, agreed, calls, turns>>

Send ==
  /\ call.at = "listed" /\ ~call.cut /\ call.seen = call.catalog /\ StillAgreed
  /\ call' = [call EXCEPT !.at = "sent", !.seen = Unknown, !.clean = FALSE]
  /\ UNCHANGED <<style, serviceVars, approved, doing, agreed, calls, turns>>

\* A check fails, the service does, the time is over, or a control has cut the call.
Ends ==
  /\ \/ call.at \in {"connect", "listed", "identity", "sent"}
     \/ call.at \in {"asked", "answered"} /\ call.cut
     \/ call.at = "answered" /\ call.yes /\ ~Guard
  /\ Stop /\ UNCHANGED doing

-----------------------------------------------------------------------------
(* Controls of the run. *)

CutCall == IF call.at = "none" THEN call ELSE [call EXCEPT !.cut = TRUE, !.clean = FALSE]

\* A steer or a pause cuts the call, a cancel does so when it has stopped the processes.
Control(kind) ==
  /\ turns < MaxTurn /\ turns' = turns + 1 /\ ~doing.ended
  /\ doing' = [doing EXCEPT !.gen = @ + 1, !.paused = @ \/ kind = "pause", !.ended = kind = "cancel"]
  /\ call' = IF kind = "cancel" THEN Disturbed(call) ELSE CutCall
  /\ UNCHANGED <<style, serviceVars, approved, agreed, calls>>

Resume ==
  /\ doing.paused /\ ~doing.ended /\ doing' = [doing EXCEPT !.paused = FALSE]
  /\ UNCHANGED <<style, serviceVars, call, approved, agreed, calls, turns>>

CancelCuts ==
  /\ doing.ended /\ call.at # "none" /\ call' = CutCall
  /\ UNCHANGED <<style, serviceVars, approved, doing, agreed, calls, turns>>

\* revoke_grant ends the grant at once and cancels the run later; what was approved
\* for a documentation service by itself needs no grant.
RevokeGrant ==
  /\ turns < MaxTurn /\ turns' = turns + 1 /\ doing.full /\ ~doing.revoked
  /\ doing' = [doing EXCEPT !.revoked = TRUE]
  /\ call' = IF style = "docs" THEN call ELSE Disturbed(call)
  /\ UNCHANGED <<style, serviceVars, approved, agreed, calls>>

\* The run ends; the next one may be of another session.
NextRun ==
  /\ call.at = "none" /\ turns < MaxTurn /\ turns' = turns + 1
  /\ \E s \in Session : doing' = [doing EXCEPT !.session = s, !.gen = 0, !.paused = FALSE, !.ended = FALSE,
                                               !.denied = {}, !.full = FALSE, !.readonly = FALSE]
  /\ UNCHANGED <<style, serviceVars, call, approved, agreed, calls>>

ToolsNext ==
  \/ CreateSource \/ Select \/ Hunts \/ Callback \/ RemoveSource \/ RemoveNow \/ RemoveGoesOn \/ Ages
  \/ \E h \in DOMAIN hunts : NeedsLogin(h) \/ Found(h) \/ HuntEnds(h)
  \/ \E t \in Tool : BeginCall(t)
  \/ Decide \/ Declined \/ Woken \/ Identified \/ Lists \/ Send \/ Ends
  \/ \E kind \in {"steer", "pause", "cancel"} : Control(kind)
  \/ Resume \/ CancelCuts \/ RevokeGrant \/ NextRun

ToolsSpec == ToolsInit /\ [][ToolsNext]_toolVars

-----------------------------------------------------------------------------
(* Properties *)

\* A call goes out only as the user agreed to it: nothing was changed since by a
\* control, by him or by a connection, the service offers what he chose from, and
\* a call without an approval of its own is of a tool he has agreed to for the
\* session in this version (execute, integration_mcp.py:297, documentation_mcp.py:144).
SentAsAgreed ==
  [][call'.at = "sent" /\ call.at # "sent" =>
       /\ call.clean /\ call.tool \notin doing.denied
       /\ style # "page" => call.seen = source.catalog /\ source.on
       /\ call.yes \/ Key(call.tool) \in agreed]_toolVars

\* What the user chose last stays: a connection that began before never brings
\* back a service he has removed, nor replaces his choice (discover, remove and
\* select, integration_mcp.py:156-295; save, documentation_mcp.py:86).
ChoiceStands == wish \in {Anything, IF source.there THEN source.version ELSE 0}
=============================================================================
