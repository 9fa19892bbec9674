------------------------------ MODULE HostProofs ------------------------------
(***************************************************************************)
(* What ExternalTools promises, for every number of versions, connections, *)
(* calls and controls.                                                     *)
(*                                                                         *)
(* That the user's last choice stands needs the connections that are still *)
(* under way: after a choice none of them has begun with the version that  *)
(* is there now (HuntsFit).  That a call goes out as agreed needs that     *)
(* everything that disturbs it leaves a trace one of the later checks      *)
(* finds (TracesRemain), and that an answer or a grant is behind every     *)
(* call that has passed the question (AgreedFirst, ApprovedFirst).         *)
(*                                                                         *)
(* What Sandbox promises with the service of one account and without the   *)
(* failures that the finding is about, for every number of leases, users   *)
(* and crashes.                                                            *)
(*                                                                         *)
(* At most one lease has got past the reading of the states at a time      *)
(* (OnlyOne): its grant shows in the root's list until its clean-up has    *)
(* begun to take it away under the mutex (GrantShows), so that the next    *)
(* one finds it and is refused.  Hence what a clean-up restores is what    *)
(* its own lease has changed (ListsFit).                                   *)
(*                                                                         *)
(* That HostStream is the pipe of OutputPipe, for every number of streams, *)
(* every length of the output and every size of the queue.                 *)
(*                                                                         *)
(* Each event on its way carries the characters between its number and the *)
(* next (Carries), and the bytes of a reader are those of the characters   *)
(* it has not sent (ReaderFits).  However the bytes are cut, a reader      *)
(* sends whole characters and keeps the bytes of the rest (ReadsWhole),    *)
(* and what has been sent is what the bytes stood for (DecodesBack).       *)
(***************************************************************************)
EXTENDS ExternalTools, Sandbox, HostStream, SequenceTheorems, WellFoundedInduction, TLAPS

-----------------------------------------------------------------------------
(* ExternalTools. *)

Underway == {"asked", "answered", "identity", "connect", "listed"}

Offered == Catalog \cup {Unknown} \cup {CHOOSE c \in Catalog : TRUE}
Sources == [there : {TRUE}, version : Nat, on : BOOLEAN, picks : [Tool -> {"off", "write", "ask", "session"}],
            catalog : Offered, fresh : BOOLEAN]
Connections == [at : {"connect", "login"}, version : Nat, cut : BOOLEAN]
CallRecords == [at : Underway \cup {"sent"}, tool : Tool, version : Nat, catalog : Offered, gen : Nat,
                cut : BOOLEAN, yes : BOOLEAN, clean : BOOLEAN, seen : Offered]
Runs == [session : Session \cup {CHOOSE s \in Session : TRUE}, gen : Nat, paused : BOOLEAN, ended : BOOLEAN,
         revoked : BOOLEAN, denied : SUBSET Tool, full : BOOLEAN, readonly : BOOLEAN]

\* The variables hold what they are meant to (integration_mcp.py, documentation_mcp.py, browser_tools.py).
ToolsTypeOK ==
  /\ style \in {"mcp", "docs", "page"}
  /\ source \in {Removed} \cup Sources
  /\ versions \in Nat /\ hunts \in Seq({Over} \cup Connections)
  /\ task \in 0..Len(hunts) /\ leaving \in 0..Len(hunts)
  /\ call \in {NoCall} \cup CallRecords
  /\ doing \in Runs

\* A page has nothing to configure, a service the version it was saved under last.
SourceFits ==
  /\ style = "page" => source = Page /\ leaving = 0 /\ hunts = <<>>
  /\ style # "page" /\ source.there => source.version = versions /\ versions > 0
  /\ versions = 0 => wish = Anything /\ leaving = 0

\* A connection under way began with a version there was, and after a choice of
\* the user with none that is there now.
HuntsFit ==
  \A h \in DOMAIN hunts : hunts[h] # Over =>
    hunts[h].version <= versions /\ (wish # Anything => ~NotOvertaken(h))

SourceInv == ToolsTypeOK /\ SourceFits /\ HuntsFit /\ ChoiceStands

\* A call carries what was true when it began.
CallIsRecent ==
  call.at # "none" =>
    /\ call.gen <= doing.gen /\ call.tool \notin doing.denied
    /\ style # "page" => 0 < call.version /\ call.version <= versions

OffersMatch ==
  call.at # "none" /\ style # "page" /\ Same => source.on /\ source.catalog = call.catalog

\* Whatever disturbs a call is still to be seen when it is about to go out.
TracesRemain ==
  call.at \in Underway /\ ~call.clean =>
    \/ call.cut \/ call.gen # doing.gen \/ doing.ended
    \/ style # "page" /\ ~Same
    \/ style # "docs" /\ ~Granted

AgreedFirst ==
  call.at = "answered" /\ call.yes /\ Same /\ source.picks[call.tool] = "session" => Key(call.tool) \in agreed

ApprovedFirst ==
  call.at \in {"identity", "connect", "listed"} =>
    style # "page" /\ (call.yes \/ <<doing.session, call.version, call.tool>> \in approved)

CallInv == CallIsRecent /\ OffersMatch /\ TracesRemain /\ AgreedFirst /\ ApprovedFirst /\ approved \subseteq agreed

-----------------------------------------------------------------------------
(* The configuration. *)

LEMMA RemovedIsGone == Removed.there = FALSE /\ Removed \notin Sources
  BY DEF Removed, Sources

LEMMA OverIsOver == Over \notin Connections /\ Over.at = "over"
  BY DEF Over, Connections

\* What a new version is saved as.
LEMMA SavedIsSource ==
  ASSUME ToolsTypeOK, NEW new \in Sources, SaveSource(new)
  PROVE  /\ source' \in Sources /\ source'.version = versions + 1 /\ source'.there
         /\ versions' = versions + 1 /\ versions' \in Nat
         /\ call' \in {NoCall} \cup CallRecords /\ call' = Disturbed(call)
<1>1. source' = [new EXCEPT !.version = versions + 1] /\ versions' = versions + 1 /\ versions \in Nat
  BY DEF SaveSource, ToolsTypeOK
<1>2. source' \in Sources /\ source'.version = versions + 1 /\ source'.there
  <2>1. versions + 1 \in Nat BY <1>1
  <2>2. \A v \in Nat : [new EXCEPT !.version = v] \in Sources /\ [new EXCEPT !.version = v].version = v
                        /\ [new EXCEPT !.version = v].there = TRUE
    BY DEF Sources
  <2> QED BY <1>1, <2>1, <2>2
<1>3. call' = Disturbed(call) /\ call \in {NoCall} \cup CallRecords
  BY DEF SaveSource, ToolsTypeOK
<1>4. call' \in {NoCall} \cup CallRecords
  BY <1>3 DEF Disturbed, CallRecords, NoCall
<1> QED BY <1>1, <1>2, <1>3, <1>4

LEMMA NewConfiguration == Configured(0) \in Sources
<1>1. Unknown \in Offered BY DEF Offered
<1>2. NoPicks \in [Tool -> {"off", "write", "ask", "session"}] BY DEF NoPicks
<1> QED BY <1>1, <1>2 DEF Configured, Sources

LEMMA PageIsSource == Page \in Sources /\ Page.there /\ \A t \in Tool : Page.picks[t] = "ask"
<1>1. (CHOOSE c \in Catalog : TRUE) \in Offered BY DEF Offered
<1>2. [t \in Tool |-> "ask"] \in [Tool -> {"off", "write", "ask", "session"}] OBVIOUS
<1> QED BY <1>1, <1>2 DEF Page, Configured, Sources

\* A new version overtakes every connection and is the user's last word if any is.
LEMMA SavingFits ==
  ASSUME SourceInv, NEW new \in Sources, SaveSource(new), style # "page", style' = style, leaving' = leaving,
         task' = task, doing' = doing, wish' = wish \/ wish' = versions',
         wish' = wish => wish = Anything,
         \/ hunts' = hunts
         \/ \E h \in DOMAIN hunts : hunts[h] # Over /\ hunts' = [hunts EXCEPT ![h] = Over],
         versions = 0 => leaving = 0
  PROVE  SourceInv'
<1>1. /\ source' \in Sources /\ source'.version = versions + 1 /\ source'.there
      /\ versions' = versions + 1 /\ versions' \in Nat
      /\ call' \in {NoCall} \cup CallRecords
  BY SavedIsSource DEF SourceInv
<1>2. hunts' \in Seq({Over} \cup Connections) /\ Len(hunts') = Len(hunts)
      /\ \A h \in DOMAIN hunts' : h \in DOMAIN hunts /\ (hunts'[h] # Over => hunts'[h] = hunts[h])
  BY DEF SourceInv, ToolsTypeOK
<1>3. ToolsTypeOK'
  BY <1>1, <1>2 DEF SourceInv, ToolsTypeOK
<1>4. SourceFits'
  BY <1>1 DEF SourceInv, ToolsTypeOK, SourceFits
<1>5. HuntsFit'
  <2> SUFFICES ASSUME NEW h \in DOMAIN hunts', hunts'[h] # Over
               PROVE  hunts'[h].version <= versions' /\ source'.version # hunts'[h].version
    BY DEF HuntsFit, NotOvertaken
  <2>1. h \in DOMAIN hunts /\ hunts'[h] = hunts[h] BY <1>2
  <2>2. hunts[h] \in Connections BY <2>1 DEF SourceInv, ToolsTypeOK
  <2>3. hunts[h].version \in Nat /\ hunts[h].version <= versions
    BY <2>1, <2>2 DEF SourceInv, HuntsFit, Connections
  <2> QED BY <2>1, <2>3, <1>1 DEF SourceInv, ToolsTypeOK
<1>6. ChoiceStands'
  BY <1>1 DEF SourceInv, ChoiceStands, Anything
<1> QED BY <1>3, <1>4, <1>5, <1>6 DEF SourceInv

\* Steps of connections that leave the configuration alone.
LEMMA ConnectionsFit ==
  ASSUME SourceInv, style' = style, source' = source, versions' = versions, doing' = doing,
         call' = call, wish' = wish, task' \in 0..Len(hunts),
         leaving' \in 0..Len(hunts), versions = 0 => leaving' = 0,
         NEW h \in DOMAIN hunts, hunts[h] # Over, NEW new \in {Over} \cup Connections,
         hunts' = [hunts EXCEPT ![h] = new], new # Over => new.version = hunts[h].version
  PROVE  SourceInv'
<1>1. hunts' \in Seq({Over} \cup Connections) /\ Len(hunts') = Len(hunts) /\ DOMAIN hunts' = DOMAIN hunts
  BY DEF SourceInv, ToolsTypeOK
<1>2. hunts'[h] = new /\ \A g \in DOMAIN hunts : g # h => hunts'[g] = hunts[g]
  BY DEF SourceInv, ToolsTypeOK
<1>3. ToolsTypeOK' BY <1>1 DEF SourceInv, ToolsTypeOK
<1>4. SourceFits'
  <2>1. style # "page" BY DEF SourceInv, SourceFits
  <2> QED BY <2>1 DEF SourceInv, SourceFits
<1>5. HuntsFit'
  <2> SUFFICES ASSUME NEW g \in DOMAIN hunts, hunts'[g] # Over
               PROVE  hunts'[g].version <= versions /\ (wish # Anything => ~(source.there /\ source.version = hunts'[g].version))
    BY <1>1 DEF HuntsFit, NotOvertaken
  <2>1. hunts[g] # Over /\ hunts'[g].version = hunts[g].version BY <1>2
  <2> QED BY <2>1 DEF SourceInv, HuntsFit, NotOvertaken
<1>6. ChoiceStands' BY DEF SourceInv, ChoiceStands
<1> QED BY <1>3, <1>4, <1>5, <1>6 DEF SourceInv

\* The call and the run do not matter to the configuration.
LEMMA CallsLeaveSource ==
  ASSUME SourceInv, UNCHANGED <<style, serviceVars>>, call' \in {NoCall} \cup CallRecords, doing' \in Runs
  PROVE  SourceInv'
<1>1. ToolsTypeOK' BY DEF SourceInv, ToolsTypeOK, serviceVars
<1>2. SourceFits' BY DEF SourceInv, SourceFits, serviceVars
<1>3. HuntsFit' BY DEF SourceInv, HuntsFit, NotOvertaken, serviceVars
<1>4. ChoiceStands' BY DEF SourceInv, ChoiceStands, serviceVars
<1> QED BY <1>1, <1>2, <1>3, <1>4 DEF SourceInv

\* A service that is gone overtakes every connection.
LEMMA DeletingFits ==
  ASSUME SourceInv, Delete, style # "page", versions > 0, hunts' = hunts, task' \in 0..Len(hunts),
         leaving' \in 0..Len(hunts)
  PROVE  SourceInv'
<1>1. source' = Removed /\ wish' = 0 /\ versions' = versions /\ style' = style /\ doing' = doing
  BY DEF Delete
<1>2. call' \in {NoCall} \cup CallRecords
  BY DEF Delete, Disturbed, SourceInv, ToolsTypeOK, CallRecords, NoCall
<1>3. ToolsTypeOK' BY <1>1, <1>2 DEF SourceInv, ToolsTypeOK
<1>4. SourceFits' BY <1>1, RemovedIsGone DEF SourceInv, ToolsTypeOK, SourceFits
<1>5. HuntsFit' BY <1>1, RemovedIsGone DEF SourceInv, HuntsFit, NotOvertaken
<1>6. ChoiceStands' BY <1>1, RemovedIsGone DEF ChoiceStands
<1> QED BY <1>3, <1>4, <1>5, <1>6 DEF SourceInv

LEMMA SourceInit ==
  ASSUME ToolsInit PROVE SourceInv
<1>1. doing \in Runs
  <2>1. doing \in [session : {CHOOSE s \in Session : TRUE}, gen : {0}, paused : {FALSE}, ended : {FALSE}, revoked : {FALSE},
                   denied : {{}}, full : BOOLEAN, readonly : BOOLEAN]
    BY DEF ToolsInit
  <2>2. {0} \subseteq Nat /\ {FALSE} \subseteq BOOLEAN /\ {{}} \subseteq SUBSET Tool OBVIOUS
  <2> QED BY <2>1, <2>2 DEF Runs
<1>2. ToolsTypeOK BY <1>1, PageIsSource DEF ToolsInit, ToolsTypeOK
<1>3. SourceFits BY RemovedIsGone DEF ToolsInit, SourceFits
<1>4. HuntsFit /\ ChoiceStands BY DEF ToolsInit, HuntsFit, ChoiceStands
<1> QED BY <1>2, <1>3, <1>4 DEF SourceInv

LEMMA CreateFits == ASSUME SourceInv, CreateSource PROVE SourceInv'
<1>1. /\ Configured(0) \in Sources /\ SaveSource(Configured(0)) /\ style # "page" /\ wish = Anything
      /\ UNCHANGED <<style, hunts, task, leaving, wish, doing>> /\ leaving = 0
  BY NewConfiguration DEF CreateSource, SourceInv, SourceFits
<1> QED BY <1>1, SavingFits

LEMMA SelectFits == ASSUME SourceInv, Select PROVE SourceInv'
<1>1. PICK picks \in [Tool -> Pick], on \in BOOLEAN : SaveSource([source EXCEPT !.on = on, !.picks = picks])
  BY DEF Select
<1> DEFINE new == [source EXCEPT !.on = on, !.picks = picks]
<1>2. source \in Sources /\ source.version = versions /\ versions > 0 /\ versions \in Nat
  BY RemovedIsGone DEF Select, SourceInv, ToolsTypeOK, SourceFits
<1>3. picks \in [Tool -> {"off", "write", "ask", "session"}]
  BY <1>1 DEF Pick
<1>4. new \in Sources BY <1>2, <1>3 DEF Sources
<1>5. style # "page" /\ wish' = versions' /\ UNCHANGED <<style, hunts, task, leaving, doing>>
  BY DEF Select
<1>6. versions' = versions + 1 BY <1>1 DEF SaveSource
<1>7. wish' = wish => wish = Anything
  BY <1>2, <1>5, <1>6 DEF SourceInv, ChoiceStands
<1> HIDE DEF new
<1>8. SaveSource(new) BY <1>1 DEF new
<1> QED BY <1>2, <1>4, <1>5, <1>7, <1>8, SavingFits

LEMMA HuntsBegin == ASSUME SourceInv, Hunts PROVE SourceInv'
<1> DEFINE new == [at |-> "connect", version |-> source.version, cut |-> FALSE]
<1>1. source \in Sources /\ source.version = versions /\ versions > 0 /\ versions \in Nat /\ style # "page"
  BY RemovedIsGone DEF Hunts, SourceInv, ToolsTypeOK, SourceFits
<1>2. new \in Connections /\ new.version = versions BY <1>1 DEF Connections
<1>3. /\ hunts' = Append(hunts, new) /\ wish' = Anything /\ UNCHANGED <<style, source, versions, leaving, call, doing>>
      /\ task' \in {Len(hunts'), task}
  BY DEF Hunts, callVars
<1> HIDE DEF new
<1>4. hunts \in Seq({Over} \cup Connections) BY DEF SourceInv, ToolsTypeOK
<1>5. /\ hunts' \in Seq({Over} \cup Connections) /\ Len(hunts') = Len(hunts) + 1
      /\ \A h \in DOMAIN hunts' : (h \in DOMAIN hunts /\ hunts'[h] = hunts[h]) \/ hunts'[h] = new
  BY <1>2, <1>3, <1>4
<1>6. ToolsTypeOK'
  <2>1. task \in 0..Len(hunts) /\ leaving \in 0..Len(hunts) BY DEF SourceInv, ToolsTypeOK
  <2>2. task' \in 0..Len(hunts') /\ leaving' \in 0..Len(hunts') BY <1>3, <1>4, <1>5, <2>1
  <2> QED BY <1>3, <1>5, <2>2 DEF SourceInv, ToolsTypeOK
<1>7. SourceFits' BY <1>1, <1>3 DEF SourceInv, SourceFits
<1>8. HuntsFit'
  <2> SUFFICES ASSUME NEW h \in DOMAIN hunts', hunts'[h] # Over PROVE hunts'[h].version <= versions
    BY <1>3 DEF HuntsFit
  <2>1. CASE hunts'[h] = new BY <2>1, <1>1, <1>2
  <2>2. CASE h \in DOMAIN hunts /\ hunts'[h] = hunts[h] BY <2>2 DEF SourceInv, HuntsFit
  <2> QED BY <2>1, <2>2, <1>5
<1>9. ChoiceStands' BY <1>3 DEF ChoiceStands, Anything
<1> QED BY <1>6, <1>7, <1>8, <1>9 DEF SourceInv

LEMMA FoundFits ==
  ASSUME SourceInv, NEW h \in DOMAIN hunts, Found(h) PROVE SourceInv'
<1>1. hunts[h] # Over /\ hunts' = [hunts EXCEPT ![h] = Over] /\ UNCHANGED <<style, task, leaving, wish, doing>>
  BY OverIsOver DEF Found
<1>2. task \in 0..Len(hunts) /\ leaving \in 0..Len(hunts) /\ (versions = 0 => leaving = 0)
  BY DEF SourceInv, ToolsTypeOK, SourceFits
<1>3. CASE NotOvertaken(h)
  <2>1. PICK c \in Catalog : SaveSource([source EXCEPT !.catalog = c, !.on = FALSE, !.picks = NoPicks, !.fresh = TRUE])
    BY <1>3 DEF Found
  <2> DEFINE new == [source EXCEPT !.catalog = c, !.on = FALSE, !.picks = NoPicks, !.fresh = TRUE]
  <2>2. source \in Sources BY <1>3, RemovedIsGone DEF NotOvertaken, SourceInv, ToolsTypeOK
  <2>3. NoPicks \in [Tool -> {"off", "write", "ask", "session"}] /\ c \in Offered BY DEF NoPicks, Offered
  <2>4. new \in Sources BY <2>2, <2>3 DEF Sources
  <2>5. wish = Anything BY <1>1, <1>3 DEF SourceInv, HuntsFit
  <2>6. style # "page" BY DEF SourceInv, SourceFits
  <2> HIDE DEF new
  <2>7. SaveSource(new) BY <2>1 DEF new
  <2> QED BY <1>1, <1>2, <2>4, <2>5, <2>6, <2>7, SavingFits
<1>4. CASE ~NotOvertaken(h)
  <2>1. UNCHANGED <<source, versions, call>> BY <1>4 DEF Found
  <2> QED BY <1>1, <1>2, <2>1, ConnectionsFit
<1> QED BY <1>3, <1>4

LEMMA HuntsGoOn ==
  ASSUME SourceInv, NEW h \in DOMAIN hunts, NeedsLogin(h) \/ HuntEnds(h) \/ (h = task /\ (Callback \/ RemoveSource))
  PROVE  SourceInv'
<1>1. /\ task \in 0..Len(hunts) /\ leaving \in 0..Len(hunts) /\ (versions = 0 => leaving = 0)
      /\ hunts \in Seq({Over} \cup Connections)
  BY DEF SourceInv, ToolsTypeOK, SourceFits
<1>2. hunts[h] \in {Over} \cup Connections BY <1>1
<1>3. hunts[h] # Over /\ UNCHANGED <<style, source, versions, wish, call, doing>>
  BY OverIsOver DEF NeedsLogin, HuntEnds, Callback, RemoveSource, HuntOver, callVars
<1>4. hunts[h] \in Connections BY <1>2, <1>3
<1>5. CASE NeedsLogin(h) \/ (h = task /\ Callback)
  <2>1. UNCHANGED <<task, leaving>> /\ \E at \in {"connect", "login"} : hunts' = [hunts EXCEPT ![h] = [hunts[h] EXCEPT !.at = at]]
    BY <1>5 DEF NeedsLogin, Callback
  <2>2. PICK at \in {"connect", "login"} : hunts' = [hunts EXCEPT ![h] = [hunts[h] EXCEPT !.at = at]] BY <2>1
  <2> DEFINE new == [hunts[h] EXCEPT !.at = at]
  <2>3. new \in Connections /\ new.version = hunts[h].version BY <1>4 DEF Connections
  <2> HIDE DEF new
  <2>4. hunts' = [hunts EXCEPT ![h] = new] BY <2>2 DEF new
  <2> QED BY <1>1, <1>3, <2>1, <2>3, <2>4, ConnectionsFit
<1>6. CASE HuntEnds(h)
  <2>1. UNCHANGED <<task, leaving>> /\ hunts' = [hunts EXCEPT ![h] = Over] BY <1>6 DEF HuntEnds
  <2> QED BY <1>1, <1>3, <2>1, ConnectionsFit
<1>7. CASE h = task /\ RemoveSource
  <2>1. hunts' = [hunts EXCEPT ![h] = [hunts[h] EXCEPT !.cut = TRUE]] /\ leaving' = h /\ task' = 0
    BY <1>7 DEF RemoveSource
  <2> DEFINE new == [hunts[h] EXCEPT !.cut = TRUE]
  <2>2. new \in Connections /\ new.version = hunts[h].version BY <1>4 DEF Connections
  <2>3. versions # 0
    BY <1>7 DEF RemoveSource, SourceInv, SourceFits
  <2> HIDE DEF new
  <2>4. hunts' = [hunts EXCEPT ![h] = new] BY <2>1 DEF new
  <2>5. task' \in 0..Len(hunts) /\ leaving' \in 0..Len(hunts) BY <1>1, <1>7, <2>1
  <2> QED BY <1>3, <2>2, <2>3, <2>4, <2>5, ConnectionsFit
<1> QED BY <1>5, <1>6, <1>7

LEMMA RemovalFits == ASSUME SourceInv, RemoveNow \/ RemoveGoesOn PROVE SourceInv'
<1>1. Delete /\ hunts' = hunts BY DEF RemoveNow, RemoveGoesOn
<1>2. versions > 0 /\ style # "page"
  BY DEF RemoveNow, RemoveGoesOn, SourceInv, ToolsTypeOK, SourceFits
<1>3. task' \in 0..Len(hunts) /\ leaving' \in 0..Len(hunts)
  BY DEF RemoveNow, RemoveGoesOn, SourceInv, ToolsTypeOK
<1> QED BY <1>1, <1>2, <1>3, DeletingFits

LEMMA AgesFits == ASSUME SourceInv, Ages PROVE SourceInv'
<1>1. source \in Sources /\ source' = [source EXCEPT !.fresh = FALSE] /\ style = "docs"
      /\ UNCHANGED <<style, versions, hunts, task, leaving, flow, wish, callVars>>
  BY RemovedIsGone DEF Ages, SourceInv, ToolsTypeOK
<1>2. source' \in Sources /\ source'.version = source.version /\ source'.there = source.there
  BY <1>1 DEF Sources
<1>3. ToolsTypeOK' BY <1>1, <1>2 DEF SourceInv, ToolsTypeOK, callVars
<1>4. SourceFits' BY <1>1, <1>2 DEF SourceInv, SourceFits
<1>5. HuntsFit' BY <1>1, <1>2 DEF SourceInv, HuntsFit, NotOvertaken
<1>6. ChoiceStands' BY <1>1, <1>2 DEF SourceInv, ChoiceStands
<1> QED BY <1>3, <1>4, <1>5, <1>6 DEF SourceInv

-----------------------------------------------------------------------------
(* The call. *)

LEMMA NoCallIsNone == NoCall.at = "none" /\ \A c \in CallRecords : c.at # "none"
  BY DEF NoCall, CallRecords, Underway

LEMMA NoCallFits ==
  ASSUME approved' \subseteq agreed', call' = NoCall
  PROVE  CallInv'
  BY NoCallIsNone DEF CallInv, CallIsRecent, OffersMatch, TracesRemain, AgreedFirst, ApprovedFirst, Underway

\* What is disturbed differs in nothing else.
LEMMA DisturbedIsSame ==
  ASSUME ToolsTypeOK, call' = Disturbed(call)
  PROVE  /\ call'.at = call.at
         /\ call.at # "none" => /\ call'.version = call.version /\ call'.gen = call.gen /\ call'.tool = call.tool
                               /\ call'.yes = call.yes /\ call'.catalog = call.catalog /\ call'.cut = call.cut
                               /\ call'.clean = FALSE /\ call' \in CallRecords
         /\ call.at = "none" => call' = NoCall /\ call = NoCall
  BY NoCallIsNone DEF ToolsTypeOK, Disturbed, CallRecords

\* A change of the configuration leaves no service of the call's version.
LEMMA ChangesAreSeen ==
  ASSUME SourceInv, CallInv, style # "page", UNCHANGED <<style, doing, approved, agreed>>, versions' \in Nat, versions' >= versions,
         call' = Disturbed(call), call.at # "none" => ~(source'.there /\ source'.version = call.version)
  PROVE  CallInv'
<1>1. CASE call.at = "none"
  BY <1>1, NoCallFits, DisturbedIsSame DEF CallInv, SourceInv
<1>2. CASE call.at # "none"
  <2>1. /\ call'.version = call.version /\ call'.gen = call.gen /\ call'.tool = call.tool /\ call'.yes = call.yes
        /\ call'.at = call.at /\ ~Same'
    BY <1>2, DisturbedIsSame DEF SourceInv, Same
  <2>2. call \in CallRecords BY <1>2, NoCallIsNone DEF SourceInv, ToolsTypeOK
  <2>3. call.version \in Nat BY <2>2 DEF CallRecords
  <2>4. CallIsRecent' BY <2>1, <2>3, <1>2 DEF CallInv, CallIsRecent, SourceInv, ToolsTypeOK
  <2>5. OffersMatch' /\ TracesRemain' /\ AgreedFirst' BY <2>1 DEF OffersMatch, TracesRemain, AgreedFirst
  <2>6. ApprovedFirst' BY <2>1 DEF CallInv, ApprovedFirst
  <2> QED BY <2>4, <2>5, <2>6 DEF CallInv
<1> QED BY <1>1, <1>2

LEMMA SavingIsSeen ==
  ASSUME SourceInv, CallInv, NEW new \in Sources, SaveSource(new), style # "page",
         UNCHANGED <<style, doing, approved, agreed>>
  PROVE  CallInv'
<1>1. source'.version = versions + 1 /\ versions' = versions + 1 /\ call' = Disturbed(call) /\ versions \in Nat
  BY SavedIsSource DEF SourceInv, ToolsTypeOK
<1>2. call.at # "none" => call.version \in Nat /\ call.version <= versions
  BY NoCallIsNone DEF SourceInv, ToolsTypeOK, CallRecords, CallInv, CallIsRecent
<1>3. call.at # "none" => ~(source'.there /\ source'.version = call.version) BY <1>1, <1>2
<1> QED BY <1>1, <1>3, ChangesAreSeen

\* What leaves the call, the run and the configuration's choices alone.
LEMMA CallUntouched ==
  ASSUME CallInv, UNCHANGED <<style, versions, call, doing, approved, agreed>>,
         source'.there = source.there, source'.there => /\ source'.version = source.version /\ source'.on = source.on
                                    /\ source'.catalog = source.catalog /\ source'.picks = source.picks
  PROVE  CallInv'
<1>1. Same' => Same BY DEF Same
<1>2. Same => Same' BY DEF Same
<1>3. CallIsRecent' BY DEF CallInv, CallIsRecent
<1>4. OffersMatch' BY <1>1 DEF CallInv, OffersMatch, Same
<1>5. TracesRemain' BY <1>1 DEF CallInv, TracesRemain, Granted
<1>6. AgreedFirst' BY <1>1 DEF CallInv, AgreedFirst, Same, Key
<1>7. ApprovedFirst' BY DEF CallInv, ApprovedFirst
<1> QED BY <1>3, <1>4, <1>5, <1>6, <1>7 DEF CallInv

LEMMA ConfigurationIsSeen ==
  ASSUME SourceInv, CallInv,
         \/ CreateSource \/ Select \/ Hunts \/ Callback \/ RemoveSource \/ RemoveNow \/ RemoveGoesOn \/ Ages
         \/ \E h \in DOMAIN hunts : NeedsLogin(h) \/ Found(h) \/ HuntEnds(h)
  PROVE  CallInv'
<1>1. CASE CreateSource
  BY <1>1, NewConfiguration, SavingIsSeen DEF CreateSource
<1>2. CASE Select
  <2>1. PICK picks \in [Tool -> Pick], on \in BOOLEAN : SaveSource([source EXCEPT !.on = on, !.picks = picks])
    BY <1>2 DEF Select
  <2> DEFINE new == [source EXCEPT !.on = on, !.picks = picks]
  <2>2. source \in Sources BY <1>2, RemovedIsGone DEF Select, SourceInv, ToolsTypeOK
  <2>3. picks \in [Tool -> {"off", "write", "ask", "session"}] BY DEF Pick
  <2>4. new \in Sources BY <2>2, <2>3 DEF Sources
  <2>5. style # "page" /\ UNCHANGED <<style, doing, approved, agreed>> BY <1>2 DEF Select
  <2> HIDE DEF new
  <2>6. SaveSource(new) BY <2>1 DEF new
  <2> QED BY <2>4, <2>5, <2>6, SavingIsSeen
<1>3. CASE Hunts \/ Callback \/ RemoveSource
  <2>1. UNCHANGED <<style, source, versions, call, doing, approved, agreed>>
    BY <1>3 DEF Hunts, Callback, RemoveSource, callVars
  <2> QED BY <2>1, CallUntouched
<1>4. CASE RemoveNow \/ RemoveGoesOn
  <2>1. /\ call' = Disturbed(call) /\ source' = Removed /\ UNCHANGED <<style, versions, doing, approved, agreed>>
        /\ versions \in Nat /\ style # "page"
    BY <1>4 DEF RemoveNow, RemoveGoesOn, Delete, SourceInv, ToolsTypeOK, SourceFits
  <2>2. ~source'.there BY <2>1, RemovedIsGone
  <2> QED BY <2>1, <2>2, ChangesAreSeen
<1>5. CASE Ages
  <2>1. /\ source \in Sources /\ source' = [source EXCEPT !.fresh = FALSE]
        /\ UNCHANGED <<style, versions, call, doing, approved, agreed>>
    BY <1>5, RemovedIsGone DEF Ages, SourceInv, ToolsTypeOK, callVars
  <2>2. /\ source'.there = source.there /\ source'.version = source.version /\ source'.on = source.on
        /\ source'.catalog = source.catalog /\ source'.picks = source.picks
    BY <2>1 DEF Sources
  <2> QED BY <2>1, <2>2, CallUntouched
<1>6. ASSUME NEW h \in DOMAIN hunts, NeedsLogin(h) \/ HuntEnds(h) PROVE CallInv'
  <2>1. UNCHANGED <<style, source, versions, call, doing, approved, agreed>>
    BY <1>6 DEF NeedsLogin, HuntEnds, callVars
  <2> QED BY <2>1, CallUntouched
<1>7. ASSUME NEW h \in DOMAIN hunts, Found(h) PROVE CallInv'
  <2>1. UNCHANGED <<style, doing, approved, agreed>> BY <1>7 DEF Found
  <2>2. CASE NotOvertaken(h)
    <3>1. PICK c \in Catalog : SaveSource([source EXCEPT !.catalog = c, !.on = FALSE, !.picks = NoPicks, !.fresh = TRUE])
      BY <1>7, <2>2 DEF Found
    <3> DEFINE new == [source EXCEPT !.catalog = c, !.on = FALSE, !.picks = NoPicks, !.fresh = TRUE]
    <3>2. source \in Sources BY <2>2, RemovedIsGone DEF NotOvertaken, SourceInv, ToolsTypeOK
    <3>3. NoPicks \in [Tool -> {"off", "write", "ask", "session"}] /\ c \in Offered BY DEF NoPicks, Offered
    <3>4. new \in Sources BY <3>2, <3>3 DEF Sources
    <3>5. style # "page" BY DEF SourceInv, SourceFits
    <3> HIDE DEF new
    <3>6. SaveSource(new) BY <3>1 DEF new
    <3> QED BY <2>1, <3>4, <3>5, <3>6, SavingIsSeen
  <2>3. CASE ~NotOvertaken(h)
    BY <1>7, <2>1, <2>3, CallUntouched DEF Found
  <2> QED BY <2>2, <2>3
<1> QED BY <1>1, <1>2, <1>3, <1>4, <1>5, <1>6, <1>7

LEMMA BeginFits ==
  ASSUME SourceInv, CallInv, NEW t \in Tool, BeginCall(t)
  PROVE  CallInv' /\ SourceInv'
<1> DEFINE new == [at |-> IF ByGrant(t) THEN "connect" ELSE "asked", tool |-> t, version |-> source.version,
                   catalog |-> source.catalog, gen |-> doing.gen, cut |-> FALSE, yes |-> FALSE, clean |-> TRUE,
                   seen |-> Unknown]
<1>1. /\ call' = new /\ UNCHANGED <<style, serviceVars, approved, doing, agreed>>
      /\ source.there /\ source.on /\ t \notin doing.denied
  BY DEF BeginCall, Usable
<1>2. source \in Sources BY <1>1, RemovedIsGone DEF SourceInv, ToolsTypeOK
<1>3. doing \in Runs BY DEF SourceInv, ToolsTypeOK
<1>4. new \in CallRecords
  <2>1. source.version \in Nat /\ source.catalog \in Offered /\ doing.gen \in Nat /\ Unknown \in Offered
    BY <1>2, <1>3 DEF Sources, Runs, Offered
  <2> QED BY <2>1 DEF CallRecords, Underway
<1>5. SourceInv' BY <1>1, <1>3, <1>4, CallsLeaveSource
<1>6. ByGrant(t) => style # "page" /\ <<doing.session, source.version, t>> \in approved
  BY PageIsSource DEF ByGrant, Key, SourceInv, SourceFits
<1>7. /\ new.tool = t /\ new.version = source.version /\ new.catalog = source.catalog /\ new.gen = doing.gen
      /\ new.clean = TRUE /\ new.at \in {"connect", "asked"} /\ (new.at = "connect" => ByGrant(t))
  OBVIOUS
<1> HIDE DEF new
<1>8. CallIsRecent'
  BY <1>1, <1>3, <1>7 DEF serviceVars, CallIsRecent, Runs, SourceInv, SourceFits, ToolsTypeOK
<1>9. OffersMatch' BY <1>1, <1>7 DEF serviceVars, OffersMatch
<1>10. TracesRemain' BY <1>1, <1>7 DEF TracesRemain
<1>11. AgreedFirst' BY <1>1, <1>7 DEF AgreedFirst
<1>12. ApprovedFirst' BY <1>1, <1>6, <1>7 DEF ApprovedFirst, serviceVars
<1> QED BY <1>1, <1>5, <1>8, <1>9, <1>10, <1>11, <1>12 DEF CallInv

\* A step on the way from the question to the service.
LEMMA CallGoesOn ==
  ASSUME SourceInv, CallInv, UNCHANGED <<style, serviceVars, doing>>, call.at # "none", call' \in CallRecords,
         call'.tool = call.tool, call'.version = call.version, call'.catalog = call.catalog, call'.gen = call.gen,
         call'.cut = call.cut, call.at \in Underway, call'.at = "sent" \/ call'.clean = call.clean,
         AgreedFirst', ApprovedFirst', approved' \subseteq agreed'
  PROVE  CallInv' /\ SourceInv'
<1>1. SourceInv' BY CallsLeaveSource DEF SourceInv, ToolsTypeOK
<1>2. Same' <=> Same BY DEF Same, serviceVars
<1>3. CallIsRecent' BY DEF CallInv, CallIsRecent, serviceVars
<1>4. OffersMatch' BY <1>2 DEF CallInv, OffersMatch, serviceVars
<1>5. TracesRemain' BY <1>2 DEF CallInv, TracesRemain, Granted, Underway
<1> QED BY <1>1, <1>3, <1>4, <1>5 DEF CallInv

LEMMA DecideFits == ASSUME SourceInv, CallInv, Decide PROVE CallInv' /\ SourceInv'
<1>1. PICK yes \in BOOLEAN : call' = [call EXCEPT !.at = "answered", !.yes = yes]
  BY DEF Decide
<1>2. call.at = "asked" /\ UNCHANGED <<style, serviceVars, doing, approved>> BY DEF Decide
<1>3. call \in CallRecords BY <1>2, NoCallIsNone DEF SourceInv, ToolsTypeOK
<1>4. /\ call' \in CallRecords /\ call'.tool = call.tool /\ call'.version = call.version /\ call'.catalog = call.catalog
      /\ call'.gen = call.gen /\ call'.cut = call.cut /\ call'.clean = call.clean /\ call'.at = "answered"
  BY <1>1, <1>3 DEF CallRecords, Underway
<1>5. agreed' = IF call'.yes /\ Same /\ source.picks[call.tool] = "session" THEN agreed \cup {Key(call.tool)} ELSE agreed
  BY DEF Decide, Same
<1>6. AgreedFirst'
  <2> SUFFICES ASSUME call'.yes, Same', source'.picks[call'.tool] = "session" PROVE Key(call.tool)' \in agreed'
    BY <1>4 DEF AgreedFirst, Key
  <2>1. Same /\ source.picks[call.tool] = "session" /\ Key(call.tool)' = Key(call.tool)
    BY <1>2, <1>4 DEF Same, Key, serviceVars
  <2> QED BY <1>5, <2>1
<1>7. ApprovedFirst' BY <1>4 DEF ApprovedFirst
<1>8. approved' \subseteq agreed' BY <1>2, <1>5 DEF CallInv
<1>9. call.at # "none" /\ call.at \in Underway BY <1>2 DEF Underway
<1> QED BY <1>2, <1>4, <1>6, <1>7, <1>8, <1>9, CallGoesOn

LEMMA WokenFits == ASSUME SourceInv, CallInv, Woken PROVE CallInv' /\ SourceInv'
<1>1. /\ call.at = "answered" /\ call.yes /\ UNCHANGED <<style, serviceVars, doing, agreed>>
  BY DEF Woken
<1>2. call \in CallRecords BY <1>1, NoCallIsNone DEF SourceInv, ToolsTypeOK
<1>3. approved \subseteq approved' /\ approved' \subseteq agreed
  <2>1. CASE style = "mcp" /\ source.there /\ source.picks[call.tool] = "session" /\ Same
    <3>1. Key(call.tool) \in agreed BY <1>1, <2>1 DEF CallInv, AgreedFirst
    <3>2. approved' = approved \cup {Key(call.tool)} BY <2>1 DEF Woken
    <3> QED BY <3>1, <3>2 DEF CallInv
  <2>2. CASE ~(style = "mcp" /\ source.there /\ source.picks[call.tool] = "session" /\ Same)
    BY <2>2 DEF Woken, CallInv
  <2> QED BY <2>1, <2>2
<1>4. CASE call' = NoCall
  <2>1. SourceInv' BY <1>1, <1>4, CallsLeaveSource DEF SourceInv, ToolsTypeOK
  <2> QED BY <1>1, <1>3, <1>4, <2>1, NoCallFits
<1>5. CASE call' = [call EXCEPT !.at = CASE style = "mcp" -> "connect" [] style = "docs" -> "identity" [] style = "page" -> "sent"]
  <2>1. PICK at \in {"connect", "identity", "sent"} : call' = [call EXCEPT !.at = at] /\ (at # "sent" => style # "page")
    BY <1>5 DEF SourceInv, ToolsTypeOK
  <2>2. /\ call' \in CallRecords /\ call'.tool = call.tool /\ call'.version = call.version /\ call'.catalog = call.catalog
        /\ call'.gen = call.gen /\ call'.cut = call.cut /\ call'.clean = call.clean /\ call'.at = at /\ call'.yes = call.yes
    BY <1>2, <2>1 DEF CallRecords, Underway
  <2>3. AgreedFirst' BY <2>1, <2>2 DEF AgreedFirst
  <2>4. ApprovedFirst' BY <1>1, <2>1, <2>2 DEF ApprovedFirst
  <2>5. call.at # "none" /\ call.at \in Underway BY <1>1 DEF Underway
  <2> QED BY <1>1, <1>3, <2>2, <2>3, <2>4, <2>5, CallGoesOn
<1> QED BY <1>4, <1>5 DEF Woken

LEMMA PassingFits == ASSUME SourceInv, CallInv, Identified \/ Lists PROVE CallInv' /\ SourceInv'
<1>1. call.at \in {"identity", "connect"} /\ UNCHANGED <<style, serviceVars, approved, doing, agreed>>
  BY DEF Identified, Lists
<1>2. call \in CallRecords BY <1>1, NoCallIsNone DEF SourceInv, ToolsTypeOK
<1>3. /\ call' \in CallRecords /\ call'.tool = call.tool /\ call'.version = call.version /\ call'.catalog = call.catalog
      /\ call'.gen = call.gen /\ call'.cut = call.cut /\ call'.clean = call.clean /\ call'.at \in {"connect", "listed"}
      /\ call'.yes = call.yes
  <2>1. CASE Identified BY <1>2, <2>1 DEF Identified, CallRecords, Underway
  <2>2. CASE Lists
    <3>1. PICK c \in Catalog : call' = [call EXCEPT !.at = "listed", !.seen = c] BY <2>2 DEF Lists
    <3>2. c \in Offered BY DEF Offered
    <3> QED BY <1>2, <3>1, <3>2 DEF CallRecords, Underway
  <2> QED BY <2>1, <2>2
<1>4. AgreedFirst' BY <1>3 DEF AgreedFirst
<1>5. ApprovedFirst' BY <1>1, <1>3 DEF CallInv, ApprovedFirst
<1>6. call.at # "none" /\ call.at \in Underway BY <1>1 DEF Underway
<1> QED BY <1>1, <1>3, <1>4, <1>5, <1>6, CallGoesOn DEF CallInv

LEMMA SendFits == ASSUME SourceInv, CallInv, Send PROVE CallInv' /\ SourceInv'
<1>1. /\ call.at = "listed" /\ UNCHANGED <<style, serviceVars, approved, doing, agreed>>
      /\ call' = [call EXCEPT !.at = "sent", !.seen = Unknown, !.clean = FALSE]
  BY DEF Send
<1>2. call \in CallRecords /\ Unknown \in Offered BY <1>1, NoCallIsNone DEF SourceInv, ToolsTypeOK, Offered
<1>3. /\ call' \in CallRecords /\ call'.tool = call.tool /\ call'.version = call.version /\ call'.catalog = call.catalog
      /\ call'.gen = call.gen /\ call'.cut = call.cut /\ call'.at = "sent"
  BY <1>1, <1>2 DEF CallRecords, Underway
<1>4. AgreedFirst' /\ ApprovedFirst' BY <1>3 DEF AgreedFirst, ApprovedFirst
<1>5. call.at # "none" /\ call.at \in Underway BY <1>1 DEF Underway
<1> QED BY <1>1, <1>3, <1>4, <1>5, CallGoesOn DEF CallInv

LEMMA EndingFits == ASSUME SourceInv, CallInv, Declined \/ Ends PROVE CallInv' /\ SourceInv'
<1>1. call' = NoCall /\ UNCHANGED <<style, serviceVars, approved, agreed>> BY DEF Declined, Ends, Stop
<1>2. doing' \in Runs
  <2>1. CASE Ends BY <2>1 DEF Ends, SourceInv, ToolsTypeOK
  <2>2. CASE Declined
    <3>1. call.at # "none" BY <2>2 DEF Declined
    <3>2. call \in CallRecords BY <3>1, NoCallIsNone DEF SourceInv, ToolsTypeOK
    <3>3. call.tool \in Tool BY <3>2 DEF CallRecords
    <3> QED BY <2>2, <3>3 DEF Declined, Runs, SourceInv, ToolsTypeOK
  <2> QED BY <2>1, <2>2
<1> QED BY <1>1, <1>2, NoCallFits, NoCallIsNone, CallsLeaveSource DEF CallInv

-----------------------------------------------------------------------------
(* The controls. *)

\* What happens to the run leaves the rest of the call alone.
LEMMA ControlsAreSeen ==
  ASSUME SourceInv, CallInv, UNCHANGED <<style, serviceVars, approved, agreed>>, doing' \in Runs,
         doing'.gen >= doing.gen, doing'.denied = doing.denied, doing'.session = doing.session,
         call.at = "none" => call' = NoCall,
         call.at # "none" => /\ call' \in CallRecords /\ call'.at = call.at /\ call'.tool = call.tool /\ call'.yes = call.yes
                            /\ call'.version = call.version /\ call'.catalog = call.catalog /\ call'.gen = call.gen,
         TracesRemain'
  PROVE  CallInv' /\ SourceInv'
<1>1. SourceInv' BY CallsLeaveSource DEF SourceInv, ToolsTypeOK
<1>2. CASE call.at = "none" BY <1>1, <1>2, NoCallFits DEF CallInv
<1>3. CASE call.at # "none"
  <2>1. call \in CallRecords /\ doing \in Runs BY <1>3 DEF SourceInv, ToolsTypeOK, NoCall
  <2>2. call.gen \in Nat /\ doing.gen \in Nat /\ doing'.gen \in Nat BY <2>1 DEF CallRecords, Runs
  <2>3. CallIsRecent' BY <1>3, <2>2 DEF CallInv, CallIsRecent, serviceVars
  <2>4. Same' <=> Same BY <1>3 DEF Same, serviceVars
  <2>5. OffersMatch' BY <1>3, <2>4 DEF CallInv, OffersMatch, serviceVars
  <2>6. AgreedFirst' BY <1>3, <2>4 DEF CallInv, AgreedFirst, Key, serviceVars
  <2>7. ApprovedFirst' BY <1>3 DEF CallInv, ApprovedFirst
  <2> QED BY <1>1, <2>3, <2>5, <2>6, <2>7 DEF CallInv
<1> QED BY <1>2, <1>3

\* A cut is one more way of being disturbed.
LEMMA CutIsSame ==
  ASSUME ToolsTypeOK, call' = CutCall
  PROVE  /\ call.at = "none" => call' = NoCall /\ call = NoCall
         /\ call.at # "none" => /\ call'.at = call.at /\ call'.version = call.version /\ call'.gen = call.gen
                               /\ call'.tool = call.tool /\ call'.yes = call.yes /\ call'.catalog = call.catalog
                               /\ call'.cut = TRUE /\ call' \in CallRecords
  BY NoCallIsNone DEF ToolsTypeOK, CutCall, CallRecords

LEMMA ControlFits ==
  ASSUME SourceInv, CallInv, NEW kind \in {"steer", "pause", "cancel"}, Control(kind)
  PROVE  CallInv' /\ SourceInv'
<1>1. /\ UNCHANGED <<style, serviceVars, approved, agreed>>
      /\ doing' = [doing EXCEPT !.gen = doing.gen + 1, !.paused = doing.paused \/ kind = "pause", !.ended = kind = "cancel"]
      /\ call' = Disturbed(call) \/ call' = CutCall
  BY DEF Control
<1>2. doing \in Runs /\ doing.gen \in Nat BY DEF SourceInv, ToolsTypeOK, Runs
<1>3. /\ doing' \in Runs /\ doing'.gen = doing.gen + 1 /\ doing'.denied = doing.denied /\ doing'.session = doing.session
  <2>1. \A g \in Nat, p, e \in BOOLEAN : LET new == [doing EXCEPT !.gen = g, !.paused = p, !.ended = e] IN
           new \in Runs /\ new.gen = g /\ new.denied = doing.denied /\ new.session = doing.session
    BY <1>2 DEF Runs
  <2>2. doing.gen + 1 \in Nat /\ (doing.paused \/ kind = "pause") \in BOOLEAN /\ (kind = "cancel") \in BOOLEAN
    BY <1>2
  <2> QED BY <1>1, <2>1, <2>2
<1>4. /\ call.at = "none" => call' = NoCall
      /\ call.at # "none" => /\ call' \in CallRecords /\ call'.at = call.at /\ call'.tool = call.tool /\ call'.yes = call.yes
                            /\ call'.version = call.version /\ call'.catalog = call.catalog /\ call'.gen = call.gen
  BY <1>1, DisturbedIsSame, CutIsSame DEF SourceInv
<1>5. TracesRemain'
  <2>1. CASE call.at = "none" BY <1>4, <2>1, NoCallIsNone DEF TracesRemain, Underway
  <2>2. CASE call.at # "none"
    <3>1. call \in CallRecords BY <2>2 DEF SourceInv, ToolsTypeOK, NoCall
    <3>2. call.gen \in Nat /\ call.gen <= doing.gen BY <2>2, <3>1 DEF CallRecords, CallInv, CallIsRecent
    <3>3. call'.gen # doing'.gen BY <1>2, <1>3, <1>4, <2>2, <3>2
    <3> QED BY <3>3 DEF TracesRemain
  <2> QED BY <2>1, <2>2
<1>6. doing'.gen >= doing.gen BY <1>2, <1>3
<1> QED BY <1>1, <1>3, <1>4, <1>5, <1>6, ControlsAreSeen

LEMMA ResumeFits == ASSUME SourceInv, CallInv, Resume PROVE CallInv' /\ SourceInv'
<1>1. UNCHANGED <<style, serviceVars, call, approved, agreed>> /\ doing' = [doing EXCEPT !.paused = FALSE]
  BY DEF Resume
<1>2. doing \in Runs /\ doing.gen \in Nat BY DEF SourceInv, ToolsTypeOK, Runs
<1>3. /\ doing' \in Runs /\ doing'.gen = doing.gen /\ doing'.denied = doing.denied /\ doing'.session = doing.session
      /\ doing'.ended = doing.ended /\ doing'.full = doing.full /\ doing'.revoked = doing.revoked
  BY <1>1, <1>2 DEF Runs
<1>4. TracesRemain' BY <1>1, <1>3 DEF CallInv, TracesRemain, Granted, Same, serviceVars
<1>5. /\ call.at = "none" => call' = NoCall
      /\ call.at # "none" => call' \in CallRecords
  BY <1>1, NoCallIsNone DEF SourceInv, ToolsTypeOK
<1>6. doing'.gen >= doing.gen BY <1>2, <1>3
<1> QED BY <1>1, <1>3, <1>4, <1>5, <1>6, ControlsAreSeen

LEMMA CancelFits == ASSUME SourceInv, CallInv, CancelCuts PROVE CallInv' /\ SourceInv'
<1>1. UNCHANGED <<style, serviceVars, doing, approved, agreed>> /\ call' = CutCall /\ call.at # "none"
  BY DEF CancelCuts
<1>2. doing \in Runs /\ doing.gen \in Nat BY DEF SourceInv, ToolsTypeOK, Runs
<1>3. TracesRemain' BY <1>1, CutIsSame DEF TracesRemain, SourceInv
<1> QED BY <1>1, <1>2, <1>3, CutIsSame, ControlsAreSeen DEF SourceInv

LEMMA RevocationFits == ASSUME SourceInv, CallInv, RevokeGrant PROVE CallInv' /\ SourceInv'
<1>1. /\ UNCHANGED <<style, serviceVars, approved, agreed>> /\ doing' = [doing EXCEPT !.revoked = TRUE] /\ doing.full
      /\ call' = IF style = "docs" THEN call ELSE Disturbed(call)
  BY DEF RevokeGrant
<1>2. doing \in Runs /\ doing.gen \in Nat BY DEF SourceInv, ToolsTypeOK, Runs
<1>3. /\ doing' \in Runs /\ doing'.gen = doing.gen /\ doing'.denied = doing.denied /\ doing'.session = doing.session
      /\ doing'.full /\ doing'.revoked /\ doing'.ended = doing.ended
  BY <1>1, <1>2 DEF Runs
<1>4. TracesRemain'
  <2>1. CASE style = "docs" BY <1>1, <1>3, <2>1 DEF CallInv, TracesRemain, Same, serviceVars
  <2>2. CASE style # "docs" BY <1>1, <1>3, <2>2 DEF TracesRemain, Granted
  <2> QED BY <2>1, <2>2
<1>5. /\ call.at = "none" => call' = NoCall
      /\ call.at # "none" => /\ call' \in CallRecords /\ call'.at = call.at /\ call'.tool = call.tool /\ call'.yes = call.yes
                            /\ call'.version = call.version /\ call'.catalog = call.catalog /\ call'.gen = call.gen
  BY <1>1, DisturbedIsSame, NoCallIsNone DEF SourceInv, ToolsTypeOK
<1>6. doing'.gen >= doing.gen BY <1>2, <1>3
<1> QED BY <1>1, <1>3, <1>4, <1>5, <1>6, ControlsAreSeen

LEMMA NextRunFits == ASSUME SourceInv, CallInv, NextRun PROVE CallInv' /\ SourceInv'
<1>1. call.at = "none" /\ UNCHANGED <<style, serviceVars, call, approved, agreed>> BY DEF NextRun
<1>2. PICK s \in Session : doing' = [doing EXCEPT !.session = s, !.gen = 0, !.paused = FALSE, !.ended = FALSE,
                                                 !.denied = {}, !.full = FALSE, !.readonly = FALSE]
  BY DEF NextRun
<1>3. doing' \in Runs BY <1>2 DEF SourceInv, ToolsTypeOK, Runs
<1>4. call = NoCall BY <1>1, NoCallIsNone DEF SourceInv, ToolsTypeOK
<1> QED BY <1>1, <1>3, <1>4, NoCallFits, CallsLeaveSource DEF CallInv

-----------------------------------------------------------------------------
(* Every step, and the theorems. *)

LEMMA ToolsStep ==
  ASSUME SourceInv, CallInv, [ToolsNext]_toolVars
  PROVE  SourceInv' /\ CallInv'
<1>1. CASE \/ CreateSource \/ Select \/ Hunts \/ Callback \/ RemoveSource \/ RemoveNow \/ RemoveGoesOn \/ Ages
           \/ \E h \in DOMAIN hunts : NeedsLogin(h) \/ Found(h) \/ HuntEnds(h)
  <2>1. CallInv' BY <1>1, ConfigurationIsSeen
  <2>2. SourceInv'
    <3>1. CASE Callback \/ RemoveSource
      <4>1. task \in DOMAIN hunts BY <3>1 DEF Callback, RemoveSource, HuntOver, SourceInv, ToolsTypeOK
      <4> QED BY <3>1, <4>1, HuntsGoOn
    <3>2. CASE \E h \in DOMAIN hunts : NeedsLogin(h) \/ Found(h) \/ HuntEnds(h)
      BY <3>2, HuntsGoOn, FoundFits
    <3>3. CASE CreateSource \/ Select \/ Hunts
      BY <3>3, CreateFits, SelectFits, HuntsBegin
    <3>4. CASE RemoveNow \/ RemoveGoesOn \/ Ages
      BY <3>4, RemovalFits, AgesFits
    <3> QED BY <1>1, <3>1, <3>2, <3>3, <3>4
  <2> QED BY <2>1, <2>2
<1>2. CASE Decide \/ Declined \/ Woken \/ Identified \/ Lists \/ Send \/ Ends
  BY <1>2, DecideFits, WokenFits, PassingFits, SendFits, EndingFits
<1>3. CASE Resume \/ CancelCuts \/ RevokeGrant \/ NextRun
  BY <1>3, ResumeFits, CancelFits, RevocationFits, NextRunFits
<1>4. ASSUME NEW t \in Tool, BeginCall(t) PROVE SourceInv' /\ CallInv'
  BY <1>4, BeginFits
<1>5. ASSUME NEW kind \in {"steer", "pause", "cancel"}, Control(kind) PROVE SourceInv' /\ CallInv'
  BY <1>5, ControlFits
<1>6. CASE UNCHANGED toolVars
  <2>1. UNCHANGED <<style, serviceVars, call, doing, approved, agreed>> BY <1>6 DEF toolVars, callVars
  <2>2. SourceInv' BY <2>1, CallsLeaveSource DEF SourceInv, ToolsTypeOK
  <2>3. CallInv' BY <2>1, CallUntouched DEF serviceVars
  <2> QED BY <2>2, <2>3
<1> QED BY <1>1, <1>2, <1>3, <1>4, <1>5, <1>6 DEF ToolsNext

LEMMA ToolsStart == ASSUME ToolsInit PROVE SourceInv /\ CallInv
<1>1. SourceInv BY SourceInit
<1>2. call = NoCall /\ approved = {} BY DEF ToolsInit
<1>3. CallInv
  BY <1>2, NoCallIsNone DEF CallInv, CallIsRecent, OffersMatch, TracesRemain, AgreedFirst, ApprovedFirst, Underway
<1> QED BY <1>1, <1>3

LEMMA ToolsHold == ToolsSpec => [](SourceInv /\ CallInv)
<1>1. ToolsInit => SourceInv /\ CallInv BY ToolsStart
<1>2. (SourceInv /\ CallInv) /\ [ToolsNext]_toolVars => (SourceInv /\ CallInv)' BY ToolsStep
<1> QED BY <1>1, <1>2, PTL DEF ToolsSpec

\* The variables of a service, of its connections and of the call keep their types.
THEOREM ToolsTypeCorrect == ToolsSpec => []ToolsTypeOK
<1>1. SourceInv => ToolsTypeOK BY DEF SourceInv
<1> QED BY <1>1, ToolsHold, PTL

\* What the user chose last stays, however many connections were begun before it
\* and whenever they end (discover, remove and select, integration_mcp.py:156-295).
THEOREM ChoicesStand == ToolsSpec => []ChoiceStands
<1>1. SourceInv => ChoiceStands BY DEF SourceInv
<1> QED BY <1>1, ToolsHold, PTL

\* One step sends a call only as agreed.
LEMMA SentStep ==
  ASSUME SourceInv, CallInv, [ToolsNext]_toolVars, call'.at = "sent", call.at # "sent"
  PROVE  /\ call.clean /\ call.tool \notin doing.denied
         /\ style # "page" => call.seen = source.catalog /\ source.on
         /\ call.yes \/ Key(call.tool) \in agreed
<1>1. (Woken /\ style = "page") \/ Send
  <2>1. \/ call' = call \/ call' = Disturbed(call) \/ call' = CutCall \/ call' = NoCall
        \/ (\E t \in Tool : BeginCall(t)) \/ Decide \/ Woken \/ Identified \/ Lists \/ Send
    BY DEF ToolsNext, toolVars, callVars, CreateSource, Select, SaveSource, Hunts, Callback, RemoveSource, RemoveNow, RemoveGoesOn,
           Delete, Ages, NeedsLogin, Found, HuntEnds, Declined, Ends, Stop, Control, Resume, CancelCuts, RevokeGrant, NextRun
  <2>2. ~(call' = call \/ call' = Disturbed(call) \/ call' = CutCall \/ call' = NoCall)
    BY DisturbedIsSame, CutIsSame, NoCallIsNone DEF SourceInv
  <2>3. ~(\E t \in Tool : BeginCall(t)) BY DEF BeginCall
  <2>4. call.at # "none" => call \in CallRecords BY DEF SourceInv, ToolsTypeOK, NoCall
  <2>5. ~Decide /\ ~Identified /\ ~Lists BY <2>4 DEF Decide, Identified, Lists, CallRecords
  <2>6. Woken => style = "page"
    BY <2>2, <2>4 DEF Woken, CallRecords, SourceInv, ToolsTypeOK
  <2> QED BY <2>1, <2>2, <2>3, <2>5, <2>6
<1>2. call.at \in Underway /\ call.at # "none" /\ ~call.cut /\ Guard
  BY <1>1 DEF Woken, Send, StillAgreed, Underway
<1>3. call \in CallRecords BY <1>2 DEF SourceInv, ToolsTypeOK, NoCall
<1>4. call.tool \notin doing.denied BY <1>2 DEF CallInv, CallIsRecent
<1>5. CASE Woken /\ style = "page"
  <2>1. StillAgreed /\ call.yes
    BY <1>5, NoCallIsNone DEF Woken
  <2>2. Granted BY <1>5, <2>1 DEF StillAgreed
  <2>3. call.clean BY <1>2, <1>5, <2>2 DEF CallInv, TracesRemain, Guard
  <2> QED BY <1>4, <1>5, <2>1, <2>3
<1>6. CASE Send
  <2>1. call.at = "listed" /\ call.seen = call.catalog /\ StillAgreed BY <1>6 DEF Send
  <2>2. style # "page" BY <2>1 DEF CallInv, ApprovedFirst
  <2>3. Same /\ (style # "docs" => Granted)
    BY <2>1, <2>2 DEF StillAgreed, Usable, Same, SourceInv, ToolsTypeOK
  <2>4. source.on /\ source.catalog = call.catalog BY <1>2, <2>2, <2>3 DEF CallInv, OffersMatch
  <2>5. call.clean BY <1>2, <2>2, <2>3 DEF CallInv, TracesRemain, Guard
  <2>6. call.yes \/ Key(call.tool) \in agreed
    BY <2>1, <2>3 DEF CallInv, ApprovedFirst, Key, Same
  <2> QED BY <1>4, <2>1, <2>4, <2>5, <2>6
<1> QED BY <1>1, <1>5, <1>6

\* A call goes out only as the user agreed to it, whatever controls, choices,
\* removals and connections come between the question and the sending (execute,
\* integration_mcp.py:297, documentation_mcp.py:144).
THEOREM CallsGoOutAsAgreed == ToolsSpec => SentAsAgreed
<1>1. SourceInv /\ CallInv /\ [ToolsNext]_toolVars =>
        [call'.at = "sent" /\ call.at # "sent" =>
           /\ call.clean /\ call.tool \notin doing.denied
           /\ style # "page" => call.seen = source.catalog /\ source.on
           /\ call.yes \/ Key(call.tool) \in agreed]_toolVars
  BY SentStep
<1> QED BY <1>1, ToolsHold, PTL DEF ToolsSpec, SentAsAgreed

-----------------------------------------------------------------------------
(* Sandbox. *)

\* One service, and neither a first grant nor a clean-up under way fails.
Single == ~Flaky /\ \A a, b \in Account : a = b

Entries == [who : Person \cup Lease, kind : {"user", "full", "narrow"}]
Users(entries) == {e \in entries : e.who \notin Lease}
Records == [kept : {TRUE}, base : Account, owner : BOOLEAN, host : BOOLEAN, known : SUBSET {"root", "secret"},
            cut : SUBSET {"root", "secret"}, copies : [Object -> SUBSET Entries]]
Arms == {"grant", "root", "secret"}
Readied == {"ready", "bound", "run"}
Calm == [at : {"idle", "recover", "scanned", "saved", "over", "close"} \cup Arms \cup Readied]
Cleanings == [at : {"wait", "clean"}, of : Lease, then : {"recover", "idle"}, step : 1..4]

\* The variables hold what they are meant to (windows_sandbox.py).
SandboxTypeOK ==
  /\ home \in [Lease -> Account]
  /\ own \in [Object -> SUBSET Entries] /\ sealed \subseteq {"root", "secret"}
  /\ journal \in [Lease -> {NoJournal} \cup Records]
  /\ hosted \in [Lease -> BOOLEAN] /\ program \in [Lease -> BOOLEAN]
  /\ up \subseteq Account /\ work \in [Actor -> Calm \cup Cleanings] /\ mutex \in Actor \cup {Nobody}
  /\ plain \in [own : [Object -> SUBSET Entries], cut : SUBSET {"secret"}]

\* Its states were read, so that it may have changed lists.
Entered(l) == journal[l].kept /\ journal[l].known # {}
Armed(l) == {"root", "secret"} \subseteq sealed /\ Of(l, own["root"]) = {Entry(l, "narrow")}

\* While the service is up no record is left of before.
RecordFits ==
  \A l \in Lease :
    /\ Entered(l) => journal[l].known = {"root", "secret"} /\ journal[l].cut = plain.cut
    /\ journal[l].kept /\ up # {} => journal[l].owner

StageFits ==
  \A l \in Lease :
    /\ work[l].at \in {"recover", "scanned"} => ~journal[l].kept
    /\ work[l].at = "saved" => journal[l].kept /\ journal[l].known = {}
    /\ work[l].at \in Arms \cup Readied => Entered(l)
    /\ work[l].at \in Readied => Armed(l) /\ (work[l].at # "ready" => journal[l].host)
    /\ work[l].at \in {"wait", "clean"} => work[l].of = l /\ work[l].then = "idle"
    /\ work[l].at # "idle" => up # {}

\* A program runs under a grant that is complete, and nobody thinks it gone.
ProgramFits ==
  \A l \in Lease : program[l] =>
    Entered(l) /\ Armed(l) /\ journal[l].host /\ hosted[l] /\ work[l].at \in {"run", "over", "idle"}

AccountRests ==
  \A a \in Account : (a \in up => work[a].at = "idle") /\ work[a].at \in {"idle", "recover", "wait", "clean"}

MutexHeld == \A a \in Actor : work[a].at \in Arms \cup {"clean"} => mutex = a

\* How far a clean-up has come.
CleanFits ==
  \A a \in Actor, l \in Lease : work[a].at \in {"wait", "clean"} /\ work[a].of = l =>
    /\ journal[l].kept /\ ~program[l]
    /\ work[a].at = "wait" => work[a].step = 1
    /\ work[a].step >= 2 => Of(l, own["root"]) = {}
    /\ work[a].step >= 3 /\ Entered(l) => "root" \notin sealed
    /\ work[a].step = 4 /\ Entered(l) => sealed = plain.cut

OnlyOne ==
  /\ Users(own["top"]) = own["top"] /\ Users(own["secret"]) = own["secret"]
  /\ \A e \in own["root"] : e.who \in Lease => Entered(e.who)
  /\ \A k, l \in Lease : Entered(k) /\ Entered(l) => k = l

GrantShows ==
  \A l \in Lease :
    Entered(l) /\ up # {} /\ work[l].at # "grant" /\ ~(work[l].at = "clean" /\ work[l].step >= 2)
    => Of(l, own["root"]) # {}

\* The lists are the users' but for one lease's entry, seals and copies.
ListsFit ==
  /\ plain.cut \subseteq sealed /\ ((\A l \in Lease : ~Entered(l)) => sealed = plain.cut)
  /\ \A o \in Object : o \in plain.cut \/ o \notin sealed => Users(own[o]) = plain.own[o]
  /\ \A o \in Object, l \in Lease :
       o \in sealed \ plain.cut /\ Entered(l) => Users(own[o]) \ journal[l].copies[o] = plain.own[o]

\* The states read are still those of the disk until the lists are narrowed.
ArmingFits ==
  \A l \in Lease : work[l].at \in Arms =>
    /\ IF work[l].at = "secret" THEN "root" \in sealed /\ Of(l, own["root"]) = {Entry(l, "narrow")}
       ELSE "root" \notin sealed /\ journal[l].copies["root"] = own["top"] /\ own["root"] \cap own["top"] = {}
    /\ "secret" \in sealed <=> "secret" \in plain.cut
    /\ "secret" \notin plain.cut =>
         /\ journal[l].copies["secret"] = Users(Reach(own, sealed)["root"])
         /\ own["secret"] \cap journal[l].copies["secret"] = {}

\* A list that was sealed before, or is not yet read, has no copies.
CopiesFit ==
  \A l \in Lease, o \in Object :
    journal[l].kept /\ (o \in plain.cut \/ ~Entered(l)) => journal[l].copies[o] = {}

SandboxInv ==
  /\ SandboxTypeOK /\ RecordFits /\ StageFits /\ ProgramFits /\ AccountRests /\ MutexHeld /\ CleanFits
  /\ OnlyOne /\ GrantShows /\ ListsFit /\ ArmingFits

-----------------------------------------------------------------------------
(* The operators. *)

LEMMA ReachIs ==
  ASSUME NEW list, NEW off
  PROVE  /\ Reach(list, off)["top"] = list["top"]
         /\ Reach(list, off)["root"] = list["root"] \cup IF "root" \in off THEN {} ELSE list["top"]
         /\ Reach(list, off)["secret"] = list["secret"] \cup IF "secret" \in off THEN {} ELSE Reach(list, off)["root"]
  BY DEF Reach, Object

LEMMA SealedReach ==
  ASSUME NEW list, NEW off, "root" \in off PROVE Reach(list, off)["root"] = list["root"]
<1>1. Reach(list, off)["root"] = list["root"] \cup {} BY ReachIs
<1> QED BY <1>1

LEMMA EntriesOf ==
  ASSUME NEW l \in Lease
  PROVE  /\ Entry(l, "full") \in Entries /\ Entry(l, "narrow") \in Entries
         /\ Entry(l, "full").who = l /\ Entry(l, "narrow").who = l
         /\ \A p \in Person : Entry(p, "user") \in Entries /\ Entry(p, "user").who = p /\ p \notin Lease
  BY SandboxShape DEF Entry, Entries

\* What the lists reach as long as they are typed.
LEMMA ReachTyped ==
  ASSUME SandboxTypeOK, NEW o \in Object
  PROVE  Reach(own, sealed)[o] \subseteq Entries
  BY ReachIs DEF SandboxTypeOK, Object

LEMMA ActorsDiffer ==
  /\ Lease \subseteq Actor /\ Account \subseteq Actor /\ Nobody \notin Actor
  /\ \A a \in Actor : a \in Lease <=> a \notin Account
  BY SandboxShape DEF Actor

LEMMA NothingKept == NoJournal.kept = FALSE /\ NoJournal \notin Records
  BY DEF NoJournal, Records

\* Nobody stands between two accounts.
LEMMA OneService ==
  ASSUME Single, SandboxTypeOK
  PROVE  /\ \A a \in Actor, b \in Account : Base(a) = b
         /\ \A a \in Account : up # {} <=> a \in up
         /\ \A l \in Lease, a \in Account : journal[l].kept => journal[l].base = a
<1>1. \A a \in Actor, b \in Account : Base(a) = b
  BY SandboxShape DEF Single, SandboxTypeOK, Base, Actor
<1>2. \A a \in Account : up # {} <=> a \in up
  BY DEF Single, SandboxTypeOK
<1>3. ASSUME NEW l \in Lease, NEW a \in Account, journal[l].kept PROVE journal[l].base = a
  <2>1. journal[l] \in Records BY <1>3, NothingKept DEF SandboxTypeOK
  <2> QED BY <2>1 DEF Single, Records
<1> QED BY <1>1, <1>2, <1>3

-----------------------------------------------------------------------------
(* Steps that leave lists and journal alone. *)

LEMMA Turns ==
  ASSUME SandboxInv, UNCHANGED <<home, own, sealed, journal, program, up, plain>>,
         NEW a \in Actor, NEW w \in Calm \cup Cleanings, work' = [work EXCEPT ![a] = w],
         hosted' \in [Lease -> BOOLEAN], \A l \in Lease : hosted[l] => hosted'[l],
         mutex' \in Actor \cup {Nobody}, MutexHeld',
         w.at \notin Arms \cup Readied \cup {"saved"},
         a \in Lease => /\ w.at \in {"recover", "scanned"} => ~journal[a].kept
                        /\ program[a] => w.at \in {"over", "idle"}
                        /\ w.at \in {"wait", "clean"} => w.of = a /\ w.then = "idle"
                        /\ w.at # "idle" => up # {}
                        /\ work[a].at # "grant" /\ ~(work[a].at = "clean" /\ work[a].step >= 2),
         a \in Account => a \notin up /\ w.at \in {"idle", "recover", "wait", "clean"},
         w.at \in {"wait", "clean"} => journal[w.of].kept /\ ~program[w.of] /\ w.step = 1
  PROVE  SandboxInv'
<1>1. /\ work'[a] = w /\ \A b \in Actor : b # a => work'[b] = work[b]
      /\ \A l \in Lease : Entered(l)' = Entered(l) /\ Armed(l)' = Armed(l)
  BY DEF SandboxInv, SandboxTypeOK, Entered, Armed
<1>2. \A l \in Lease : l \in Actor BY ActorsDiffer
<1>3. SandboxTypeOK' BY DEF SandboxInv, SandboxTypeOK
<1>4. RecordFits' BY <1>1 DEF SandboxInv, RecordFits
<1>5. StageFits' BY <1>1, <1>2 DEF SandboxInv, StageFits
<1>6. ProgramFits' BY <1>1, <1>2 DEF SandboxInv, ProgramFits
<1>7. AccountRests' BY <1>1, ActorsDiffer DEF SandboxInv, AccountRests
<1>8. CleanFits'
  <2> SUFFICES ASSUME NEW b \in Actor, NEW l \in Lease, work'[b].at \in {"wait", "clean"}, work'[b].of = l
               PROVE  /\ journal[l].kept /\ ~program[l]
                      /\ work'[b].at = "wait" => work'[b].step = 1
                      /\ work'[b].step >= 2 => Of(l, own["root"]) = {}
                      /\ work'[b].step >= 3 /\ Entered(l) => "root" \notin sealed
                      /\ work'[b].step = 4 /\ Entered(l) => sealed = plain.cut
    BY <1>1 DEF CleanFits
  <2>1. CASE b = a BY <1>1, <2>1
  <2>2. CASE b # a
    <3>1. work'[b] = work[b] BY <1>1, <2>2
    <3> QED BY <3>1 DEF SandboxInv, CleanFits
  <2> QED BY <2>1, <2>2
<1>9. OnlyOne' BY <1>1 DEF SandboxInv, OnlyOne, Entered
<1>10. GrantShows'
  <2> SUFFICES ASSUME NEW l \in Lease, Entered(l), up # {}, work'[l].at # "grant",
                      ~(work'[l].at = "clean" /\ work'[l].step >= 2)
               PROVE  Of(l, own["root"]) # {}
    BY <1>1 DEF GrantShows
  <2> QED BY <1>1, <1>2 DEF SandboxInv, GrantShows
<1>11. ListsFit' BY <1>1 DEF SandboxInv, ListsFit, Entered
<1>12. ArmingFits' BY <1>1, <1>2 DEF SandboxInv, ArmingFits
<1> QED BY <1>3, <1>4, <1>5, <1>6, <1>7, <1>8, <1>9, <1>10, <1>11, <1>12 DEF SandboxInv

\* Whoever changes lists holds the mutex, so nobody else does.
LEMMA BeginTurns == ASSUME Single, SandboxInv, NEW a \in Actor, Begin(a) PROVE SandboxInv'
<1>1. /\ UNCHANGED <<home, own, sealed, journal, program, up, plain, mutex>> /\ work' = [work EXCEPT ![a] = [at |-> "recover"]]
      /\ work[a].at = "idle"
  BY DEF Begin, Go, Doing, Resting
<1>2. [at |-> "recover"] \in Calm BY DEF Calm
<1>3. hosted' \in [Lease -> BOOLEAN] /\ (\A l \in Lease : hosted[l] => hosted'[l])
  BY DEF Begin, SandboxInv, SandboxTypeOK
<1>4. a \in Lease => up # {} /\ ~journal[a].kept /\ ~program[a]
  BY DEF Begin, SandboxInv, ProgramFits
<1>5. a \in Account => a \notin up
  BY ActorsDiffer DEF Begin
<1>6. MutexHeld' /\ mutex' \in Actor \cup {Nobody}
  BY <1>1 DEF SandboxInv, MutexHeld, SandboxTypeOK, Arms
<1> DEFINE w == [at |-> "recover"]
<1>7. w.at = "recover" OBVIOUS
<1> HIDE DEF w
<1>8. w \in Calm \cup Cleanings /\ work' = [work EXCEPT ![a] = w] BY <1>1, <1>2 DEF w
<1> QED BY <1>1, <1>3, <1>4, <1>5, <1>6, <1>7, <1>8, Turns DEF Arms, Readied

LEMMA RefuseTurns == ASSUME Single, SandboxInv, NEW a \in Actor, Refuse(a) PROVE SandboxInv'
<1> DEFINE w == [at |-> After(a)]
<1>1. /\ UNCHANGED <<home, own, sealed, journal, hosted, program, up, plain, mutex>> /\ work' = [work EXCEPT ![a] = w]
      /\ work[a].at = "recover"
  BY DEF Refuse, Go, Doing
<1>2. w.at = After(a) /\ w \in Calm BY DEF Calm, After
<1> HIDE DEF w
<1>3. a \in Lease => up # {} /\ ~program[a] /\ After(a) = "over"
  BY <1>1 DEF SandboxInv, ProgramFits, StageFits, After
<1>4. a \in Account => a \notin up /\ After(a) = "idle"
  BY <1>1, ActorsDiffer DEF SandboxInv, AccountRests, After
<1>5. MutexHeld' /\ mutex' \in Actor \cup {Nobody} /\ w.at \in {"over", "idle"}
  BY <1>1, <1>2 DEF SandboxInv, MutexHeld, SandboxTypeOK, Arms, After
<1>6. hosted' \in [Lease -> BOOLEAN] BY <1>1 DEF SandboxInv, SandboxTypeOK
<1> QED BY <1>1, <1>2, <1>3, <1>4, <1>5, <1>6, Turns DEF Arms, Readied

LEMMA RecoveredTurns == ASSUME Single, SandboxInv, NEW a \in Lease, Recovered(a) PROVE SandboxInv'
<1> DEFINE w == [at |-> "scanned"]
<1>1. /\ UNCHANGED <<home, own, sealed, journal, hosted, program, up, plain, mutex>> /\ work' = [work EXCEPT ![a] = w]
      /\ work[a].at = "recover"
  BY DEF Recovered, Go, Doing
<1>2. w.at = "scanned" /\ w \in Calm BY DEF Calm
<1> HIDE DEF w
<1>3. up # {} /\ ~program[a] /\ ~journal[a].kept
  BY <1>1 DEF SandboxInv, ProgramFits, StageFits
<1>5. MutexHeld' /\ mutex' \in Actor \cup {Nobody} BY <1>1, <1>2 DEF SandboxInv, MutexHeld, SandboxTypeOK, Arms
<1>6. hosted' \in [Lease -> BOOLEAN] BY <1>1 DEF SandboxInv, SandboxTypeOK
<1> QED BY <1>1, <1>2, <1>3, <1>5, <1>6, Turns, ActorsDiffer DEF Arms, Readied

\* Only a starting service finds records to take.
LEMMA TakeTurns == ASSUME Single, SandboxInv, NEW a \in Actor, NEW l \in Lease, Take(a, l) PROVE SandboxInv'
<1> DEFINE w == [at |-> "wait", of |-> l, then |-> "recover", step |-> 1]
<1>1. /\ UNCHANGED <<home, own, sealed, journal, hosted, program, up, plain, mutex>> /\ work' = [work EXCEPT ![a] = w]
      /\ work[a].at = "recover" /\ journal[l].kept /\ ~Lives(l)
  BY DEF Take, Free
<1>2. w.at = "wait" /\ w.of = l /\ w.step = 1 /\ w \in Cleanings BY DEF Cleanings
<1> HIDE DEF w
<1>3. a \notin Lease
  <2>1. up = {} BY <1>1 DEF SandboxInv, RecordFits, Lives
  <2> QED BY <1>1, <2>1 DEF SandboxInv, StageFits
<1>4. a \in Account /\ a \notin up
  BY <1>1, <1>3, ActorsDiffer DEF SandboxInv, AccountRests
<1>5. ~program[l] BY <1>1 DEF SandboxInv, ProgramFits, Lives
<1>6. MutexHeld' /\ mutex' \in Actor \cup {Nobody} BY <1>1, <1>2 DEF SandboxInv, MutexHeld, SandboxTypeOK, Arms
<1>7. hosted' \in [Lease -> BOOLEAN] BY <1>1 DEF SandboxInv, SandboxTypeOK
<1> QED BY <1>1, <1>2, <1>3, <1>4, <1>5, <1>6, <1>7, Turns DEF Arms, Readied

LEMMA EndTurns == ASSUME Single, SandboxInv, NEW l \in Lease, EndLease(l) PROVE SandboxInv'
<1> DEFINE w == [at |-> "over"]
<1>1. /\ UNCHANGED <<home, own, sealed, journal, hosted, program, up, plain, mutex>> /\ work' = [work EXCEPT ![l] = w]
      /\ work[l].at \in {"scanned", "ready", "bound", "run"}
  BY DEF EndLease, Go, Doing
<1>2. w.at = "over" /\ w \in Calm BY DEF Calm
<1> HIDE DEF w
<1>3. up # {} BY <1>1 DEF SandboxInv, StageFits
<1>4. MutexHeld' /\ mutex' \in Actor \cup {Nobody} BY <1>1, <1>2 DEF SandboxInv, MutexHeld, SandboxTypeOK, Arms
<1>5. hosted' \in [Lease -> BOOLEAN] BY <1>1 DEF SandboxInv, SandboxTypeOK
<1> QED BY <1>1, <1>2, <1>3, <1>4, <1>5, Turns, ActorsDiffer DEF Arms, Readied

LEMMA CloseTurns == ASSUME Single, SandboxInv, NEW l \in Lease, Close(l) PROVE SandboxInv'
<1>1. /\ UNCHANGED <<home, own, sealed, journal, hosted, program, up, plain, mutex>> /\ work[l].at \in {"over", "close"}
  BY DEF Close
<1>2. up # {} BY <1>1 DEF SandboxInv, StageFits
<1>3. hosted' \in [Lease -> BOOLEAN] /\ mutex' \in Actor \cup {Nobody} BY <1>1 DEF SandboxInv, SandboxTypeOK
<1>4. PICK w \in Calm \cup Cleanings :
        /\ work' = [work EXCEPT ![l] = w]
        /\ \/ w.at = "idle"
           \/ w.at = "wait" /\ w.of = l /\ w.then = "idle" /\ w.step = 1 /\ journal[l].kept /\ ~(journal[l].host /\ hosted[l])
  <2>1. CASE ~journal[l].kept \/ (journal[l].host /\ hosted[l])
    <3>1. [at |-> "idle"] \in Calm /\ [at |-> "idle"].at = "idle" BY DEF Calm
    <3>2. work' = [work EXCEPT ![l] = [at |-> "idle"]] BY <2>1 DEF Close, Go, Doing
    <3> QED BY <3>1, <3>2
  <2>2. CASE ~(~journal[l].kept \/ (journal[l].host /\ hosted[l]))
    <3> DEFINE v == [at |-> "wait", of |-> l, then |-> "idle", step |-> 1]
    <3>1. v \in Cleanings /\ v.at = "wait" /\ v.of = l /\ v.then = "idle" /\ v.step = 1 BY DEF Cleanings
    <3>2. work' = [work EXCEPT ![l] = v] BY <2>2 DEF Close
    <3> HIDE DEF v
    <3>3. v \in Calm \cup Cleanings BY <3>1
    <3> QED BY <2>2, <3>1, <3>2, <3>3
  <2> QED BY <2>1, <2>2
<1>5. MutexHeld' BY <1>1, <1>4 DEF SandboxInv, MutexHeld, SandboxTypeOK, Arms
<1>6. w.at = "wait" => ~program[l] BY <1>4 DEF SandboxInv, ProgramFits
<1> QED BY <1>1, <1>2, <1>3, <1>4, <1>5, <1>6, Turns, ActorsDiffer DEF Arms, Readied

LEMMA AbandonTurns == ASSUME Single, SandboxInv, NEW l \in Lease, Abandon(l) PROVE SandboxInv'
<1> DEFINE w == [at |-> "close"]
<1>1. /\ UNCHANGED <<home, own, sealed, journal, hosted, program, up, plain>> /\ work' = [work EXCEPT ![l] = w]
      /\ work[l].at \in {"saved", "root", "secret"} /\ mutex' = IF mutex = l THEN Nobody ELSE mutex
  BY DEF Abandon, Go, Doing, Single
<1>2. w.at = "close" /\ w \in Calm BY DEF Calm
<1> HIDE DEF w
<1>3. up # {} /\ ~program[l] BY <1>1 DEF SandboxInv, StageFits, ProgramFits
<1>4. MutexHeld' /\ mutex' \in Actor \cup {Nobody} BY <1>1, <1>2 DEF SandboxInv, MutexHeld, SandboxTypeOK, Arms
<1>5. hosted' \in [Lease -> BOOLEAN] BY <1>1 DEF SandboxInv, SandboxTypeOK
<1> QED BY <1>1, <1>2, <1>3, <1>4, <1>5, Turns, ActorsDiffer DEF Arms, Readied

LEMMA CleanTurns == ASSUME Single, SandboxInv, NEW a \in Actor, Clean(a) PROVE SandboxInv'
<1> DEFINE w == [work[a] EXCEPT !.at = "clean"]
<1>1. /\ UNCHANGED <<home, own, sealed, journal, hosted, program, up, plain>> /\ work' = [work EXCEPT ![a] = w]
      /\ work[a].at = "wait" /\ mutex = Nobody /\ mutex' = a
  BY DEF Clean
<1>2. work[a] \in Cleanings BY <1>1 DEF SandboxInv, SandboxTypeOK, Calm, Arms, Readied
<1>3. w.at = "clean" /\ w.of = work[a].of /\ w.then = work[a].then /\ w.step = work[a].step /\ w \in Cleanings
  BY <1>2 DEF Cleanings
<1> HIDE DEF w
<1>4. journal[w.of].kept /\ ~program[w.of] /\ w.step = 1
  <2>1. PICK l \in Lease : l = work[a].of BY <1>2 DEF Cleanings
  <2>2. journal[l].kept /\ ~program[l] /\ work[a].step = 1 BY <1>1, <2>1 DEF SandboxInv, CleanFits
  <2> QED BY <1>3, <2>1, <2>2
<1>5. a \in Lease => up # {} /\ ~program[a] /\ w.of = a /\ w.then = "idle" BY <1>1, <1>3 DEF SandboxInv, StageFits, ProgramFits
<1>6. a \in Account => a \notin up BY <1>1, ActorsDiffer DEF SandboxInv, AccountRests
<1>7. MutexHeld' /\ mutex' \in Actor \cup {Nobody}
  BY <1>1, <1>3, ActorsDiffer DEF SandboxInv, MutexHeld, SandboxTypeOK
<1>8. hosted' \in [Lease -> BOOLEAN] BY <1>1 DEF SandboxInv, SandboxTypeOK
<1> QED BY <1>1, <1>3, <1>4, <1>5, <1>6, <1>7, <1>8, Turns DEF Arms, Readied

LEMMA CleanFailsTurns == ASSUME Single, SandboxInv, NEW a \in Actor, CleanFails(a) PROVE SandboxInv'
<1> DEFINE w == [at |-> IF work[a].then = "recover" THEN After(a) ELSE "idle"]
<1>1. UNCHANGED <<home, own, sealed, journal, hosted, program, up, plain>> /\ work' = [work EXCEPT ![a] = w]
  BY DEF CleanFails, Go, Doing, Single
<1>2. work[a].at \in {"wait", "clean"} /\ (work[a].at = "clean" => work[a].step = 1)
      /\ mutex' = IF mutex = a THEN Nobody ELSE mutex
  BY DEF CleanFails, Single
<1>3. a \in Lease => up # {} /\ ~program[a] /\ work[a].then = "idle"
  BY <1>2 DEF SandboxInv, StageFits, ProgramFits
<1>4. w.at = "idle" /\ w \in Calm BY <1>3, ActorsDiffer DEF Calm, After
<1> HIDE DEF w
<1>5. a \in Account => a \notin up BY <1>2, ActorsDiffer DEF SandboxInv, AccountRests
<1>6. MutexHeld' /\ mutex' \in Actor \cup {Nobody} BY <1>1, <1>2, <1>4 DEF SandboxInv, MutexHeld, SandboxTypeOK, Arms
<1>7. hosted' \in [Lease -> BOOLEAN] /\ (\A l \in Lease : hosted[l] => hosted'[l]) BY <1>1 DEF SandboxInv, SandboxTypeOK
<1>8. work[a].at # "grant" /\ ~(work[a].at = "clean" /\ work[a].step >= 2) BY <1>2
<1> QED BY <1>1, <1>3, <1>4, <1>5, <1>6, <1>7, <1>8, Turns DEF Arms, Readied

LEMMA HostEndsFits == ASSUME SandboxInv, NEW l \in Lease, HostEnds(l) PROVE SandboxInv'
<1>1. /\ UNCHANGED <<home, own, sealed, journal, up, work, mutex, plain>>
      /\ hosted' = [hosted EXCEPT ![l] = FALSE] /\ program' = [program EXCEPT ![l] = FALSE]
  BY DEF HostEnds
<1>2. SandboxTypeOK' BY <1>1 DEF SandboxInv, SandboxTypeOK
<1>3. \A k \in Lease : program'[k] => program[k] /\ hosted'[k]
  BY <1>1 DEF SandboxInv, SandboxTypeOK, ProgramFits
<1>4. ProgramFits' BY <1>1, <1>3 DEF SandboxInv, ProgramFits, Entered, Armed
<1>5. CleanFits' BY <1>1, <1>3 DEF SandboxInv, CleanFits, Entered
<1>6. RecordFits' /\ StageFits' BY <1>1 DEF SandboxInv, RecordFits, StageFits, Entered, Armed
<1>7. AccountRests' /\ MutexHeld' BY <1>1 DEF SandboxInv, AccountRests, MutexHeld
<1>8. OnlyOne' /\ GrantShows' BY <1>1 DEF SandboxInv, OnlyOne, GrantShows, Entered
<1>9. ListsFit' /\ ArmingFits' BY <1>1 DEF SandboxInv, ListsFit, ArmingFits, Entered
<1> QED BY <1>2, <1>4, <1>5, <1>6, <1>7, <1>8, <1>9 DEF SandboxInv

\* A lease's own step, on lists and records that stay.
LEMMA LeaseGoesOn ==
  ASSUME Single, SandboxInv, UNCHANGED <<home, own, sealed, hosted, up, plain, mutex>>, NEW l \in Lease,
         NEW w \in Calm, work' = [work EXCEPT ![l] = w], work[l].at \in Readied, w.at \in Readied,
         journal' \in [Lease -> {NoJournal} \cup Records], program' \in [Lease -> BOOLEAN],
         \A k \in Lease : /\ journal'[k].kept = journal[k].kept
                          /\ journal[k].kept => /\ journal'[k].known = journal[k].known /\ journal'[k].cut = journal[k].cut
                                               /\ journal'[k].copies = journal[k].copies
                                               /\ (journal[k].host => journal'[k].host)
                                               /\ (journal[k].owner => journal'[k].owner),
         w.at # "ready" => journal'[l].host,
         \A k \in Lease : program'[k] => program[k] \/ (k = l /\ journal'[l].host /\ hosted[l]),
         program'[l] => w.at = "run"
  PROVE  SandboxInv'
<1>1. /\ work'[l] = w /\ \A b \in Actor : b # l => work'[b] = work[b]
      /\ \A k \in Lease : Entered(k)' = Entered(k) /\ Armed(k)' = Armed(k)
  BY ActorsDiffer DEF SandboxInv, SandboxTypeOK, Entered, Armed
<1>2. \A k \in Lease : k \in Actor BY ActorsDiffer
<1>3. SandboxTypeOK' BY <1>2 DEF SandboxInv, SandboxTypeOK
<1>4. RecordFits' BY <1>1 DEF SandboxInv, RecordFits, Entered
<1>5. Entered(l) /\ Armed(l) /\ up # {} BY DEF SandboxInv, StageFits, Readied
<1>6. StageFits' BY <1>1, <1>2, <1>5 DEF SandboxInv, StageFits, Readied, Entered, Arms
<1>7. ProgramFits'
  <2> SUFFICES ASSUME NEW k \in Lease, program'[k]
               PROVE  Entered(k) /\ Armed(k) /\ journal'[k].host /\ hosted[k] /\ work'[k].at \in {"run", "over", "idle"}
    BY <1>1 DEF ProgramFits
  <2>1. CASE k = l
    <3>1. w.at = "run" /\ (program[l] => journal[l].host /\ hosted[l]) BY <2>1 DEF SandboxInv, ProgramFits
    <3> QED BY <1>1, <1>5, <2>1, <3>1 DEF Entered
  <2>2. CASE k # l BY <1>1, <1>2, <2>2 DEF SandboxInv, ProgramFits, Entered
  <2> QED BY <2>1, <2>2
<1>8. AccountRests' BY <1>1, ActorsDiffer DEF SandboxInv, AccountRests
<1>9. MutexHeld' BY <1>1 DEF SandboxInv, MutexHeld, Readied, Arms
<1>10. CleanFits'
  <2> SUFFICES ASSUME NEW b \in Actor, NEW k \in Lease, work'[b].at \in {"wait", "clean"}, work'[b].of = k
               PROVE  /\ journal'[k].kept /\ ~program'[k]
                      /\ work'[b].at = "wait" => work'[b].step = 1
                      /\ work'[b].step >= 2 => Of(k, own["root"]) = {}
                      /\ work'[b].step >= 3 /\ Entered(k) => "root" \notin sealed
                      /\ work'[b].step = 4 /\ Entered(k) => sealed = plain.cut
    BY <1>1 DEF CleanFits
  <2>1. b # l BY <1>1 DEF Readied
  <2>2. work'[b] = work[b] BY <1>1, <2>1
  <2>3. k # l
    <3>1. CASE b \in Lease BY <2>1, <2>2, <3>1 DEF SandboxInv, StageFits
    <3>2. b \notin Account BY <1>5, <2>2, OneService DEF SandboxInv, AccountRests
    <3> QED BY <3>1, <3>2 DEF Actor
  <2>4. /\ journal[k].kept /\ ~program[k]
        /\ work[b].at = "wait" => work[b].step = 1
        /\ work[b].step >= 2 => Of(k, own["root"]) = {}
        /\ work[b].step >= 3 /\ Entered(k) => "root" \notin sealed
        /\ work[b].step = 4 /\ Entered(k) => sealed = plain.cut
    BY <2>2 DEF SandboxInv, CleanFits
  <2>5. journal'[k].kept /\ ~program'[k] BY <2>3, <2>4
  <2> QED BY <2>2, <2>4, <2>5
<1>11. OnlyOne' BY <1>1 DEF SandboxInv, OnlyOne
<1>12. GrantShows'
  <2> SUFFICES ASSUME NEW k \in Lease, Entered(k), up # {}, work'[k].at # "grant",
                      ~(work'[k].at = "clean" /\ work'[k].step >= 2)
               PROVE  Of(k, own["root"]) # {}
    BY <1>1 DEF GrantShows
  <2>1. CASE k = l BY <1>1, <2>1 DEF SandboxInv, GrantShows, Readied
  <2>2. CASE k # l BY <1>1, <1>2, <2>2 DEF SandboxInv, GrantShows
  <2> QED BY <2>1, <2>2
<1>13. ListsFit' BY <1>1 DEF SandboxInv, ListsFit, Entered
<1>14. ArmingFits'
  <2> SUFFICES ASSUME NEW k \in Lease, work'[k].at \in Arms, journal'[k].copies = journal[k].copies
               PROVE  /\ IF work'[k].at = "secret" THEN "root" \in sealed /\ Of(k, own["root"]) = {Entry(k, "narrow")}
                         ELSE "root" \notin sealed /\ journal[k].copies["root"] = own["top"] /\ own["root"] \cap own["top"] = {}
                      /\ "secret" \in sealed <=> "secret" \in plain.cut
                      /\ "secret" \notin plain.cut =>
                           /\ journal[k].copies["secret"] = Users(Reach(own, sealed)["root"])
                           /\ own["secret"] \cap journal[k].copies["secret"] = {}
    <3>1. ASSUME NEW k \in Lease, work'[k].at \in Arms PROVE journal'[k].copies = journal[k].copies
      <4>1. k # l BY <1>1, <3>1 DEF Arms, Readied
      <4>2. work[k].at \in Arms BY <1>1, <1>2, <3>1, <4>1
      <4>3. Entered(k) BY <4>2 DEF SandboxInv, StageFits
      <4> QED BY <4>3 DEF Entered
    <3> QED BY <3>1 DEF ArmingFits
  <2>1. k # l BY <1>1 DEF Arms, Readied
  <2>2. work'[k] = work[k] BY <1>1, <1>2, <2>1
  <2> QED BY <2>2 DEF SandboxInv, ArmingFits
<1> QED BY <1>3, <1>4, <1>6, <1>7, <1>8, <1>9, <1>10, <1>11, <1>12, <1>13, <1>14 DEF SandboxInv

LEMMA CommandFits == ASSUME Single, SandboxInv, NEW l \in Lease, Command(l) PROVE SandboxInv'
<1> DEFINE w == [at |-> "run"]
<1>1. /\ UNCHANGED <<home, own, sealed, journal, hosted, up, mutex, plain>> /\ work' = [work EXCEPT ![l] = w]
      /\ work[l].at = "bound" /\ hosted[l] /\ program' = [program EXCEPT ![l] = TRUE]
  BY DEF Command, Go, Doing
<1>2. w.at = "run" /\ w \in Calm BY DEF Calm, Readied
<1> HIDE DEF w
<1>3. journal \in [Lease -> {NoJournal} \cup Records] /\ program' \in [Lease -> BOOLEAN] BY <1>1 DEF SandboxInv, SandboxTypeOK
<1>4. \A k \in Lease : k # l => program'[k] = program[k] BY <1>1 DEF SandboxInv, SandboxTypeOK
<1>5. journal[l].host BY <1>1 DEF SandboxInv, StageFits, Readied
<1> QED BY <1>1, <1>2, <1>3, <1>4, <1>5, LeaseGoesOn DEF Readied

LEMMA BindFits == ASSUME Single, SandboxInv, NEW l \in Lease, Bind(l) PROVE SandboxInv'
<1> DEFINE w == [at |-> "bound"]
<1>1. /\ UNCHANGED <<home, own, sealed, hosted, program, up, mutex, plain>> /\ work' = [work EXCEPT ![l] = w]
      /\ work[l].at = "ready" /\ journal' = [journal EXCEPT ![l].host = TRUE]
  BY DEF Bind, Go, Doing
<1>2. w.at = "bound" /\ w \in Calm BY DEF Calm, Readied
<1> HIDE DEF w
<1>3. journal[l] \in Records
  BY <1>1, NothingKept DEF SandboxInv, SandboxTypeOK, StageFits, Readied, Entered
<1>4. /\ journal'[l] \in Records /\ journal'[l].kept = journal[l].kept /\ journal'[l].known = journal[l].known
      /\ journal'[l].cut = journal[l].cut /\ journal'[l].copies = journal[l].copies /\ journal'[l].host
      /\ journal'[l].owner = journal[l].owner
  BY <1>1, <1>3 DEF SandboxInv, SandboxTypeOK, Records
<1>5. journal' \in [Lease -> {NoJournal} \cup Records] /\ \A k \in Lease : k # l => journal'[k] = journal[k]
  <2>1. journal' = [journal EXCEPT ![l] = journal'[l]] BY <1>1 DEF SandboxInv, SandboxTypeOK
  <2> QED BY <1>4, <2>1 DEF SandboxInv, SandboxTypeOK
<1>6. program' \in [Lease -> BOOLEAN] /\ ~program[l]
  BY <1>1 DEF SandboxInv, SandboxTypeOK, ProgramFits
<1> QED BY <1>1, <1>2, <1>4, <1>5, <1>6, LeaseGoesOn DEF Readied

\* Once it has recovered a starting service finds no record at all.
LEMMA RecoveredFits == ASSUME Single, SandboxInv, NEW a \in Account, Recovered(a) PROVE SandboxInv'
<1>1. /\ UNCHANGED <<home, own, sealed, journal, hosted, program, mutex, plain>> /\ Free(a) = {} /\ work[a].at = "recover"
      /\ work' = [work EXCEPT ![a] = [at |-> "idle"]] /\ up' = up \cup {a}
  BY ActorsDiffer DEF Recovered, Go, Doing
<1>2. up = {} BY <1>1, OneService DEF SandboxInv, AccountRests
<1>3. \A l \in Lease : work[l].at = "idle" BY <1>2 DEF SandboxInv, StageFits
<1>4. \A b \in Actor : work[b].at \notin {"wait", "clean"}
  BY <1>1, <1>3, ActorsDiffer DEF Single, Actor
<1>5. \A l \in Lease : ~journal[l].kept
  <2> SUFFICES ASSUME NEW l \in Lease, journal[l].kept PROVE l \in Free(a) BY <1>1
  <2>1. Base(a) = a /\ journal[l].base = a BY OneService, ActorsDiffer DEF SandboxInv
  <2> QED BY <1>3, <1>4, <2>1 DEF Free, Cleaned
<1>6. /\ \A b \in Actor : b # a => work'[b] = work[b]
      /\ work'[a].at = "idle" /\ \A l \in Lease : work'[l] = work[l]
  BY <1>1, ActorsDiffer DEF SandboxInv, SandboxTypeOK
<1>7. SandboxTypeOK'
  <2>1. [at |-> "idle"] \in Calm BY DEF Calm
  <2> QED BY <1>1, <2>1 DEF SandboxInv, SandboxTypeOK
<1>8. \A l \in Lease : ~Entered(l)' /\ ~Entered(l) BY <1>1, <1>5 DEF Entered
<1>9. RecordFits' BY <1>1, <1>5, <1>8 DEF RecordFits
<1>10. StageFits' BY <1>3, <1>6 DEF StageFits, Arms, Readied
<1>11. ProgramFits' BY <1>1, <1>8 DEF SandboxInv, ProgramFits
<1>12. AccountRests'
  <2> SUFFICES ASSUME NEW b \in Account PROVE work'[b].at = "idle" BY DEF AccountRests
  <2> QED BY <1>6 DEF Single
<1>13. MutexHeld' /\ CleanFits'
  <2>1. \A b \in Actor : work'[b].at \notin {"wait", "clean"} \cup Arms BY <1>3, <1>4, <1>6, ActorsDiffer DEF Actor, Single, Arms
  <2> QED BY <2>1 DEF MutexHeld, CleanFits
<1>14. OnlyOne' BY <1>1, <1>8 DEF SandboxInv, OnlyOne
<1>15. GrantShows' BY <1>8 DEF GrantShows
<1>16. ListsFit' BY <1>1, <1>8 DEF SandboxInv, ListsFit
<1>17. ArmingFits' BY <1>3, <1>6 DEF ArmingFits, Arms
<1> QED BY <1>7, <1>9, <1>10, <1>11, <1>12, <1>13, <1>14, <1>15, <1>16, <1>17 DEF SandboxInv

LEMMA SaveFits == ASSUME Single, SandboxInv, NEW l \in Lease, Save(l) PROVE SandboxInv'
<1> DEFINE w == [at |-> "saved"]
           r == Record(home[l], TRUE)
<1>1. /\ UNCHANGED <<home, own, sealed, hosted, program, up, mutex, plain>> /\ work' = [work EXCEPT ![l] = w]
      /\ work[l].at = "scanned" /\ journal' = [journal EXCEPT ![l] = r]
  BY DEF Save, Go, Doing
<1>2. w.at = "saved" /\ w \in Calm BY DEF Calm
<1>3. r \in Records /\ r.kept /\ r.known = {} /\ r.owner BY DEF Record, Records, SandboxInv, SandboxTypeOK
<1> HIDE DEF w, r
<1>4. ~journal[l].kept /\ up # {} BY <1>1 DEF SandboxInv, StageFits
<1>5. /\ journal'[l] = r /\ \A k \in Lease : k # l => journal'[k] = journal[k]
      /\ work'[l] = w /\ \A b \in Actor : b # l => work'[b] = work[b]
  BY <1>1, ActorsDiffer DEF SandboxInv, SandboxTypeOK
<1>6. \A k \in Lease : Entered(k)' = Entered(k) /\ Armed(k)' = Armed(k) /\ k \in Actor
  BY <1>1, <1>3, <1>4, <1>5, ActorsDiffer DEF Entered, Armed
<1>7. SandboxTypeOK' BY <1>1, <1>2, <1>3 DEF SandboxInv, SandboxTypeOK
<1>8. ~Entered(l) BY <1>4 DEF Entered
<1>9. RecordFits' BY <1>1, <1>3, <1>5, <1>6, <1>8 DEF SandboxInv, RecordFits
<1>10. StageFits' BY <1>1, <1>2, <1>3, <1>4, <1>5, <1>6 DEF SandboxInv, StageFits, Arms, Readied
<1>11. ProgramFits' BY <1>1, <1>5, <1>6, <1>8 DEF SandboxInv, ProgramFits
<1>12. AccountRests' BY <1>1, <1>5, ActorsDiffer DEF SandboxInv, AccountRests
<1>13. MutexHeld' BY <1>1, <1>2, <1>5 DEF SandboxInv, MutexHeld, Arms
<1>14. CleanFits'
  <2> SUFFICES ASSUME NEW b \in Actor, NEW k \in Lease, work'[b].at \in {"wait", "clean"}, work'[b].of = k
               PROVE  /\ journal'[k].kept /\ ~program[k]
                      /\ work'[b].at = "wait" => work'[b].step = 1
                      /\ work'[b].step >= 2 => Of(k, own["root"]) = {}
                      /\ work'[b].step >= 3 /\ Entered(k) => "root" \notin sealed
                      /\ work'[b].step = 4 /\ Entered(k) => sealed = plain.cut
    BY <1>1, <1>6 DEF CleanFits
  <2>1. b # l /\ work'[b] = work[b] BY <1>2, <1>5
  <2>2. k # l BY <1>4, <2>1 DEF SandboxInv, CleanFits
  <2> QED BY <1>5, <2>1, <2>2 DEF SandboxInv, CleanFits
<1>15. OnlyOne' BY <1>1, <1>6 DEF SandboxInv, OnlyOne
<1>16. GrantShows' BY <1>1, <1>5, <1>6, <1>8 DEF SandboxInv, GrantShows
<1>17. ListsFit' BY <1>1, <1>5, <1>6, <1>8 DEF SandboxInv, ListsFit
<1>18. ArmingFits'
  <2> SUFFICES ASSUME NEW k \in Lease, work'[k].at \in Arms
               PROVE  k # l
    BY <1>1, <1>5, <1>6 DEF SandboxInv, ArmingFits
  <2> QED BY <1>2, <1>5 DEF Arms
<1> QED BY <1>7, <1>9, <1>10, <1>11, <1>12, <1>13, <1>14, <1>15, <1>16, <1>17, <1>18 DEF SandboxInv

\* Whoever has entered before holds the mutex or shows in the root's list.
LEMMA NobodyEntered ==
  ASSUME Single, SandboxInv, mutex = Nobody, up # {}, ~Overlaps("root")
  PROVE  \A k \in Lease : ~Entered(k)
<1> SUFFICES ASSUME NEW k \in Lease, Entered(k) PROVE FALSE OBVIOUS
<1>1. work[k].at \notin Arms \cup {"clean"} BY ActorsDiffer DEF SandboxInv, MutexHeld
<1>2. Of(k, own["root"]) # {} BY <1>1 DEF SandboxInv, GrantShows, Arms
<1>3. Of(k, Reach(own, sealed)["root"]) # {} BY <1>2, ReachIs DEF Of
<1> QED BY <1>3 DEF Overlaps

LEMMA EnterFits == ASSUME Single, SandboxInv, NEW l \in Lease, Enter(l) PROVE SandboxInv'
<1> DEFINE w == [at |-> "grant"]
           r == [journal[l] EXCEPT !.known = {"root", "secret"}, !.cut = sealed, !.copies = [o \in Object |-> Inherited(o)]]
<1>1. /\ UNCHANGED <<home, own, sealed, hosted, program, up, plain>> /\ work' = [work EXCEPT ![l] = w]
      /\ work[l].at = "saved" /\ mutex = Nobody /\ mutex' = l /\ \A o \in {"root", "secret"} : ~Overlaps(o)
  BY DEF Enter, Go, Doing
<1>2. w.at = "grant" /\ w \in Calm BY DEF Calm, Arms
<1>3. up # {} /\ journal[l].kept /\ journal[l] \in Records
  BY <1>1, NothingKept DEF SandboxInv, StageFits, SandboxTypeOK
<1>4. \A k \in Lease : ~Entered(k) BY <1>1, <1>3, NobodyEntered
<1>5. sealed = plain.cut /\ \A o \in Object : Users(own[o]) = plain.own[o] BY <1>4 DEF SandboxInv, ListsFit
<1>6. "root" \notin sealed /\ sealed \subseteq {"secret"} BY <1>5 DEF SandboxInv, SandboxTypeOK
<1>7. \A o \in Object : Inherited(o) \subseteq Entries
  BY ReachTyped DEF Inherited, Object, SandboxInv
<1>8. /\ r \in Records /\ r.kept /\ r.known = {"root", "secret"} /\ r.cut = plain.cut /\ r.owner = journal[l].owner
      /\ r.host = journal[l].host /\ r.copies["root"] = Inherited("root") /\ r.copies["secret"] = Inherited("secret")
  <2>1. [o \in Object |-> Inherited(o)] \in [Object -> SUBSET Entries] BY <1>7
  <2>2. \A c \in [Object -> SUBSET Entries] : LET q == [journal[l] EXCEPT !.known = {"root", "secret"}, !.cut = sealed, !.copies = c] IN
          /\ q \in Records /\ q.kept /\ q.known = {"root", "secret"} /\ q.cut = sealed /\ q.owner = journal[l].owner
          /\ q.host = journal[l].host /\ q.copies = c
    BY <1>3 DEF Records, SandboxInv, SandboxTypeOK
  <2>3. PICK c \in [Object -> SUBSET Entries] : c = [o \in Object |-> Inherited(o)] BY <2>1
  <2>4. c["root"] = Inherited("root") /\ c["secret"] = Inherited("secret") BY <2>3 DEF Object
  <2>5. r = [journal[l] EXCEPT !.known = {"root", "secret"}, !.cut = sealed, !.copies = c] BY <2>3
  <2> HIDE DEF r
  <2> QED BY <1>5, <2>2, <2>4, <2>5
<1>9. journal' = [journal EXCEPT ![l] = r]
  BY DEF Enter, SandboxInv, SandboxTypeOK
<1> HIDE DEF w, r
<1>10. /\ journal'[l] = r /\ \A k \in Lease : k # l => journal'[k] = journal[k]
       /\ work'[l] = w /\ \A b \in Actor : b # l => work'[b] = work[b]
  BY <1>1, <1>9, ActorsDiffer DEF SandboxInv, SandboxTypeOK
<1>11. \A k \in Lease : (Entered(k)' <=> k = l) /\ Armed(k)' = Armed(k) /\ k \in Actor
  BY <1>1, <1>4, <1>8, <1>10, ActorsDiffer DEF Entered, Armed
<1>12. SandboxTypeOK' BY <1>1, <1>2, <1>8, <1>9, ActorsDiffer DEF SandboxInv, SandboxTypeOK
<1>13. RecordFits' BY <1>1, <1>8, <1>10, <1>11, <1>3 DEF SandboxInv, RecordFits
<1>14. StageFits' BY <1>1, <1>2, <1>3, <1>4, <1>10, <1>11 DEF SandboxInv, StageFits, Arms, Readied
<1>15. ProgramFits' BY <1>1, <1>4 DEF SandboxInv, ProgramFits
<1>16. AccountRests' BY <1>1, <1>10, ActorsDiffer DEF SandboxInv, AccountRests
<1>17. MutexHeld'
  <2>1. \A b \in Actor : work[b].at \notin Arms \cup {"clean"} BY <1>1, ActorsDiffer DEF SandboxInv, MutexHeld
  <2> QED BY <1>1, <1>10, <2>1 DEF MutexHeld
<1>18. CleanFits'
  <2> SUFFICES ASSUME NEW b \in Actor, NEW k \in Lease, work'[b].at \in {"wait", "clean"}, work'[b].of = k
               PROVE  /\ journal'[k].kept /\ ~program[k]
                      /\ work'[b].at = "wait" => work'[b].step = 1
                      /\ work'[b].step >= 2 => Of(k, own["root"]) = {}
                      /\ work'[b].step < 3
    <3>1. \A b \in Actor, k \in Lease : work'[b].at \in {"wait", "clean"} /\ work'[b].of = k =>
                        work'[b] = work[b] /\ work[b].at = "wait" /\ work[b].step = 1
      <4> TAKE b \in Actor, k \in Lease
      <4> HAVE work'[b].at \in {"wait", "clean"} /\ work'[b].of = k
      <4>1. b # l /\ work'[b] = work[b] BY <1>2, <1>10
      <4>2. work[b].at = "wait" BY <1>1, <4>1, ActorsDiffer DEF SandboxInv, MutexHeld
      <4> QED BY <4>1, <4>2 DEF SandboxInv, CleanFits
    <3> QED BY <1>1, <3>1 DEF CleanFits
  <2>1. b # l /\ work'[b] = work[b] BY <1>2, <1>10
  <2>2. work[b].at = "wait" BY <1>1, <2>1, ActorsDiffer DEF SandboxInv, MutexHeld
  <2>3. journal[k].kept /\ ~program[k] /\ work[b].step = 1 BY <2>1, <2>2 DEF SandboxInv, CleanFits
  <2> QED BY <1>8, <1>10, <2>1, <2>2, <2>3
<1>19. OnlyOne'
  <2>1. \A e \in own["root"] : e.who \notin Lease BY <1>4 DEF SandboxInv, OnlyOne
  <2> QED BY <1>1, <1>11, <2>1 DEF SandboxInv, OnlyOne
<1>20. GrantShows' BY <1>2, <1>10, <1>11 DEF GrantShows
<1>21. ListsFit' BY <1>1, <1>5, <1>11 DEF SandboxInv, ListsFit
<1>22. ArmingFits'
  <2>1. Inherited("root") = own["top"] /\ own["root"] \cap own["top"] = {}
    BY <1>1, <1>6, ReachIs DEF Inherited, Overlaps
  <2>2. "secret" \notin sealed => Inherited("secret") = Reach(own, sealed)["root"] /\ own["secret"] \cap Inherited("secret") = {}
    BY <1>1 DEF Inherited, Overlaps
  <2>3. Users(Reach(own, sealed)["root"]) = Reach(own, sealed)["root"]
    BY <1>4, ReachIs DEF SandboxInv, OnlyOne, Users
  <2>4. \A k \in Lease : work'[k].at \in Arms => k = l
    BY <1>1, <1>10, ActorsDiffer DEF SandboxInv, MutexHeld
  <2> QED BY <1>1, <1>2, <1>5, <1>6, <1>8, <1>10, <2>1, <2>2, <2>3, <2>4 DEF ArmingFits
<1> QED BY <1>12, <1>13, <1>14, <1>15, <1>16, <1>17, <1>18, <1>19, <1>20, <1>21, <1>22 DEF SandboxInv

-----------------------------------------------------------------------------
(* Steps that change lists. *)

\* The lease that holds the mutex is the only one that has entered.
LEMMA OwnGrantsOnly ==
  ASSUME SandboxInv, NEW l \in Lease, Entered(l)
  PROVE  /\ \A k \in Lease : Entered(k) => k = l
         /\ \A e \in own["root"] : e.who \in Lease => e.who = l
         /\ \A o \in Object : own[o] \subseteq Users(own[o]) \cup Of(l, own[o])
         /\ "root" \notin plain.cut /\ plain.cut \subseteq {"secret"}
<1>1. \A k \in Lease : Entered(k) => k = l BY DEF SandboxInv, OnlyOne
<1>2. \A e \in own["root"] : e.who \in Lease => e.who = l BY <1>1 DEF SandboxInv, OnlyOne
<1>3. \A o \in Object : own[o] \subseteq Users(own[o]) \cup Of(l, own[o])
  BY <1>2 DEF SandboxInv, OnlyOne, Object, Users, Of
<1>4. plain.cut \subseteq {"secret"} BY DEF SandboxInv, SandboxTypeOK
<1> QED BY <1>1, <1>2, <1>3, <1>4

LEMMA GrantFits == ASSUME Single, SandboxInv, NEW l \in Lease, Grant(l) PROVE SandboxInv'
<1> DEFINE w == [at |-> "root"]
           new == own["root"] \cup {Entry(l, "full")}
<1>1. /\ UNCHANGED <<home, sealed, journal, hosted, program, up, mutex, plain>> /\ work' = [work EXCEPT ![l] = w]
      /\ work[l].at = "grant" /\ own' = [own EXCEPT !["root"] = new]
  BY DEF Grant, Go, Doing
<1>2. w.at = "root" /\ w \in Calm BY DEF Calm, Arms
<1>3. Entered(l) /\ up # {} BY <1>1 DEF SandboxInv, StageFits, Arms
<1>4. /\ new \subseteq Entries /\ Users(new) = Users(own["root"]) /\ Entry(l, "full") \in Of(l, new)
      /\ \A k \in Lease : k # l => Of(k, new) = Of(k, own["root"])
      /\ \A e \in new : e \in own["root"] \/ e.who = l
  BY EntriesOf DEF SandboxInv, SandboxTypeOK, Users, Of, Object
<1> HIDE DEF w, new
<1>5. /\ own'["root"] = new /\ own'["top"] = own["top"] /\ own'["secret"] = own["secret"] /\ own' \in [Object -> SUBSET Entries]
      /\ work'[l] = w /\ \A b \in Actor : b # l => work'[b] = work[b]
  BY <1>1, <1>4, ActorsDiffer DEF SandboxInv, SandboxTypeOK, Object
<1>6. \A k \in Lease : Entered(k)' = Entered(k) /\ k \in Actor BY <1>1, ActorsDiffer DEF Entered
<1>7. \A k \in Lease : Entered(k) => k = l BY <1>3, OwnGrantsOnly
<1>8. SandboxTypeOK' BY <1>1, <1>2, <1>5 DEF SandboxInv, SandboxTypeOK
<1>9. RecordFits' BY <1>1, <1>6 DEF SandboxInv, RecordFits
<1>10. StageFits' BY <1>1, <1>2, <1>3, <1>5, <1>6, <1>7 DEF SandboxInv, StageFits, Arms, Readied
<1>11. ProgramFits' BY <1>1, <1>7 DEF SandboxInv, ProgramFits
<1>12. AccountRests' BY <1>1, <1>5, ActorsDiffer DEF SandboxInv, AccountRests
<1>13. MutexHeld' BY <1>1, <1>5 DEF SandboxInv, MutexHeld, Arms
<1>14. CleanFits'
  <2> SUFFICES ASSUME NEW b \in Actor, NEW k \in Lease, work'[b].at \in {"wait", "clean"}, work'[b].of = k
               PROVE  /\ journal[k].kept /\ ~program[k]
                      /\ work'[b].at = "wait" => work'[b].step = 1
                      /\ work'[b].step < 2
    <3>1. \A b \in Actor, k \in Lease : work'[b].at \in {"wait", "clean"} /\ work'[b].of = k =>
                        work'[b] = work[b] /\ work[b].at = "wait" /\ work[b].step = 1
      <4> TAKE b \in Actor, k \in Lease
      <4> HAVE work'[b].at \in {"wait", "clean"} /\ work'[b].of = k
      <4>1. b # l /\ work'[b] = work[b] BY <1>2, <1>5
      <4>2. work[b].at = "wait" BY <1>1, <1>6, <4>1 DEF SandboxInv, MutexHeld, Arms
      <4> QED BY <4>1, <4>2 DEF SandboxInv, CleanFits
    <3> QED BY <1>1, <3>1 DEF CleanFits
  <2>1. b # l /\ work'[b] = work[b] BY <1>2, <1>5
  <2>2. work[b].at = "wait" BY <1>1, <1>6, <2>1 DEF SandboxInv, MutexHeld, Arms
  <2> QED BY <2>1, <2>2 DEF SandboxInv, CleanFits
<1>15. OnlyOne' BY <1>1, <1>3, <1>4, <1>5, <1>6 DEF SandboxInv, OnlyOne
<1>16. GrantShows'
  <2>1. Of(l, own'["root"]) # {} BY <1>4, <1>5
  <2> QED BY <1>6, <1>7, <2>1 DEF GrantShows
<1>17. ListsFit'
  <2>1. \A o \in Object : Users(own'[o]) = Users(own[o]) BY <1>4, <1>5 DEF Object
  <2> QED BY <1>1, <1>6, <2>1 DEF SandboxInv, ListsFit
<1>18. ArmingFits'
  <2>1. /\ "root" \notin sealed /\ journal[l].copies["root"] = own["top"] /\ own["root"] \cap own["top"] = {}
        /\ "secret" \in sealed <=> "secret" \in plain.cut
        /\ "secret" \notin plain.cut =>
             /\ journal[l].copies["secret"] = Users(Reach(own, sealed)["root"])
             /\ own["secret"] \cap journal[l].copies["secret"] = {}
    BY <1>1 DEF SandboxInv, ArmingFits, Arms
  <2>2. new \cap own["top"] = {} BY <1>4, <2>1 DEF SandboxInv, OnlyOne, Users
  <2>3. Users(Reach(own, sealed)["root"]) = Users(Reach(own', sealed)["root"])
    BY <1>4, <1>5, ReachIs DEF Users
  <2>4. \A k \in Lease : work'[k].at \in Arms => k = l BY <1>1, <1>5, <1>6 DEF SandboxInv, MutexHeld, Arms
  <2> QED BY <1>1, <1>2, <1>5, <2>1, <2>2, <2>3, <2>4 DEF ArmingFits
<1> QED BY <1>8, <1>9, <1>10, <1>11, <1>12, <1>13, <1>14, <1>15, <1>16, <1>17, <1>18 DEF SandboxInv

\* The root keeps its users' entries and gets copies of those above it.
LEMMA NarrowRootFits == ASSUME Single, SandboxInv, NEW l \in Lease, Narrow(l, "root") PROVE SandboxInv'
<1> DEFINE w == [at |-> "secret"]
           new == Retained(l, "root") \cup {Entry(l, "narrow")}
<1>1. /\ UNCHANGED <<home, journal, hosted, program, up, mutex, plain>> /\ work' = [work EXCEPT ![l] = w]
      /\ work[l].at = "root" /\ own' = [own EXCEPT !["root"] = new] /\ sealed' = sealed \cup {"root"}
  BY DEF Narrow, Go, Doing
<1>2. w.at = "secret" /\ w \in Calm BY DEF Calm, Arms
<1>3. Entered(l) /\ up # {} BY <1>1 DEF SandboxInv, StageFits, Arms
<1>4. /\ "root" \notin sealed /\ journal[l].copies["root"] = own["top"] /\ own["root"] \cap own["top"] = {}
      /\ "secret" \in sealed <=> "secret" \in plain.cut
      /\ "secret" \notin plain.cut =>
           /\ journal[l].copies["secret"] = Users(Reach(own, sealed)["root"])
           /\ own["secret"] \cap journal[l].copies["secret"] = {}
  BY <1>1 DEF SandboxInv, ArmingFits, Arms
<1>5. Reach(own, sealed)["root"] = own["root"] \cup own["top"] BY <1>4, ReachIs
<1>6. Users(own["top"]) = own["top"] /\ \A e \in own["root"] : e.who \in Lease => e.who = l
  BY <1>3, OwnGrantsOnly DEF SandboxInv, OnlyOne
<1>7. /\ new \subseteq Entries /\ Users(new) = Users(own["root"]) \cup own["top"] /\ Of(l, new) = {Entry(l, "narrow")}
      /\ \A e \in new : e.who \in Lease => e.who = l
  <2>1. new \subseteq Entries
    BY <1>5, EntriesOf DEF Retained, SandboxInv, SandboxTypeOK, Object
  <2>2. Retained(l, "root") = (own["root"] \cup own["top"]) \ Of(l, own["root"] \cup own["top"]) BY <1>5 DEF Retained
  <2>3. Retained(l, "root") = Users(own["root"]) \cup own["top"]
    BY <1>6, <2>2 DEF Users, Of
  <2>4. \A e \in Retained(l, "root") : e.who \notin Lease BY <1>6, <2>3 DEF Users
  <2>5. Entry(l, "narrow").who = l BY EntriesOf
  <2> QED BY <1>6, <2>1, <2>3, <2>4, <2>5 DEF Users, Of
<1> HIDE DEF w, new
<1>8. /\ own'["root"] = new /\ own'["top"] = own["top"] /\ own'["secret"] = own["secret"] /\ own' \in [Object -> SUBSET Entries]
      /\ work'[l] = w /\ \A b \in Actor : b # l => work'[b] = work[b]
  BY <1>1, <1>7, ActorsDiffer DEF SandboxInv, SandboxTypeOK, Object
<1>9. \A k \in Lease : Entered(k)' = Entered(k) /\ k \in Actor BY <1>1, ActorsDiffer DEF Entered
<1>10. \A k \in Lease : Entered(k) => k = l BY <1>3, OwnGrantsOnly
<1>11. SandboxTypeOK' BY <1>1, <1>2, <1>8 DEF SandboxInv, SandboxTypeOK
<1>12. RecordFits' BY <1>1, <1>9 DEF SandboxInv, RecordFits
<1>13. StageFits' BY <1>1, <1>2, <1>3, <1>8, <1>9, <1>10 DEF SandboxInv, StageFits, Arms, Readied
<1>14. ProgramFits' BY <1>1, <1>10 DEF SandboxInv, ProgramFits
<1>15. AccountRests' BY <1>1, <1>8, ActorsDiffer DEF SandboxInv, AccountRests
<1>16. MutexHeld' BY <1>1, <1>8 DEF SandboxInv, MutexHeld, Arms
<1>17. CleanFits'
  <2>1. \A b \in Actor, k \in Lease : work'[b].at \in {"wait", "clean"} /\ work'[b].of = k =>
                      work'[b] = work[b] /\ work[b].at = "wait" /\ work[b].step = 1 /\ journal[k].kept /\ ~program[k]
    <3> TAKE b \in Actor, k \in Lease
    <3> HAVE work'[b].at \in {"wait", "clean"} /\ work'[b].of = k
    <3>1. b # l /\ work'[b] = work[b] BY <1>2, <1>8
    <3>2. work[b].at = "wait" BY <1>1, <1>9, <3>1 DEF SandboxInv, MutexHeld, Arms
    <3> QED BY <3>1, <3>2 DEF SandboxInv, CleanFits
  <2> QED BY <1>1, <2>1 DEF CleanFits
<1>18. OnlyOne' BY <1>1, <1>3, <1>7, <1>8, <1>9 DEF SandboxInv, OnlyOne
<1>19. GrantShows'
  <2>1. Of(l, own'["root"]) # {} BY <1>7, <1>8
  <2> QED BY <1>9, <1>10, <2>1 DEF GrantShows
<1>20. ListsFit'
  <2>1. "root" \notin plain.cut /\ plain.cut \subseteq sealed' /\ Users(own["root"]) = plain.own["root"]
    BY <1>1, <1>3, <1>4, OwnGrantsOnly DEF SandboxInv, ListsFit, Object
  <2>2. Users(own'["root"]) \ journal[l].copies["root"] = plain.own["root"]
    BY <1>4, <1>7, <1>8, <2>1 DEF Users
  <2>3. \A o \in Object : o # "root" => own'[o] = own[o] /\ (o \in sealed' <=> o \in sealed) BY <1>1, <1>8 DEF Object
  <2>4. ASSUME NEW o \in Object, o \in plain.cut \/ o \notin sealed' PROVE Users(own'[o]) = plain.own[o]
    <3>1. o # "root" BY <1>1, <2>1, <2>4
    <3> QED BY <2>3, <2>4, <3>1 DEF SandboxInv, ListsFit
  <2>5. ASSUME NEW o \in Object, NEW k \in Lease, o \in sealed' \ plain.cut, Entered(k)
        PROVE  Users(own'[o]) \ journal[k].copies[o] = plain.own[o]
    <3>1. CASE o = "root" BY <1>10, <2>2, <2>5, <3>1
    <3>2. CASE o # "root" BY <2>3, <2>5, <3>2 DEF SandboxInv, ListsFit
    <3> QED BY <3>1, <3>2
  <2> QED BY <1>1, <1>3, <1>9, <2>1, <2>4, <2>5 DEF ListsFit
<1>21. ArmingFits'
  <2>1. Users(Reach(own, sealed)["root"]) = Users(Reach(own', sealed')["root"])
    <3>1. "root" \in sealed' BY <1>1
    <3>2. Reach(own', sealed')["root"] = own'["root"] BY <3>1, SealedReach
    <3>3. Users(own["root"] \cup own["top"]) = Users(own["root"]) \cup own["top"] BY <1>6 DEF Users
    <3> QED BY <1>5, <1>7, <1>8, <3>2, <3>3
  <2>2. \A k \in Lease : work'[k].at \in Arms => k = l BY <1>1, <1>8, <1>9 DEF SandboxInv, MutexHeld, Arms
  <2> QED BY <1>1, <1>2, <1>4, <1>7, <1>8, <2>1, <2>2 DEF ArmingFits
<1> QED BY <1>11, <1>12, <1>13, <1>14, <1>15, <1>16, <1>17, <1>18, <1>19, <1>20, <1>21 DEF SandboxInv

\* A credential keeps what reached it but the grant.
LEMMA NarrowSecretFits == ASSUME Single, SandboxInv, NEW l \in Lease, Narrow(l, "secret") PROVE SandboxInv'
<1> DEFINE w == [at |-> "ready"]
           new == Retained(l, "secret")
<1>1. /\ UNCHANGED <<home, journal, hosted, program, up, plain>> /\ work' = [work EXCEPT ![l] = w]
      /\ work[l].at = "secret" /\ own' = [own EXCEPT !["secret"] = new] /\ sealed' = sealed \cup {"secret"} /\ mutex' = Nobody
  BY DEF Narrow, Go, Doing
<1>2. w.at = "ready" /\ w \in Calm BY DEF Calm, Readied
<1>3. Entered(l) /\ up # {} /\ mutex = l BY <1>1, ActorsDiffer DEF SandboxInv, StageFits, MutexHeld, Arms
<1>4. /\ "root" \in sealed /\ Of(l, own["root"]) = {Entry(l, "narrow")}
      /\ "secret" \in sealed <=> "secret" \in plain.cut
      /\ "secret" \notin plain.cut =>
           /\ journal[l].copies["secret"] = Users(Reach(own, sealed)["root"])
           /\ own["secret"] \cap journal[l].copies["secret"] = {}
  BY <1>1 DEF SandboxInv, ArmingFits, Arms
<1>5. /\ Reach(own, sealed)["root"] = own["root"]
      /\ Reach(own, sealed)["secret"] = own["secret"] \cup IF "secret" \in plain.cut THEN {} ELSE own["root"]
  <2>1. Reach(own, sealed)["root"] = own["root"] \cup {} BY <1>4, ReachIs
  <2>2. Reach(own, sealed)["root"] = own["root"] BY <2>1
  <2> QED BY <1>4, <2>2, ReachIs
<1>6. Users(own["secret"]) = own["secret"] /\ \A e \in own["root"] : e.who \in Lease => e.who = l
  BY <1>3, OwnGrantsOnly DEF SandboxInv, OnlyOne
<1>7. new = own["secret"] \cup IF "secret" \in plain.cut THEN {} ELSE Users(own["root"])
  BY <1>5, <1>6 DEF Retained, Users, Of
<1>8. new \subseteq Entries /\ Users(new) = new
  BY <1>6, <1>7 DEF Users, SandboxInv, SandboxTypeOK, Object
<1> HIDE DEF w, new
<1>9. /\ own'["root"] = own["root"] /\ own'["top"] = own["top"] /\ own'["secret"] = new /\ own' \in [Object -> SUBSET Entries]
      /\ work'[l] = w /\ \A b \in Actor : b # l => work'[b] = work[b]
  BY <1>1, <1>8, ActorsDiffer DEF SandboxInv, SandboxTypeOK, Object
<1>10. \A k \in Lease : Entered(k)' = Entered(k) /\ k \in Actor BY <1>1, ActorsDiffer DEF Entered
<1>11. \A k \in Lease : Entered(k) => k = l BY <1>3, OwnGrantsOnly
<1>12. Armed(l)' BY <1>1, <1>4, <1>9 DEF Armed
<1>13. SandboxTypeOK' BY <1>1, <1>2, <1>9 DEF SandboxInv, SandboxTypeOK
<1>14. RecordFits' BY <1>1, <1>10 DEF SandboxInv, RecordFits
<1>15. StageFits' BY <1>1, <1>2, <1>3, <1>9, <1>10, <1>11, <1>12 DEF SandboxInv, StageFits, Arms, Readied
<1>16. ProgramFits' BY <1>1, <1>11 DEF SandboxInv, ProgramFits
<1>17. AccountRests' BY <1>1, <1>9, ActorsDiffer DEF SandboxInv, AccountRests
<1>18. MutexHeld' BY <1>1, <1>2, <1>3, <1>9 DEF SandboxInv, MutexHeld, Arms
<1>19. CleanFits'
  <2>1. \A b \in Actor, k \in Lease : work'[b].at \in {"wait", "clean"} /\ work'[b].of = k =>
                      work'[b] = work[b] /\ work[b].at = "wait" /\ work[b].step = 1 /\ journal[k].kept /\ ~program[k]
    <3> TAKE b \in Actor, k \in Lease
    <3> HAVE work'[b].at \in {"wait", "clean"} /\ work'[b].of = k
    <3>1. b # l /\ work'[b] = work[b] BY <1>2, <1>9
    <3>2. work[b].at = "wait" BY <1>3, <3>1 DEF SandboxInv, MutexHeld, Arms
    <3> QED BY <3>1, <3>2 DEF SandboxInv, CleanFits
  <2> QED BY <1>1, <2>1 DEF CleanFits
<1>20. OnlyOne' BY <1>1, <1>8, <1>9, <1>10 DEF SandboxInv, OnlyOne
<1>21. GrantShows'
  <2>1. Of(l, own'["root"]) # {} BY <1>4, <1>9
  <2> QED BY <1>10, <1>11, <2>1 DEF GrantShows
<1>22. ListsFit'
  <2>1. plain.cut \subseteq sealed' BY <1>1 DEF SandboxInv, ListsFit
  <2>2. \A o \in Object : o # "secret" => own'[o] = own[o] /\ (o \in sealed' <=> o \in sealed) BY <1>1, <1>9 DEF Object
  <2>3. ASSUME NEW o \in Object, o \in plain.cut \/ o \notin sealed' PROVE Users(own'[o]) = plain.own[o]
    <3>1. CASE o # "secret" BY <2>2, <2>3, <3>1 DEF SandboxInv, ListsFit
    <3>2. CASE o = "secret"
      <4>1. "secret" \in plain.cut BY <1>1, <2>3, <3>2
      <4>2. new = own["secret"] BY <1>7, <4>1
      <4> QED BY <1>9, <3>2, <4>1, <4>2 DEF SandboxInv, ListsFit
    <3> QED BY <3>1, <3>2
  <2>4. ASSUME NEW o \in Object, NEW k \in Lease, o \in sealed' \ plain.cut, Entered(k)
        PROVE  Users(own'[o]) \ journal[k].copies[o] = plain.own[o]
    <3>1. CASE o # "secret" BY <2>2, <2>4, <3>1 DEF SandboxInv, ListsFit
    <3>2. CASE o = "secret"
      <4>1. k = l /\ "secret" \notin plain.cut /\ "secret" \notin sealed BY <1>4, <1>11, <2>4, <3>2
      <4>2. Users(own["secret"]) = plain.own["secret"] BY <3>2, <4>1 DEF SandboxInv, ListsFit
      <4>3. new = own["secret"] \cup Users(own["root"]) /\ journal[l].copies["secret"] = Users(own["root"])
            /\ own["secret"] \cap journal[l].copies["secret"] = {}
        BY <1>4, <1>5, <1>7, <4>1
      <4> QED BY <1>6, <1>8, <1>9, <3>2, <4>1, <4>2, <4>3, ZenonT(40)
    <3> QED BY <3>1, <3>2
  <2> QED BY <1>1, <1>3, <1>10, <2>1, <2>3, <2>4 DEF ListsFit
<1>23. ArmingFits'
  <2>1. \A k \in Lease : work'[k].at \notin Arms BY <1>2, <1>3, <1>9, <1>10 DEF SandboxInv, MutexHeld, Arms
  <2> QED BY <2>1 DEF ArmingFits
<1> QED BY <1>13, <1>14, <1>15, <1>16, <1>17, <1>18, <1>19, <1>20, <1>21, <1>22, <1>23 DEF SandboxInv

-----------------------------------------------------------------------------
(* The clean-up. *)

\* One actor cleans up at a time, and nobody arms then.
LEMMA CleaningAlone ==
  ASSUME Single, SandboxInv, NEW a \in Actor, work[a].at = "clean"
  PROVE  /\ mutex = a /\ work[a] \in Cleanings
         /\ \A k \in Lease : work[k].at \notin Arms
         /\ \A b \in Actor : b # a /\ work[b].at = "wait" => work[b].of # work[a].of
         /\ a \in Lease => work[a].of = a /\ work[a].then = "idle" /\ up # {}
         /\ a \in Account => up = {} /\ \A k \in Lease : work[k].at = "idle"
         /\ \A b \in Actor : work[b].at = "clean" => b = a
<1>1. mutex = a BY DEF SandboxInv, MutexHeld
<1>2. work[a] \in Cleanings BY DEF SandboxInv, SandboxTypeOK, Calm, Arms, Readied
<1>3. \A b \in Actor : work[b].at \in Arms \cup {"clean"} => b = a BY <1>1 DEF SandboxInv, MutexHeld
<1>4. \A k \in Lease : work[k].at \notin Arms BY <1>3, ActorsDiffer DEF Arms
<1>5. a \in Lease => work[a].of = a /\ work[a].then = "idle" /\ up # {} BY DEF SandboxInv, StageFits
<1>6. ASSUME a \in Account PROVE up = {} /\ \A k \in Lease : work[k].at = "idle"
  <2>1. up = {} BY <1>6, OneService DEF SandboxInv, AccountRests
  <2> QED BY <2>1 DEF SandboxInv, StageFits
<1>7. ASSUME NEW b \in Actor, b # a, work[b].at = "wait", work[b].of = work[a].of PROVE FALSE
  <2>1. CASE a \in Account BY <1>6, <1>7, <2>1 DEF Actor, Single
  <2>2. CASE a \in Lease
    <3>1. b \notin Account BY <1>5, <1>7, <2>2, OneService DEF SandboxInv, AccountRests
    <3>2. b \in Lease /\ work[b].of = b BY <1>7, <3>1 DEF Actor, SandboxInv, StageFits
    <3> QED BY <1>5, <1>7, <2>2, <3>2
  <2> QED BY <2>1, <2>2 DEF Actor
<1> QED BY <1>1, <1>2, <1>3, <1>4, <1>5, <1>6, <1>7

\* What a step of the clean-up must leave: the next step's facts, the users'
\* entries, and the grants of others.
LEMMA CleaningFits ==
  ASSUME Single, SandboxInv, NEW a \in Actor, work[a].at = "clean",
         NEW l \in Lease, l = work[a].of,
         UNCHANGED <<home, journal, hosted, program, up, mutex, plain>>,
         NEW w \in Cleanings, work' = [work EXCEPT ![a] = w],
         w.at = "clean", w.of = l, w.then = work[a].then, w.step >= 2,
         own' \in [Object -> SUBSET Entries], sealed' \subseteq sealed,
         \A o \in Object : Users(own'[o]) = own'[o] \/ (o = "root" /\ own'[o] \subseteq own[o]),
         \A k \in Lease : k # l => Of(k, own'["root"]) = Of(k, own["root"]),
         Of(l, own'["root"]) = {}, ~Entered(l) => sealed' = sealed,
         Entered(l) /\ w.step >= 3 => "root" \notin sealed',
         Entered(l) /\ w.step = 4 => sealed' = plain.cut,
         ListsFit'
  PROVE  SandboxInv'
<1>1. /\ work'[a] = w /\ \A b \in Actor : b # a => work'[b] = work[b]
      /\ \A k \in Lease : Entered(k)' = Entered(k) /\ k \in Actor
  BY ActorsDiffer DEF SandboxInv, SandboxTypeOK, Entered
<1>2. /\ mutex = a /\ (\A k \in Lease : work[k].at \notin Arms)
      /\ \A b \in Actor : b # a => work[b].at # "clean"
      /\ \A b \in Actor : b # a /\ work[b].at = "wait" => work[b].of # l
      /\ a \in Lease => l = a /\ w.then = "idle" /\ up # {}
      /\ a \in Account => up = {} /\ \A k \in Lease : work[k].at = "idle"
  BY CleaningAlone
<1>3. journal[l].kept /\ ~program[l] BY DEF SandboxInv, CleanFits
<1>4. \A k \in Lease : k # l /\ Entered(k) => Armed(k)' = Armed(k)
  BY DEF SandboxInv, OnlyOne, Armed
<1>5. SandboxTypeOK' BY DEF SandboxInv, SandboxTypeOK
<1>6. RecordFits' BY <1>1 DEF SandboxInv, RecordFits
<1>7. StageFits'
  <2> SUFFICES ASSUME NEW k \in Lease
               PROVE  /\ work'[k].at \in {"recover", "scanned"} => ~journal[k].kept
                      /\ work'[k].at = "saved" => journal[k].kept /\ journal[k].known = {}
                      /\ work'[k].at \in Arms \cup Readied => Entered(k)
                      /\ work'[k].at \in Readied => Armed(k)' /\ (work'[k].at # "ready" => journal[k].host)
                      /\ work'[k].at \in {"wait", "clean"} => work'[k].of = k /\ work'[k].then = "idle"
                      /\ work'[k].at # "idle" => up # {}
    BY <1>1 DEF StageFits
  <2>1. CASE k = a BY <1>1, <1>2, <2>1 DEF Arms, Readied
  <2>2. CASE k # a
    <3>1. work'[k] = work[k] BY <1>1, <2>2
    <3>2. work[k].at \in Readied => k # l
      BY <1>2, <2>2, ActorsDiffer DEF Readied, Actor
    <3> QED BY <1>4, <3>1, <3>2 DEF SandboxInv, StageFits
  <2> QED BY <2>1, <2>2
<1>8. ProgramFits'
  <2> SUFFICES ASSUME NEW k \in Lease, program[k]
               PROVE  Entered(k) /\ Armed(k)' /\ journal[k].host /\ hosted[k] /\ work'[k].at \in {"run", "over", "idle"}
    BY <1>1 DEF ProgramFits
  <2>1. k # l /\ Entered(k) /\ Armed(k) /\ k # a BY <1>3 DEF SandboxInv, ProgramFits
  <2> QED BY <1>1, <1>4, <2>1 DEF SandboxInv, ProgramFits
<1>9. AccountRests' BY <1>1, <1>2, ActorsDiffer DEF SandboxInv, AccountRests
<1>10. MutexHeld' BY <1>1, <1>2, ActorsDiffer DEF SandboxInv, MutexHeld
<1>11. CleanFits'
  <2> SUFFICES ASSUME NEW b \in Actor, NEW k \in Lease, work'[b].at \in {"wait", "clean"}, work'[b].of = k
               PROVE  /\ journal[k].kept /\ ~program[k]
                      /\ work'[b].at = "wait" => work'[b].step = 1
                      /\ work'[b].step >= 2 => Of(k, own'["root"]) = {}
                      /\ work'[b].step >= 3 /\ Entered(k) => "root" \notin sealed'
                      /\ work'[b].step = 4 /\ Entered(k) => sealed' = plain.cut
    BY <1>1 DEF CleanFits
  <2>1. CASE b = a BY <1>1, <1>3, <2>1
  <2>2. CASE b # a
    <3>1. work'[b] = work[b] /\ work[b].at = "wait" BY <1>1, <1>2, <2>2
    <3>2. work[b].step = 1 /\ journal[k].kept /\ ~program[k] BY <3>1 DEF SandboxInv, CleanFits
    <3> QED BY <3>1, <3>2
  <2> QED BY <2>1, <2>2
<1>12. OnlyOne'
  <2>1. Users(own'["top"]) = own'["top"] /\ Users(own'["secret"]) = own'["secret"] BY DEF Object
  <2>2. ASSUME NEW e \in own'["root"], e.who \in Lease PROVE Entered(e.who)
    <3>1. e \in own["root"] BY <2>2 DEF Object, Users
    <3> QED BY <2>2, <3>1 DEF SandboxInv, OnlyOne
  <2>3. \A k, m \in Lease : Entered(k) /\ Entered(m) => k = m BY DEF SandboxInv, OnlyOne
  <2> QED BY <1>1, <2>1, <2>2, <2>3 DEF OnlyOne
<1>13. GrantShows'
  <2> SUFFICES ASSUME NEW k \in Lease, Entered(k), up # {}, work'[k].at # "grant",
                      ~(work'[k].at = "clean" /\ work'[k].step >= 2)
               PROVE  Of(k, own'["root"]) # {}
    BY <1>1 DEF GrantShows
  <2>1. k # a BY <1>1
  <2>2. k # l BY <1>2, <2>1 DEF Actor
  <2>3. work'[k] = work[k] BY <1>1, <2>1
  <2> QED BY <2>2, <2>3 DEF SandboxInv, GrantShows
<1>14. ArmingFits'
  <2>1. \A k \in Lease : work'[k].at \notin Arms BY <1>1, <1>2 DEF Arms
  <2> QED BY <2>1 DEF ArmingFits
<1> QED BY <1>5, <1>6, <1>7, <1>8, <1>9, <1>10, <1>11, <1>12, <1>13, <1>14 DEF SandboxInv

LEMMA RevokeFits == ASSUME Single, SandboxInv, NEW a \in Actor, Revoke(a) PROVE SandboxInv'
<1> DEFINE l == work[a].of
           w == [work[a] EXCEPT !.step = 2]
           new == own["root"] \ Of(l, own["root"])
<1>1. /\ UNCHANGED <<home, sealed, journal, hosted, program, up, mutex, plain>> /\ work' = [work EXCEPT ![a] = w]
      /\ work[a].at = "clean" /\ work[a].step = 1 /\ own' = [own EXCEPT !["root"] = new]
  BY DEF Revoke
<1>2. work[a] \in Cleanings BY <1>1, CleaningAlone
<1>3. w \in Cleanings /\ w.at = "clean" /\ w.of = l /\ w.then = work[a].then /\ w.step = 2 /\ l \in Lease
  BY <1>1, <1>2 DEF Cleanings
<1>4. /\ new \subseteq own["root"] /\ new \subseteq Entries /\ Users(new) = Users(own["root"]) /\ Of(l, new) = {}
      /\ \A k \in Lease : k # l => Of(k, new) = Of(k, own["root"])
  BY <1>3 DEF Users, Of, SandboxInv, SandboxTypeOK, Object
<1> HIDE DEF l, w, new
<1>5. /\ own'["root"] = new /\ own'["top"] = own["top"] /\ own'["secret"] = own["secret"] /\ own' \in [Object -> SUBSET Entries]
  BY <1>1, <1>4 DEF SandboxInv, SandboxTypeOK, Object
<1>6. \A o \in Object : Users(own'[o]) = Users(own[o]) BY <1>4, <1>5 DEF Object
<1>7. ListsFit' BY <1>1, <1>6 DEF SandboxInv, ListsFit, Entered
<1>8. \A o \in Object : Users(own'[o]) = own'[o] \/ (o = "root" /\ own'[o] \subseteq own[o])
  BY <1>4, <1>5 DEF SandboxInv, OnlyOne, Object
<1>9. l = work[a].of BY DEF l
<1>10. w.step >= 2 /\ ~(w.step >= 3) /\ w.step # 4 BY <1>3
<1>11. Of(l, own'["root"]) = {} /\ \A k \in Lease : k # l => Of(k, own'["root"]) = Of(k, own["root"])
  BY <1>4, <1>5
<1>12. sealed' \subseteq sealed BY <1>1
<1> QED BY <1>1, <1>3, <1>5, <1>7, <1>8, <1>9, <1>10, <1>11, <1>12, CleaningFits, ZenonT(40)

LEMMA RestoreFits == ASSUME Single, SandboxInv, NEW a \in Actor, Restore(a) PROVE SandboxInv'
<1> DEFINE w == [work[a] EXCEPT !.step = work[a].step + 1]
<1>1. /\ UNCHANGED <<home, journal, hosted, program, up, mutex, plain>> /\ work' = [work EXCEPT ![a] = w]
      /\ work[a].at = "clean" /\ work[a].step \in {2, 3}
  BY DEF Restore
<1>2. work[a] \in Cleanings BY <1>1, CleaningAlone
<1>3. PICK l \in Lease : l = work[a].of BY <1>2 DEF Cleanings
<1>4. w \in Cleanings /\ w.at = "clean" /\ w.of = l /\ w.then = work[a].then /\ w.step = work[a].step + 1
  BY <1>1, <1>2, <1>3 DEF Cleanings
<1> HIDE DEF w
<1>5. PICK o \in {"root", "secret"} : o = Narrowed[work[a].step - 1] /\ (o = "root" <=> work[a].step = 2)
  BY <1>1 DEF Narrowed
<1>6. Of(l, own["root"]) = {} /\ (work[a].step = 3 /\ Entered(l) => "root" \notin sealed)
  BY <1>1, <1>3 DEF SandboxInv, CleanFits
<1>7. o \in Object /\ plain.cut \subseteq {"secret"} /\ plain.cut \subseteq sealed /\ sealed \subseteq {"root", "secret"}
  BY DEF Object, SandboxInv, SandboxTypeOK, ListsFit
<1>8. Entered(l) => journal[l].known = {"root", "secret"} /\ journal[l].cut = plain.cut
  BY DEF SandboxInv, RecordFits
<1>9. journal[l].kept BY <1>1, <1>3 DEF SandboxInv, CleanFits
<1>10. \A k \in Lease : Entered(k)' = Entered(k) BY <1>1 DEF Entered
<1>11. w.step >= 2 BY <1>1, <1>4
<1>12. ASSUME NEW new, own' = [own EXCEPT ![o] = new], new \subseteq own[o]
       PROVE  /\ own'[o] = new /\ own' \in [Object -> SUBSET Entries] /\ \A p \in Object : p # o => own'[p] = own[p]
              /\ \A p \in Object : Users(own'[p]) = own'[p] \/ (p = "root" /\ own'[p] \subseteq own[p])
              /\ Of(l, own'["root"]) = {}
  <2>1. own'[o] = new /\ own' \in [Object -> SUBSET Entries] /\ \A p \in Object : p # o => own'[p] = own[p]
    BY <1>7, <1>12 DEF SandboxInv, SandboxTypeOK
  <2>2. \A p \in Object : own'[p] \subseteq own[p] BY <1>12, <2>1
  <2>3. Users(own'["top"]) = own'["top"] /\ Users(own'["secret"]) = own'["secret"]
    BY <2>2 DEF SandboxInv, OnlyOne, Users, Object
  <2>4. Of(l, own'["root"]) = {} BY <1>6, <2>2 DEF Of, Object
  <2> QED BY <2>1, <2>2, <2>3, <2>4 DEF Object
<1>13. CASE ~(o \in journal[l].known /\ o \notin journal[l].cut)
  <2> DEFINE new == own[o] \ Of(l, own[o])
  <2>1. own' = [own EXCEPT ![o] = new] /\ sealed' = sealed BY <1>3, <1>5, <1>13 DEF Restore
  <2>2. new \subseteq own[o] /\ Users(new) = Users(own[o]) /\ \A k \in Lease : k # l => Of(k, new) = Of(k, own[o])
    BY DEF Users, Of
  <2> HIDE DEF new
  <2>3. /\ own'[o] = new /\ own' \in [Object -> SUBSET Entries] /\ \A p \in Object : p # o => own'[p] = own[p]
        /\ \A p \in Object : Users(own'[p]) = own'[p] \/ (p = "root" /\ own'[p] \subseteq own[p])
        /\ Of(l, own'["root"]) = {}
    BY <1>12, <2>1, <2>2
  <2>4. \A k \in Lease : k # l => Of(k, own'["root"]) = Of(k, own["root"])
    BY <2>2, <2>3 DEF Object
  <2>5. ASSUME Entered(l) PROVE o = "secret" /\ sealed = plain.cut
    <3>1. o \in plain.cut BY <1>8, <1>13, <2>5
    <3>2. o = "secret" /\ work[a].step = 3 BY <1>1, <1>5, <1>7, <3>1
    <3> QED BY <1>6, <1>7, <2>5, <3>1, <3>2
  <2>6. ListsFit'
    <3>1. \A p \in Object : Users(own'[p]) = Users(own[p]) BY <2>2, <2>3
    <3> QED BY <1>1, <1>10, <2>1, <3>1 DEF SandboxInv, ListsFit
  <2>7. Entered(l) => "root" \notin sealed' /\ sealed' = plain.cut BY <1>7, <2>1, <2>5
  <2>8. sealed' \subseteq sealed /\ (~Entered(l) => sealed' = sealed) BY <2>1
  <2>9. (Entered(l) /\ w.step >= 3 => "root" \notin sealed') /\ (Entered(l) /\ w.step = 4 => sealed' = plain.cut)
    BY <2>7
  <2> QED BY <1>1, <1>3, <1>4, <1>11, <2>3, <2>4, <2>6, <2>8, <2>9, CleaningFits, ZenonT(40)
<1>14. CASE o \in journal[l].known /\ o \notin journal[l].cut
  <2> DEFINE new == (own[o] \ Of(l, own[o])) \ Copies(l, o)
  <2>1. own' = [own EXCEPT ![o] = new] /\ sealed' = sealed \ {o} BY <1>3, <1>5, <1>14 DEF Restore
  <2>2. Entered(l) /\ o \notin plain.cut
    <3>1. Entered(l) BY <1>9, <1>14 DEF Entered
    <3> QED BY <1>8, <1>14, <3>1
  <2>3. new \subseteq own[o] /\ Users(new) = Users(own[o]) \ Copies(l, o) BY DEF Users, Of
  <2> HIDE DEF new
  <2>4. /\ own'[o] = new /\ own' \in [Object -> SUBSET Entries] /\ \A p \in Object : p # o => own'[p] = own[p]
        /\ \A p \in Object : Users(own'[p]) = own'[p] \/ (p = "root" /\ own'[p] \subseteq own[p])
        /\ Of(l, own'["root"]) = {}
    BY <1>12, <2>1, <2>3
  <2>5. \A k \in Lease : k # l => Of(k, own'["root"]) = Of(k, own["root"])
    <3>1. \A k \in Lease : k # l => Of(k, own["root"]) = {} BY <2>2, OwnGrantsOnly DEF Of
    <3>2. own'["root"] \subseteq own["root"] BY <2>3, <2>4 DEF Object
    <3> QED BY <3>1, <3>2 DEF Of
  <2>6. Users(new) = plain.own[o]
    <3>1. CASE o \in sealed BY <1>7, <2>2, <2>3, <3>1 DEF SandboxInv, ListsFit, Copies
    <3>2. CASE o \notin sealed
      <4>1. Users(own[o]) = plain.own[o] BY <1>7, <3>2 DEF SandboxInv, ListsFit
      <4>2. Copies(l, o) = {} BY <3>2 DEF Copies
      <4> QED BY <2>3, <4>1, <4>2
    <3> QED BY <3>1, <3>2
  <2>7. ListsFit'
    <3>1. plain.cut \subseteq sealed' BY <1>7, <2>1, <2>2
    <3>2. \A p \in Object : p \in plain.cut \/ p \notin sealed' => Users(own'[p]) = plain.own[p]
      <4> TAKE p \in Object
      <4> HAVE p \in plain.cut \/ p \notin sealed'
      <4>1. CASE p = o BY <2>4, <2>6, <4>1
      <4>2. CASE p # o BY <2>1, <2>4, <4>2 DEF SandboxInv, ListsFit
      <4> QED BY <4>1, <4>2
    <3>3. \A p \in Object, k \in Lease : p \in sealed' \ plain.cut /\ Entered(k) => Users(own'[p]) \ journal[k].copies[p] = plain.own[p]
      <4> TAKE p \in Object, k \in Lease
      <4> HAVE p \in sealed' \ plain.cut /\ Entered(k)
      <4>1. p # o /\ p \in sealed /\ own'[p] = own[p] BY <2>1, <2>4
      <4> QED BY <4>1 DEF SandboxInv, ListsFit
    <3> QED BY <1>1, <1>10, <2>2, <3>1, <3>2, <3>3 DEF ListsFit
  <2>8. w.step >= 3 => "root" \notin sealed'
    BY <1>1, <1>4, <1>5, <1>6, <2>1, <2>2
  <2>9. w.step = 4 => sealed' = plain.cut
    <3> HAVE w.step = 4
    <3>1. work[a].step = 3 BY <1>1, <1>4
    <3>2. o = "secret" /\ "root" \notin sealed BY <1>1, <1>5, <1>6, <2>2, <3>1
    <3> QED BY <1>7, <2>1, <2>2, <3>2
  <2>10. sealed' \subseteq sealed BY <2>1
  <2> QED BY <1>1, <1>3, <1>4, <1>11, <2>2, <2>4, <2>5, <2>7, <2>8, <2>9, <2>10, CleaningFits, ZenonT(40)
<1> QED BY <1>13, <1>14

\* With the record goes what it stood for.
LEMMA UnlinkFits == ASSUME Single, SandboxInv, NEW a \in Actor, Unlink(a) PROVE SandboxInv'
<1> DEFINE w == [at |-> work[a].then]
<1>1. /\ UNCHANGED <<home, own, sealed, hosted, program, up, plain>> /\ work' = [work EXCEPT ![a] = w] /\ mutex' = Nobody
      /\ work[a].at = "clean" /\ work[a].step = 4 /\ journal' = [journal EXCEPT ![work[a].of] = NoJournal]
  BY DEF Unlink, Go, Doing
<1>2. /\ mutex = a /\ work[a] \in Cleanings /\ (\A k \in Lease : work[k].at \notin Arms)
      /\ \A b \in Actor : b # a => work[b].at # "clean"
      /\ \A b \in Actor : b # a /\ work[b].at = "wait" => work[b].of # work[a].of
      /\ a \in Lease => work[a].of = a /\ work[a].then = "idle" /\ up # {}
      /\ a \in Account => up = {} /\ \A k \in Lease : work[k].at = "idle"
  BY <1>1, CleaningAlone
<1>3. PICK l \in Lease : l = work[a].of BY <1>2 DEF Cleanings
<1>4. w.at = work[a].then /\ w.at \in {"recover", "idle"} /\ w \in Calm BY <1>2 DEF Cleanings, Calm
<1> HIDE DEF w
<1>5. /\ journal[l].kept /\ ~program[l] /\ Of(l, own["root"]) = {} /\ (Entered(l) => sealed = plain.cut)
  BY <1>1, <1>3 DEF SandboxInv, CleanFits
<1>6. /\ journal'[l] = NoJournal /\ \A k \in Lease : k # l => journal'[k] = journal[k]
      /\ work'[a] = w /\ \A b \in Actor : b # a => work'[b] = work[b]
  BY <1>1, <1>3 DEF SandboxInv, SandboxTypeOK
<1>7. \A k \in Lease : (Entered(k)' <=> Entered(k) /\ k # l) /\ Armed(k)' = Armed(k) /\ k \in Actor
  BY <1>1, <1>6, NothingKept, ActorsDiffer DEF Entered, Armed
<1>8. SandboxTypeOK'
  <2>1. journal' \in [Lease -> {NoJournal} \cup Records] BY <1>1, <1>3 DEF SandboxInv, SandboxTypeOK
  <2> QED BY <1>1, <1>4, <2>1 DEF SandboxInv, SandboxTypeOK
<1>9. RecordFits' BY <1>1, <1>6, <1>7, NothingKept DEF SandboxInv, RecordFits
<1>10. \A k \in Lease : k # a => k # l \/ work[k].at = "idle" BY <1>2, <1>3, ActorsDiffer DEF Actor
<1>11. StageFits'
  <2> SUFFICES ASSUME NEW k \in Lease
               PROVE  /\ work'[k].at \in {"recover", "scanned"} => ~journal'[k].kept
                      /\ work'[k].at = "saved" => journal'[k].kept /\ journal'[k].known = {}
                      /\ work'[k].at \in Arms \cup Readied => Entered(k) /\ k # l
                      /\ work'[k].at \in Readied => Armed(k) /\ (work'[k].at # "ready" => journal'[k].host)
                      /\ work'[k].at \in {"wait", "clean"} => work'[k].of = k /\ work'[k].then = "idle"
                      /\ work'[k].at # "idle" => up # {}
    BY <1>1, <1>7 DEF StageFits
  <2>1. CASE k = a BY <1>2, <1>4, <1>6, <2>1 DEF Arms, Readied
  <2>2. CASE k # a /\ work[k].at = "idle" BY <1>6, <1>7, <2>2 DEF Arms, Readied
  <2>3. CASE k # a /\ k # l
    <3>1. work'[k] = work[k] /\ journal'[k] = journal[k] BY <1>6, <1>7, <2>3
    <3> QED BY <2>3, <3>1 DEF SandboxInv, StageFits
  <2> QED BY <1>10, <2>1, <2>2, <2>3
<1>12. ProgramFits'
  <2> SUFFICES ASSUME NEW k \in Lease, program[k]
               PROVE  Entered(k) /\ k # l /\ Armed(k) /\ journal'[k].host /\ hosted[k] /\ work'[k].at \in {"run", "over", "idle"}
    BY <1>1, <1>7 DEF ProgramFits
  <2>1. k # l /\ k # a BY <1>1, <1>5 DEF SandboxInv, ProgramFits
  <2>2. work'[k] = work[k] /\ journal'[k] = journal[k] BY <1>6, <1>7, <2>1
  <2> QED BY <2>1, <2>2 DEF SandboxInv, ProgramFits
<1>13. AccountRests' BY <1>1, <1>2, <1>4, <1>6, ActorsDiffer DEF SandboxInv, AccountRests
<1>14. MutexHeld'
  <2>1. \A b \in Actor : work'[b].at \notin Arms \cup {"clean"}
    BY <1>2, <1>4, <1>6 DEF SandboxInv, MutexHeld, Arms
  <2> QED BY <2>1 DEF MutexHeld
<1>15. CleanFits'
  <2>1. \A b \in Actor, k \in Lease : work'[b].at \in {"wait", "clean"} /\ work'[b].of = k =>
                      /\ work'[b].at = "wait" /\ work'[b].step = 1 /\ journal'[k].kept /\ ~program[k]
    <3> TAKE b \in Actor, k \in Lease
    <3> HAVE work'[b].at \in {"wait", "clean"} /\ work'[b].of = k
    <3>1. b # a /\ work'[b] = work[b] /\ work[b].at = "wait" BY <1>2, <1>4, <1>6
    <3>2. k # l BY <1>2, <1>3, <3>1
    <3> QED BY <1>6, <3>1, <3>2 DEF SandboxInv, CleanFits
  <2> QED BY <1>1, <2>1 DEF CleanFits
<1>16. OnlyOne'
  <2>1. \A e \in own["root"] : e.who # l BY <1>5 DEF Of
  <2> QED BY <1>1, <1>7, <2>1 DEF SandboxInv, OnlyOne
<1>17. GrantShows'
  <2> SUFFICES ASSUME NEW k \in Lease, Entered(k), k # l, up # {}, work'[k].at # "grant",
                      ~(work'[k].at = "clean" /\ work'[k].step >= 2)
               PROVE  Of(k, own["root"]) # {}
    BY <1>1, <1>7 DEF GrantShows
  <2>1. k # a BY <1>2, <1>3 DEF Actor
  <2> QED BY <1>6, <1>7, <2>1 DEF SandboxInv, GrantShows
<1>18. ListsFit'
  <2>1. (\A k \in Lease : ~(Entered(k) /\ k # l)) => sealed = plain.cut BY <1>5 DEF SandboxInv, ListsFit
  <2> QED BY <1>1, <1>6, <1>7, <2>1 DEF SandboxInv, ListsFit
<1>19. ArmingFits'
  <2>1. \A k \in Lease : work'[k].at \notin Arms BY <1>2, <1>4, <1>6, <1>7 DEF Arms
  <2> QED BY <2>1 DEF ArmingFits
<1> QED BY <1>8, <1>9, <1>11, <1>12, <1>13, <1>14, <1>15, <1>16, <1>17, <1>18, <1>19 DEF SandboxInv

-----------------------------------------------------------------------------
(* Crashes and users. *)

\* The service starts again with nobody at work and records without an owner.
LEMMA CrashFits == ASSUME Single, SandboxInv, NEW a \in Account, Crash(a) PROVE SandboxInv'
<1>1. /\ UNCHANGED <<home, own, sealed, hosted, program, plain>> /\ up' = up \ {a}
      /\ work' = [b \in Actor |-> IF Base(b) = a THEN Resting ELSE work[b]]
      /\ mutex' = IF mutex # Nobody /\ Base(mutex) = a THEN Nobody ELSE mutex
      /\ journal' = [l \in Lease |-> IF journal[l].kept /\ journal[l].base = a
                                     THEN [journal[l] EXCEPT !.owner = FALSE] ELSE journal[l]]
  BY DEF Crash
<1>2. up' = {} BY <1>1 DEF Single, SandboxInv, SandboxTypeOK
<1>3. mutex' = Nobody BY <1>1, OneService DEF SandboxInv, SandboxTypeOK
<1>4. work' \in [Actor -> Calm \cup Cleanings] /\ \A b \in Actor : work'[b].at = "idle"
  <2>1. \A b \in Actor : Base(b) = a BY OneService DEF SandboxInv
  <2>2. work' = [b \in Actor |-> Resting] BY <1>1, <2>1
  <2>3. Resting \in Calm /\ Resting.at = "idle" BY DEF Resting, Calm
  <2> QED BY <2>2, <2>3
<1>5. /\ journal' \in [Lease -> {NoJournal} \cup Records]
      /\ \A l \in Lease : /\ journal'[l].kept = journal[l].kept
                          /\ journal[l].kept => /\ journal'[l].known = journal[l].known /\ journal'[l].cut = journal[l].cut
                                               /\ journal'[l].copies = journal[l].copies /\ journal'[l].host = journal[l].host
  <2>1. \A l \in Lease : journal[l].kept => journal[l] \in Records
    BY NothingKept DEF SandboxInv, SandboxTypeOK
  <2>2. ASSUME NEW l \in Lease
        PROVE  /\ journal'[l] \in {NoJournal} \cup Records /\ journal'[l].kept = journal[l].kept
               /\ journal[l].kept => /\ journal'[l].known = journal[l].known /\ journal'[l].cut = journal[l].cut
                                    /\ journal'[l].copies = journal[l].copies /\ journal'[l].host = journal[l].host
    <3>1. CASE journal[l].kept /\ journal[l].base = a
      <4>1. journal'[l] = [journal[l] EXCEPT !.owner = FALSE] BY <1>1, <3>1
      <4>2. journal[l] \in Records BY <2>1, <3>1
      <4> QED BY <4>1, <4>2 DEF Records
    <3>2. CASE ~(journal[l].kept /\ journal[l].base = a)
      BY <1>1, <3>2 DEF SandboxInv, SandboxTypeOK
    <3> QED BY <3>1, <3>2
  <2> QED BY <1>1, <2>2
<1>6. \A l \in Lease : Entered(l)' = Entered(l) /\ Armed(l)' = Armed(l) /\ l \in Actor
  BY <1>1, <1>5, ActorsDiffer DEF Entered, Armed
<1>7. SandboxTypeOK' BY <1>1, <1>2, <1>3, <1>4, <1>5 DEF SandboxInv, SandboxTypeOK
<1>8. RecordFits' BY <1>1, <1>2, <1>5, <1>6 DEF SandboxInv, RecordFits, Entered
<1>9. StageFits' BY <1>4, <1>6 DEF StageFits, Arms, Readied
<1>10. ProgramFits' BY <1>1, <1>4, <1>5, <1>6 DEF SandboxInv, ProgramFits, Entered
<1>11. AccountRests' BY <1>4, ActorsDiffer DEF AccountRests
<1>12. MutexHeld' /\ CleanFits' BY <1>4 DEF MutexHeld, CleanFits, Arms
<1>13. OnlyOne' BY <1>1, <1>6 DEF SandboxInv, OnlyOne
<1>14. GrantShows' BY <1>2 DEF GrantShows
<1>15. ListsFit' BY <1>1, <1>5, <1>6 DEF SandboxInv, ListsFit, Entered
<1>16. ArmingFits' BY <1>4, <1>6 DEF ArmingFits, Arms
<1> QED BY <1>7, <1>8, <1>9, <1>10, <1>11, <1>12, <1>13, <1>14, <1>15, <1>16 DEF SandboxInv

\* What users do to their own entries shows in no lease's grant.
LEMMA UserFits ==
  ASSUME SandboxInv, ~Arming, UNCHANGED <<home, sealed, journal, hosted, program, up, work, mutex>>,
         own' \in [Object -> SUBSET Entries], plain' \in [own : [Object -> SUBSET Entries], cut : SUBSET {"secret"}],
         plain'.cut = plain.cut,
         \A o \in Object, l \in Lease : Of(l, own'[o]) = Of(l, own[o]), ListsFit'
  PROVE  SandboxInv'
<1>1. \A l \in Lease : Entered(l)' = Entered(l) /\ Armed(l)' = Armed(l) BY DEF Entered, Armed, Object
<1>2. SandboxTypeOK' BY DEF SandboxInv, SandboxTypeOK
<1>3. RecordFits' BY <1>1 DEF SandboxInv, RecordFits
<1>4. StageFits' /\ ProgramFits' BY <1>1 DEF SandboxInv, StageFits, ProgramFits
<1>5. AccountRests' /\ MutexHeld' BY DEF SandboxInv, AccountRests, MutexHeld
<1>6. CleanFits' BY <1>1 DEF SandboxInv, CleanFits, Object
<1>7. OnlyOne'
  <2>1. \A o \in Object : Users(own[o]) = own[o] => Users(own'[o]) = own'[o]
    BY DEF Users, Of
  <2>2. \A e \in own'["root"] : e.who \in Lease => Entered(e.who)
    <3> TAKE e \in own'["root"]
    <3> HAVE e.who \in Lease
    <3>1. e \in Of(e.who, own'["root"]) BY DEF Of
    <3>2. e \in own["root"] BY <3>1 DEF Of, Object
    <3> QED BY <3>2 DEF SandboxInv, OnlyOne
  <2> QED BY <1>1, <2>1, <2>2 DEF SandboxInv, OnlyOne, Object
<1>8. GrantShows' BY <1>1 DEF SandboxInv, GrantShows, Object
<1>9. ArmingFits' BY DEF Arming, ArmingFits, Arms
<1> QED BY <1>2, <1>3, <1>4, <1>5, <1>6, <1>7, <1>8, <1>9 DEF SandboxInv

\* plain.own[o] and own[o] change alike, but for an entry taken for a copy.
LEMMA EditFits == ASSUME SandboxInv, CopiesFit, UserEdit PROVE SandboxInv'
<1>1. ~Arming /\ UNCHANGED <<home, sealed, journal, hosted, program, up, work, mutex>> BY DEF UserEdit
<1>2. plain = [own |-> plain.own, cut |-> plain.cut] /\ plain.own \in [Object -> SUBSET Entries] /\ plain.cut \subseteq {"secret"}
  BY DEF SandboxInv, SandboxTypeOK
<1>3. \A k \in Lease : Entered(k)' = Entered(k) BY <1>1 DEF Entered
<1>4. PICK o \in Object, e \in Entries :
        /\ e.who \notin Lease
        /\ \/ /\ e \notin Reach(own, sealed)[o] /\ own' = [own EXCEPT ![o] = own[o] \cup {e}]
              /\ plain' = IF \E l \in Lease : journal[l].kept /\ e \in Copies(l, o) THEN plain
                          ELSE [plain EXCEPT !.own[o] = @ \cup {e}]
           \/ /\ e \in own[o] /\ own' = [own EXCEPT ![o] = own[o] \ {e}]
              /\ plain' = [plain EXCEPT !.own[o] = @ \ {e}]
  <2>1. \A p \in Person : Entry(p, "user") \in Entries /\ Entry(p, "user").who \notin Lease
    BY SandboxShape DEF Entry, Entries
  <2> QED BY <2>1 DEF UserEdit
<1>5. PICK new, free \in SUBSET Entries :
        /\ own' = [own EXCEPT ![o] = new] /\ plain' = [own |-> [plain.own EXCEPT ![o] = free], cut |-> plain.cut]
        /\ \A k \in Lease : Of(k, new) = Of(k, own[o])
        /\ \/ /\ free = plain.own[o] \cup {e} /\ Users(new) = Users(own[o]) \cup {e}
              /\ ~\E l \in Lease : journal[l].kept /\ e \in Copies(l, o)
           \/ /\ free = plain.own[o] /\ Users(new) = Users(own[o]) \cup {e}
              /\ \E l \in Lease : journal[l].kept /\ e \in Copies(l, o)
           \/ free = plain.own[o] \ {e} /\ Users(new) = Users(own[o]) \ {e}
  <2>1. own[o] \subseteq Entries /\ plain.own[o] \subseteq Entries BY <1>2 DEF SandboxInv, SandboxTypeOK
  <2>2. CASE /\ own' = [own EXCEPT ![o] = own[o] \cup {e}]
             /\ \E l \in Lease : journal[l].kept /\ e \in Copies(l, o)
             /\ plain' = plain
    <3>1. plain' = [own |-> [plain.own EXCEPT ![o] = plain.own[o]], cut |-> plain.cut] BY <1>2, <2>2
    <3>2. Users(own[o] \cup {e}) = Users(own[o]) \cup {e} /\ \A k \in Lease : Of(k, own[o] \cup {e}) = Of(k, own[o])
      BY <1>4 DEF Users, Of
    <3> QED BY <2>1, <2>2, <3>1, <3>2
  <2>3. CASE /\ own' = [own EXCEPT ![o] = own[o] \cup {e}]
             /\ ~\E l \in Lease : journal[l].kept /\ e \in Copies(l, o)
             /\ plain' = [plain EXCEPT !.own[o] = @ \cup {e}]
    <3>1. plain' = [own |-> [plain.own EXCEPT ![o] = plain.own[o] \cup {e}], cut |-> plain.cut] BY <1>2, <2>3
    <3>2. Users(own[o] \cup {e}) = Users(own[o]) \cup {e} /\ \A k \in Lease : Of(k, own[o] \cup {e}) = Of(k, own[o])
      BY <1>4 DEF Users, Of
    <3> QED BY <2>1, <2>3, <3>1, <3>2
  <2>4. CASE own' = [own EXCEPT ![o] = own[o] \ {e}] /\ plain' = [plain EXCEPT !.own[o] = @ \ {e}]
    <3>1. plain' = [own |-> [plain.own EXCEPT ![o] = plain.own[o] \ {e}], cut |-> plain.cut] BY <1>2, <2>4
    <3>2. Users(own[o] \ {e}) = Users(own[o]) \ {e} /\ \A k \in Lease : Of(k, own[o] \ {e}) = Of(k, own[o])
      BY <1>4 DEF Users, Of
    <3> QED BY <2>1, <2>4, <3>1, <3>2
  <2> QED BY <1>4, <2>2, <2>3, <2>4
<1>6. /\ own'[o] = new /\ own' \in [Object -> SUBSET Entries] /\ \A p \in Object : p # o => own'[p] = own[p]
      /\ plain'.cut = plain.cut /\ plain'.own[o] = free /\ \A p \in Object : p # o => plain'.own[p] = plain.own[p]
      /\ plain' \in [own : [Object -> SUBSET Entries], cut : SUBSET {"secret"}]
  BY <1>2, <1>5 DEF SandboxInv, SandboxTypeOK
<1>7. \A p \in Object, k \in Lease : Of(k, own'[p]) = Of(k, own[p]) BY <1>5, <1>6
<1>8. ListsFit'
  <2>1. plain'.cut \subseteq sealed' /\ ((\A k \in Lease : ~Entered(k)) => sealed' = plain'.cut)
    BY <1>1, <1>6 DEF SandboxInv, ListsFit
  <2>2. ASSUME NEW l \in Lease, journal[l].kept, e \in Copies(l, o)
        PROVE  Entered(l) /\ o \in sealed \ plain.cut /\ e \in journal[l].copies[o]
    <3>1. o \in sealed /\ e \in journal[l].copies[o] BY <2>2 DEF Copies
    <3> QED BY <2>2, <3>1 DEF CopiesFit
  <2>3. ASSUME NEW p \in Object, p \in plain.cut \/ p \notin sealed PROVE Users(own'[p]) = plain'.own[p]
    <3>1. Users(own[p]) = plain.own[p] BY <2>3 DEF SandboxInv, ListsFit
    <3>2. CASE p # o BY <1>6, <3>1, <3>2
    <3>3. CASE p = o
      <4>1. ~\E l \in Lease : journal[l].kept /\ e \in Copies(l, o) BY <2>2, <2>3, <3>3
      <4> QED BY <1>5, <1>6, <3>1, <3>3, <4>1
    <3> QED BY <3>2, <3>3
  <2>4. ASSUME NEW p \in Object, NEW k \in Lease, p \in sealed \ plain.cut, Entered(k)
        PROVE  Users(own'[p]) \ journal[k].copies[p] = plain'.own[p]
    <3>1. Users(own[p]) \ journal[k].copies[p] = plain.own[p] BY <2>4 DEF SandboxInv, ListsFit
    <3>2. CASE p # o BY <1>6, <3>1, <3>2
    <3>3. CASE p = o
      <4>1. (\E l \in Lease : journal[l].kept /\ e \in Copies(l, o)) <=> e \in journal[k].copies[o]
        <5>1. e \in journal[k].copies[o] => e \in Copies(k, o) /\ journal[k].kept BY <2>4, <3>3 DEF Copies, Entered
        <5>2. ASSUME NEW l \in Lease, journal[l].kept, e \in Copies(l, o) PROVE e \in journal[k].copies[o]
          <6>1. Entered(l) /\ e \in journal[l].copies[o] BY <2>2, <5>2
          <6>2. l = k BY <2>4, <6>1 DEF SandboxInv, OnlyOne
          <6> QED BY <6>1, <6>2
        <5> QED BY <5>1, <5>2
      <4> QED BY <1>5, <1>6, <3>1, <3>3, <4>1
    <3> QED BY <3>2, <3>3
  <2> QED BY <1>1, <1>3, <1>6, <2>1, <2>3, <2>4 DEF ListsFit
<1> QED BY <1>1, <1>6, <1>7, <1>8, UserFits

-----------------------------------------------------------------------------
(* The theorems. *)

LEMMA SandboxStart == SandboxInit => SandboxInv /\ CopiesFit
<1> SUFFICES ASSUME SandboxInit PROVE SandboxInv /\ CopiesFit OBVIOUS
<1>1. /\ \A l \in Lease : ~journal[l].kept /\ ~Entered(l) /\ ~program[l] /\ work[l].at = "idle"
      /\ \A a \in Actor : work[a].at = "idle"
      /\ up = Account /\ plain.own = own /\ plain.cut = sealed /\ sealed \subseteq {"secret"}
  BY NothingKept, ActorsDiffer DEF SandboxInit, Resting, Entered
<1>2. own \in [Object -> SUBSET {Entry(p, "user") : p \in Person}] BY DEF SandboxInit
<1>3. \A o \in Object : own[o] \subseteq Entries /\ \A e \in own[o] : e.who \notin Lease
  BY <1>2, EntriesOf, SandboxShape DEF Entry, Entries
<1>4. \A o \in Object : Users(own[o]) = own[o] BY <1>3 DEF Users
<1>5. own \in [Object -> SUBSET Entries] BY <1>2, <1>3
<1>6. SandboxTypeOK
  <2>1. work \in [Actor -> Calm \cup Cleanings] BY DEF SandboxInit, Resting, Calm
  <2>2. journal \in [Lease -> {NoJournal} \cup Records] BY DEF SandboxInit
  <2>3. plain \in [own : [Object -> SUBSET Entries], cut : SUBSET {"secret"}] BY <1>1, <1>5 DEF SandboxInit
  <2>4. mutex \in Actor \cup {Nobody} BY DEF SandboxInit
  <2> QED BY <1>1, <1>5, <2>1, <2>2, <2>3, <2>4 DEF SandboxTypeOK, SandboxInit
<1>7. RecordFits /\ StageFits /\ ProgramFits /\ CopiesFit
  BY <1>1 DEF RecordFits, StageFits, ProgramFits, CopiesFit, Arms, Readied
<1>8. AccountRests /\ MutexHeld /\ CleanFits /\ GrantShows /\ ArmingFits
  BY <1>1, ActorsDiffer DEF AccountRests, MutexHeld, CleanFits, GrantShows, ArmingFits, Arms
<1>9. OnlyOne BY <1>1, <1>3, <1>4 DEF OnlyOne, Object
<1>10. ListsFit BY <1>1, <1>4 DEF ListsFit
<1> QED BY <1>6, <1>7, <1>8, <1>9, <1>10 DEF SandboxInv

LEMMA CopiesKept == ASSUME SandboxInv, CopiesFit, [SandboxNext]_sandboxVars PROVE CopiesFit'
<1>1. plain'.cut = plain.cut
  <2>1. UserEdit => plain'.cut = plain.cut
    <3>1. plain = [own |-> plain.own, cut |-> plain.cut] BY DEF SandboxInv, SandboxTypeOK
    <3> QED BY <3>1 DEF UserEdit
  <2>2. ~UserEdit => plain' = plain
    BY DEF SandboxNext, Begin, Refuse, Recovered, Clean, Revoke, Restore, Unlink, CleanFails, Take, Save, Enter, Grant,
           Narrow, Abandon, Bind, Command, HostEnds, EndLease, Close, Crash, sandboxVars
  <2> QED BY <2>1, <2>2
<1>2. SUFFICES \A l \in Lease, o \in Object :
        journal'[l].kept /\ (o \in plain.cut \/ journal'[l].known = {}) => journal'[l].copies[o] = {}
  BY <1>1 DEF CopiesFit, Entered
<1>3. \A l \in Lease, o \in Object :
        journal[l].kept /\ (o \in plain.cut \/ journal[l].known = {}) => journal[l].copies[o] = {}
  BY DEF CopiesFit, Entered
<1>4. \A l \in Lease : journal[l] \in {NoJournal} \cup Records /\ (journal[l].kept => journal[l] \in Records)
  BY NothingKept DEF SandboxInv, SandboxTypeOK
<1>5. ASSUME NEW l \in Lease, NEW r, journal' = [journal EXCEPT ![l] = r],
             \A o \in Object : r.kept /\ (o \in plain.cut \/ r.known = {}) => r.copies[o] = {}
      PROVE  \A k \in Lease, o \in Object :
               journal'[k].kept /\ (o \in plain.cut \/ journal'[k].known = {}) => journal'[k].copies[o] = {}
  <2>1. journal'[l] = r /\ \A k \in Lease : k # l => journal'[k] = journal[k]
    BY <1>5 DEF SandboxInv, SandboxTypeOK
  <2> QED BY <1>3, <1>5, <2>1
<1>6. CASE journal' = journal BY <1>3, <1>6
<1>7. ASSUME NEW l \in Lease, Save(l)
      PROVE  \A k \in Lease, o \in Object :
               journal'[k].kept /\ (o \in plain.cut \/ journal'[k].known = {}) => journal'[k].copies[o] = {}
  <2> DEFINE r == Record(home[l], TRUE)
  <2>1. journal' = [journal EXCEPT ![l] = r] BY <1>7 DEF Save
  <2>2. \A o \in Object : r.copies[o] = {} BY DEF Record
  <2> HIDE DEF r
  <2> QED BY <1>5, <2>1, <2>2
<1>8. ASSUME NEW l \in Lease, Enter(l)
      PROVE  \A k \in Lease, o \in Object :
               journal'[k].kept /\ (o \in plain.cut \/ journal'[k].known = {}) => journal'[k].copies[o] = {}
  <2> DEFINE r == [journal[l] EXCEPT !.known = {"root", "secret"}, !.cut = sealed, !.copies = [o \in Object |-> Inherited(o)]]
  <2>1. journal' = [journal EXCEPT ![l] = r] BY <1>8 DEF Enter
  <2>2. journal[l] \in Records BY <1>4, <1>8 DEF Enter, SandboxInv, StageFits
  <2>3. r.known # {} /\ \A o \in Object : r.copies[o] = Inherited(o) BY <2>2 DEF Records
  <2>4. \A o \in plain.cut : Inherited(o) = {} BY DEF SandboxInv, ListsFit, Inherited
  <2> HIDE DEF r
  <2> QED BY <1>5, <2>1, <2>3, <2>4
<1>9. ASSUME NEW l \in Lease, Bind(l)
      PROVE  \A k \in Lease, o \in Object :
               journal'[k].kept /\ (o \in plain.cut \/ journal'[k].known = {}) => journal'[k].copies[o] = {}
  <2> DEFINE r == [journal[l] EXCEPT !.host = TRUE]
  <2>1. journal' = [journal EXCEPT ![l] = r] BY <1>9 DEF Bind
  <2>2. journal[l] \in Records BY <1>4, <1>9 DEF Bind, SandboxInv, StageFits, Readied, Entered
  <2>3. r.kept = journal[l].kept /\ r.known = journal[l].known /\ r.copies = journal[l].copies BY <2>2 DEF Records
  <2> HIDE DEF r
  <2> QED BY <1>3, <1>5, <2>1, <2>3
<1>10. ASSUME NEW a \in Actor, Unlink(a)
      PROVE  \A k \in Lease, o \in Object :
               journal'[k].kept /\ (o \in plain.cut \/ journal'[k].known = {}) => journal'[k].copies[o] = {}
  <2>1. work[a] \in Calm \cup Cleanings /\ work[a].at = "clean" BY <1>10 DEF Unlink, SandboxInv, SandboxTypeOK
  <2>2. PICK l \in Lease : l = work[a].of BY <2>1 DEF Calm, Cleanings, Arms, Readied
  <2>3. journal' = [journal EXCEPT ![l] = NoJournal] BY <1>10, <2>2 DEF Unlink
  <2> QED BY <1>5, <2>3, NothingKept
<1>11. ASSUME NEW a \in Account, Crash(a)
      PROVE  \A k \in Lease, o \in Object :
               journal'[k].kept /\ (o \in plain.cut \/ journal'[k].known = {}) => journal'[k].copies[o] = {}
  <2> TAKE k \in Lease, o \in Object
  <2>1. CASE journal[k].kept /\ journal[k].base = a
    <3>1. journal'[k] = [journal[k] EXCEPT !.owner = FALSE] /\ journal[k] \in Records BY <1>4, <1>11, <2>1 DEF Crash
    <3>2. journal'[k].known = journal[k].known /\ journal'[k].copies = journal[k].copies BY <3>1 DEF Records
    <3> QED BY <1>3, <2>1, <3>2
  <2>2. CASE ~(journal[k].kept /\ journal[k].base = a)
    <3>1. journal'[k] = journal[k] BY <1>11, <2>2 DEF Crash
    <3> QED BY <1>3, <3>1
  <2> QED BY <2>1, <2>2
<1>12. \/ journal' = journal
       \/ \E l \in Lease : Save(l) \/ Enter(l) \/ Bind(l)
       \/ \E a \in Actor : Unlink(a)
       \/ \E a \in Account : Crash(a)
  BY DEF SandboxNext, Begin, Refuse, Recovered, Clean, Revoke, Restore, CleanFails, Take, Grant,
         Narrow, Abandon, Command, HostEnds, EndLease, Close, UserEdit, sandboxVars
<1> QED BY <1>6, <1>7, <1>8, <1>9, <1>10, <1>11, <1>12

LEMMA SandboxStep == ASSUME Single, SandboxInv, CopiesFit, [SandboxNext]_sandboxVars PROVE SandboxInv'
<1>1. ASSUME NEW a \in Actor,
             Begin(a) \/ Refuse(a) \/ Clean(a) \/ Revoke(a) \/ Restore(a) \/ Unlink(a) \/ CleanFails(a)
      PROVE  SandboxInv'
  BY <1>1, BeginTurns, RefuseTurns, CleanTurns, RevokeFits, RestoreFits, UnlinkFits, CleanFailsTurns
<1>2. ASSUME NEW a \in Actor, Recovered(a) PROVE SandboxInv'
  BY <1>2, RecoveredTurns, RecoveredFits DEF Actor
<1>3. ASSUME NEW a \in Actor, NEW l \in Lease, Take(a, l) PROVE SandboxInv' BY <1>3, TakeTurns
<1>4. ASSUME NEW l \in Lease,
             \/ Save(l) \/ Enter(l) \/ Grant(l) \/ Narrow(l, "root") \/ Narrow(l, "secret") \/ Abandon(l)
             \/ Bind(l) \/ Command(l) \/ HostEnds(l) \/ EndLease(l) \/ Close(l)
      PROVE  SandboxInv'
  BY <1>4, SaveFits, EnterFits, GrantFits, NarrowRootFits, NarrowSecretFits, AbandonTurns, BindFits, CommandFits,
     HostEndsFits, EndTurns, CloseTurns
<1>5. ASSUME NEW a \in Account, Crash(a) PROVE SandboxInv' BY <1>5, CrashFits
<1>6. CASE UserEdit BY <1>6, EditFits
<1>7. CASE UNCHANGED sandboxVars
  <2>1. \A l \in Lease : Entered(l)' = Entered(l) /\ Armed(l)' = Armed(l) BY <1>7 DEF sandboxVars, Entered, Armed
  <2>2. SandboxTypeOK' /\ RecordFits' /\ StageFits' /\ ProgramFits' /\ AccountRests' /\ MutexHeld'
    BY <1>7, <2>1 DEF sandboxVars, SandboxInv, SandboxTypeOK, RecordFits, StageFits, ProgramFits, AccountRests, MutexHeld
  <2>3. CleanFits' /\ OnlyOne' /\ GrantShows' /\ ListsFit' /\ ArmingFits'
    BY <1>7, <2>1 DEF sandboxVars, SandboxInv, CleanFits, OnlyOne, GrantShows, ListsFit, ArmingFits
  <2> QED BY <2>2, <2>3 DEF SandboxInv
<1> QED BY <1>1, <1>2, <1>3, <1>4, <1>5, <1>6, <1>7 DEF SandboxNext

LEMMA SandboxHolds == ASSUME Single PROVE SandboxSpec => [](SandboxInv /\ CopiesFit)
<1>1. SandboxInit => SandboxInv /\ CopiesFit BY SandboxStart
<1>2. (SandboxInv /\ CopiesFit) /\ [SandboxNext]_sandboxVars => (SandboxInv /\ CopiesFit)' BY SandboxStep, CopiesKept
<1> QED BY <1>1, <1>2, PTL DEF SandboxSpec

\* Every variable holds what it is meant to, with one service and no failing grant.
THEOREM SandboxTypeCorrect == ASSUME Single PROVE SandboxSpec => []SandboxTypeOK
<1>1. SandboxInv => SandboxTypeOK BY DEF SandboxInv
<1> QED BY <1>1, SandboxHolds, PTL

\* As long as a program runs its grant reaches the project's root in the narrow form
\* and no credential, whatever crashed, however often, and whatever users changed.
THEOREM SecretsStayShut == ASSUME Single PROVE SandboxSpec => []SecretStaysShut
<1>1. SandboxInv => SecretStaysShut
  <2> SUFFICES ASSUME SandboxInv, NEW l \in Lease, program[l]
               PROVE  /\ Of(l, Reach(own, sealed)["root"]) = {Entry(l, "narrow")}
                      /\ Of(l, Reach(own, sealed)["secret"]) = {}
    BY DEF SecretStaysShut
  <2>1. {"root", "secret"} \subseteq sealed /\ Of(l, own["root"]) = {Entry(l, "narrow")}
    BY DEF SandboxInv, ProgramFits, Armed
  <2>2. Reach(own, sealed)["root"] = own["root"] BY <2>1, SealedReach
  <2>3. Reach(own, sealed)["secret"] = own["secret"] \cup {} BY <2>1, ReachIs
  <2>4. Of(l, own["secret"]) = {} BY DEF SandboxInv, OnlyOne, Users, Of
  <2> QED BY <2>1, <2>2, <2>3, <2>4
<1> QED BY <1>1, SandboxHolds, PTL

\* Once no record is left every list is what the users made of it: no grant, no copy
\* and no seal stays behind and no entry of theirs is lost, but one that was put where
\* its copy had been taken away.
THEOREM ListsReturn == ASSUME Single PROVE SandboxSpec => []ListsComeBack
<1>1. SandboxInv => ListsComeBack
  <2> SUFFICES ASSUME SandboxInv, \A l \in Lease : ~journal[l].kept
               PROVE  Reach(own, sealed) = Reach(plain.own, plain.cut) /\ sealed = plain.cut
    BY DEF ListsComeBack
  <2>1. \A l \in Lease : ~Entered(l) BY DEF Entered
  <2>2. sealed = plain.cut /\ \A o \in Object : Users(own[o]) = plain.own[o]
    BY <2>1 DEF SandboxInv, ListsFit
  <2>3. \A o \in Object : Users(own[o]) = own[o] BY <2>1 DEF SandboxInv, OnlyOne, Object, Users
  <2>4. own = plain.own BY <2>2, <2>3 DEF SandboxInv, SandboxTypeOK
  <2> QED BY <2>2, <2>4
<1> QED BY <1>1, SandboxHolds, PTL

-----------------------------------------------------------------------------
(* HostStream. *)

Byte == {"n", "w1", "w2"}
Final == {"exited", "failed"}
Texts == {Decoded(bytes) : bytes \in Seq(Byte)} \cup {<<>>, <<TRUE>>, <<FALSE>>}
Requests == {"initialize", "start", "write", "shutdown"}
Nowhere == ""
Lines == [kind : {"reply", "started", "delta", "cancelled", "exited", "failed"},
          stream : Stream \cup Requests \cup {Nowhere}, text : Texts, nr : Nat]

\* The events on their way that are not behind the end of the execution.
NoEnd(lines, n) == \A j \in 1..n : lines[j].kind \notin Final
Fresh(events, lines) ==
  {events[i] : i \in {j \in 1..Len(events) : NoEnd(events, j - 1)}} \cup
  {lines[i] : i \in {j \in 1..Len(lines) : lines[j].kind # "reply" /\ NoEnd(lines, j - 1) /\ NoEnd(events, Len(events))}}
EndUnderway(events, lines) == ~(NoEnd(events, Len(events)) /\ NoEnd(lines, Len(lines)))

\* The bytes are those of the characters; character i ends at ends[i].
EndsFit(bytes, text, ends) ==
  /\ ends \in [0..Len(text) -> 0..Len(bytes)] /\ ends[0] = 0 /\ ends[Len(text)] = Len(bytes)
  /\ \A i \in 1..Len(text) :
       \/ text[i] = "n" /\ ends[i] = ends[i - 1] + 1 /\ bytes[ends[i]] = "n"
       \/ text[i] = "w" /\ ends[i] = ends[i - 1] + 2 /\ bytes[ends[i] - 1] = "w1" /\ bytes[ends[i]] = "w2"
Encodes(bytes, text) == \E ends \in [0..Len(text) -> 0..Len(bytes)] : EndsFit(bytes, text, ends)

\* Somebody still takes the events.
Attentive == user \in {"dialing", "starting", "listening"} /\ ~broken
\* The host still numbers them.
Numbering == Up /\ waiter \in {"polling", "draining"}

\* The variables hold what they are meant to (main.rs, exec_host_client.py).
StreamTypeOK ==
  /\ app \in {"none", "running", "exited"} /\ kin \in BOOLEAN
  /\ written \in [Stream -> Seq(Char)] /\ pipe \in [Stream -> Seq(Byte)] /\ carry \in [Stream -> Seq(Byte)]
  /\ reader \in [Stream -> {"none", "reading", "done"}] /\ waiter \in {"none", "polling", "draining", "done"}
  /\ expired \in BOOLEAN /\ table \in BOOLEAN /\ main \in {"ready", "writing", "down"} /\ number \in Nat
  /\ inbox \in Seq(Requests) /\ wire \in Seq(Lines) /\ queue \in Seq(Lines) /\ broken \in BOOLEAN
  /\ waitsFor \in Requests \cup {"none", "yes", "no", "lost"}
  /\ user \in {"dialing", "starting", "listening", "leaving", "gone"}
  /\ expected \in Nat /\ DOMAIN heard = Stream /\ heard = [s \in Stream |-> heard[s]]
  /\ result \in {"none", "refused", "unknown", "stopped", "exited", "timed_out"}

\* The start is asked for once; before it there is nothing.
StartsOnce ==
  /\ user = "dialing" => app = "none" /\ \A i \in 1..Len(inbox) : inbox[i] # "start"
  /\ app # "none" => (Up => waiter # "none") /\ \A i \in 1..Len(inbox) : inbox[i] # "start"
  /\ \A i, j \in 1..Len(inbox) : inbox[i] = "start" /\ inbox[j] = "start" => i = j
  /\ app = "none" =>
       /\ waiter = "none" /\ ~kin /\ expected = 0 /\ queue = <<>>
       /\ \A i \in 1..Len(wire) : wire[i].kind = "reply"
       /\ \A s \in Stream : written[s] = <<>> /\ pipe[s] = <<>> /\ carry[s] = <<>> /\ reader[s] = "none"

\* before[s][n]: so many characters of s are carried by the events before number n.
Bounded(before) == \A s \in Stream, n \in Nat : before[s][n] <= Len(written[s])

\* An event carries the characters between its number and the next.
Carries(before, m) ==
  /\ m.kind = "delta" =>
       /\ m.stream \in Stream
       /\ m.text = SubSeq(written[m.stream], before[m.stream][m.nr] + 1, before[m.stream][m.nr + 1])
  /\ \A s \in Stream :
       /\ before[s][m.nr] <= before[s][m.nr + 1]
       /\ ~(m.kind = "delta" /\ m.stream = s) => before[s][m.nr + 1] = before[s][m.nr]
       /\ m.kind = "exited" => Hollow /\ before[s][m.nr] = Len(written[s])

\* What the reader of s has not sent yet.
Unsent(before, s) == SubSeq(written[s], before[s][number] + 1, Len(written[s]))

ReaderFits(before, s) ==
  /\ \A n \in Nat : n >= number => before[s][n] = before[s][number]
  /\ reader[s] \in {"reading", "done"}
  /\ reader[s] = "reading" => Encodes(carry[s] \o pipe[s], Unsent(before, s))
  /\ reader[s] = "done" => Hollow /\ before[s][number] = Len(written[s])

\* What has been heard, what is on its way and what is in the pipes make up
\* what was written.
AddsUp(before) ==
  /\ Bounded(before)
  /\ \A s \in Stream : heard[s] = SubSeq(written[s], 1, before[s][expected])
  /\ \A m \in Fresh(queue, wire) : Carries(before, m)
  /\ Numbering =>
       /\ expected <= number
       /\ \A m \in Fresh(queue, wire) : m.nr < number
       /\ \A s \in Stream : ReaderFits(before, s)
  /\ waiter = "done" => EndUnderway(queue, wire)

Counts == [Stream -> [Nat -> Nat]]
NothingLost ==
  /\ user \in {"dialing", "starting", "listening"} => result = "none"
  /\ Attentive => StartsOnce /\ \E before \in Counts : AddsUp(before)

StreamInv == StreamTypeOK /\ NothingLost

-----------------------------------------------------------------------------
(* The characters and their bytes. *)

LEMMA LeastNumber ==
  ASSUME NEW S \in SUBSET Nat, S # {}
  PROVE  \E m \in S : \A n \in S : m <= n
<1>1. PICK m \in S : \A n \in S : ~(<<n, m>> \in OpToRel(<, Nat))
  BY NatLessThanWellFounded, WFMin
<1>2. ASSUME NEW n \in S PROVE m <= n
  <2>1. m \in Nat /\ n \in Nat OBVIOUS
  <2>2. ~(n < m) BY <1>1, <2>1 DEF OpToRel
  <2> QED BY <2>1, <2>2
<1> QED BY <1>2

LEMMA EndsRise ==
  ASSUME NEW bytes \in Seq(Byte), NEW text \in Seq(Char), NEW ends, EndsFit(bytes, text, ends)
  PROVE  \A i, j \in 0..Len(text) : i < j => ends[i] < ends[j]
<1>1. Len(text) \in Nat /\ Len(bytes) \in Nat OBVIOUS
<1>2. \A i \in 0..Len(text) : ends[i] \in 0..Len(bytes) BY <1>1 DEF EndsFit
<1>3. ASSUME NEW i \in 1..Len(text) PROVE ends[i - 1] < ends[i]
  <2>1. ends[i] = ends[i - 1] + 1 \/ ends[i] = ends[i - 1] + 2 BY DEF EndsFit
  <2>2. ends[i - 1] \in Nat BY <1>1, <1>2
  <2> QED BY <2>1, <2>2
<1> SUFFICES ASSUME NEW i \in 0..Len(text), \E j \in 0..Len(text) : i < j /\ ~(ends[i] < ends[j])
             PROVE  FALSE
  OBVIOUS
<1> DEFINE S == {j \in 0..Len(text) : i < j /\ ~(ends[i] < ends[j])}
<1>4. PICK j \in S : \A n \in S : j <= n
  <2>1. S \in SUBSET Nat /\ S # {} BY <1>1
  <2> HIDE DEF S
  <2> QED BY <2>1, LeastNumber
<1>5. CASE j = i + 1 BY <1>1, <1>3, <1>4, <1>5
<1>6. CASE j > i + 1
  <2>1. j - 1 \in 0..Len(text) /\ i < j - 1 /\ ~(j - 1 \in S) /\ j \in 1..Len(text) BY <1>1, <1>4, <1>6
  <2>2. ends[i] < ends[j - 1] /\ ends[j - 1] < ends[j] BY <2>1, <1>3
  <2>3. ends[i] \in Nat /\ ends[j - 1] \in Nat /\ ends[j] \in Nat BY <1>1, <1>2, <2>1
  <2>4. ends[i] < ends[j] BY <2>2, <2>3
  <2> QED BY <2>4, <1>4
<1> QED BY <1>1, <1>4, <1>5, <1>6

\* After k bytes q characters are complete, and at most the first byte of one more is there.
CharsAfter(text, ends, k, q) ==
  /\ q \in 0..Len(text)
  /\ \/ ends[q] = k
     \/ q < Len(text) /\ ends[q] = k - 1 /\ ends[q + 1] = k + 1

LEMMA SomeAfter ==
  ASSUME NEW bytes \in Seq(Byte), NEW text \in Seq(Char), NEW ends, EndsFit(bytes, text, ends),
         NEW k \in 0..Len(bytes)
  PROVE  \E q \in 0..Len(text) : CharsAfter(text, ends, k, q)
<1>1. Len(text) \in Nat /\ Len(bytes) \in Nat OBVIOUS
<1>2. \A i \in 0..Len(text) : ends[i] \in 0..Len(bytes) BY <1>1 DEF EndsFit
<1> DEFINE S == {q \in 0..Len(text) : ends[q] >= k}
<1>3. Len(text) \in S BY <1>1, <1>2 DEF EndsFit
<1>4. PICK q \in S : \A n \in S : q <= n
  <2>1. S \in SUBSET Nat /\ S # {} BY <1>1, <1>3
  <2> HIDE DEF S
  <2> QED BY <2>1, LeastNumber
<1>5. CASE ends[q] = k
  <2>1. q \in 0..Len(text) BY <1>4
  <2> HIDE DEF S
  <2>2. CharsAfter(text, ends, k, q) BY <2>1, <1>5 DEF CharsAfter
  <2> QED BY <2>1, <2>2
<1>6. CASE ends[q] > k
  <2>1. q # 0 BY <1>1, <1>6 DEF EndsFit
  <2>2. q \in 1..Len(text) /\ q - 1 \in 0..Len(text) /\ ~(q - 1 \in S) BY <2>1, <1>1, <1>4
  <2>3. ends[q - 1] < k BY <2>2, <1>2, <1>1
  <2>4. ends[q] = ends[q - 1] + 1 \/ ends[q] = ends[q - 1] + 2 BY <2>2 DEF EndsFit
  <2>5. ends[q - 1] = k - 1 /\ ends[q] = k + 1
    <3>1. ends[q] \in Nat /\ ends[q - 1] \in Nat BY <1>2, <2>2, <1>1
    <3> HIDE DEF S
    <3> QED BY <3>1, <2>3, <2>4, <1>6
  <2>6. CharsAfter(text, ends, k, q - 1) BY <2>5, <2>2, <1>1 DEF CharsAfter
  <2> QED BY <2>6, <2>2
<1>7. ends[q] >= k /\ ends[q] \in Nat BY <1>2, <1>4, <1>1
<1> QED BY <1>5, <1>6, <1>7

LEMMA OneAfter ==
  ASSUME NEW bytes \in Seq(Byte), NEW text \in Seq(Char), NEW ends, EndsFit(bytes, text, ends),
         NEW k \in Nat, NEW q, NEW p, CharsAfter(text, ends, k, q), CharsAfter(text, ends, k, p)
  PROVE  p = q
<1>1. Len(text) \in Nat /\ Len(bytes) \in Nat OBVIOUS
<1>2. \A i \in 0..Len(text) : ends[i] \in 0..Len(bytes) BY <1>1 DEF EndsFit
<1>3. \A i, j \in 0..Len(text) : i < j => ends[i] < ends[j] BY EndsRise
<1>4. ASSUME NEW a, NEW b, CharsAfter(text, ends, k, a), CharsAfter(text, ends, k, b), a < b PROVE FALSE
  <2>1. a \in 0..Len(text) /\ b \in 0..Len(text) BY <1>4 DEF CharsAfter
  <2>2. ends[a] \in Nat /\ ends[b] \in Nat BY <2>1, <1>2, <1>1
  <2>3. ends[a] < ends[b] BY <2>1, <1>3, <1>4
  <2>4. ends[a] = k - 1 /\ ends[b] = k /\ a < Len(text) /\ ends[a + 1] = k + 1 BY <1>4, <2>2, <2>3 DEF CharsAfter
  <2>5. a + 1 \in 0..Len(text) /\ (a + 1 = b \/ a + 1 < b) BY <2>1, <2>4, <1>4, <1>1
  <2>6. ends[a + 1] <= ends[b] BY <2>5, <2>1, <1>2, <1>3, <1>1
  <2> QED BY <2>4, <2>6
<1>5. p \in 0..Len(text) /\ q \in 0..Len(text) BY DEF CharsAfter
<1>6. p < q \/ q < p \/ p = q BY <1>5, <1>1
<1> QED BY <1>4, <1>6

\* A cut behind a complete character cuts the text as well.
LEMMA Cut ==
  ASSUME NEW bytes \in Seq(Byte), NEW text \in Seq(Char), Encodes(bytes, text),
         NEW k \in 1..Len(bytes), bytes[k] # "w1"
  PROVE  \E q \in 0..Len(text) :
           /\ Encodes(SubSeq(bytes, 1, k), SubSeq(text, 1, q))
           /\ Encodes(SubSeq(bytes, k + 1, Len(bytes)), SubSeq(text, q + 1, Len(text)))
<1>1. Len(text) \in Nat /\ Len(bytes) \in Nat OBVIOUS
<1>2. PICK ends : EndsFit(bytes, text, ends) BY DEF Encodes
<1>3. \A i \in 0..Len(text) : ends[i] \in 0..Len(bytes) BY <1>1, <1>2 DEF EndsFit
<1>4. PICK q \in 0..Len(text) : CharsAfter(text, ends, k, q) BY <1>1, <1>2, SomeAfter
<1>5. ends[q] = k
  <2> SUFFICES ASSUME q < Len(text), ends[q] = k - 1, ends[q + 1] = k + 1 PROVE FALSE BY <1>4 DEF CharsAfter
  <2>1. q + 1 \in 1..Len(text) /\ (q + 1) - 1 = q BY <1>1
  <2>2. bytes[ends[q + 1] - 1] = "w1" BY <2>1, <1>2, <1>1 DEF EndsFit
  <2>3. ends[q + 1] - 1 = k BY <1>1
  <2> QED BY <2>2, <2>3
<1> DEFINE B1 == SubSeq(bytes, 1, k)
           T1 == SubSeq(text, 1, q)
           B2 == SubSeq(bytes, k + 1, Len(bytes))
           T2 == SubSeq(text, q + 1, Len(text))
           E1 == [i \in 0..q |-> ends[i]]
           E2 == [i \in 0..(Len(text) - q) |-> ends[q + i] - k]
<1>6. /\ Len(B1) = k /\ \A i \in 1..k : B1[i] = bytes[i]
      /\ Len(T1) = q /\ \A i \in 1..q : T1[i] = text[i]
      /\ Len(B2) = Len(bytes) - k /\ \A i \in 1..(Len(bytes) - k) : B2[i] = bytes[k + i]
      /\ Len(T2) = Len(text) - q /\ \A i \in 1..(Len(text) - q) : T2[i] = text[q + i]
  BY <1>1
<1>7. \A i, j \in 0..Len(text) : i < j => ends[i] < ends[j] BY <1>2, EndsRise
<1> HIDE DEF B1, T1, B2, T2
<1>8. EndsFit(B1, T1, E1)
  <2>1. ASSUME NEW i \in 0..q PROVE E1[i] \in 0..k /\ E1[i] = ends[i]
    <3>1. i = q \/ i < q BY <1>1
    <3>2. ends[i] \in Nat /\ ends[i] <= k BY <3>1, <1>7, <1>5, <1>3, <1>1
    <3> QED BY <3>2, <1>1
  <2>2. ASSUME NEW i \in 1..q
        PROVE  \/ T1[i] = "n" /\ E1[i] = E1[i - 1] + 1 /\ B1[E1[i]] = "n"
               \/ T1[i] = "w" /\ E1[i] = E1[i - 1] + 2 /\ B1[E1[i] - 1] = "w1" /\ B1[E1[i]] = "w2"
    <3>1. i \in 1..Len(text) /\ i \in 0..q /\ i - 1 \in 0..q BY <1>1
    <3>2. \/ text[i] = "n" /\ ends[i] = ends[i - 1] + 1 /\ bytes[ends[i]] = "n"
          \/ text[i] = "w" /\ ends[i] = ends[i - 1] + 2 /\ bytes[ends[i] - 1] = "w1" /\ bytes[ends[i]] = "w2"
      BY <3>1, <1>2 DEF EndsFit
    <3>3. E1[i] = ends[i] /\ E1[i - 1] = ends[i - 1] /\ T1[i] = text[i] /\ ends[i] \in 0..k /\ ends[i - 1] \in 0..k
      BY <3>1, <2>1, <1>6
    <3> HIDE DEF E1
    <3>4. CASE text[i] = "n" BY <3>2, <3>3, <3>4, <1>6, <1>1
    <3>5. CASE text[i] = "w"
      <4>1. ends[i] = ends[i - 1] + 2 BY <3>2, <3>5
      <4>2. ends[i] \in 1..k /\ ends[i] - 1 \in 1..k BY <4>1, <3>3, <1>1
      <4> QED BY <4>2, <3>2, <3>3, <3>5, <1>6
    <3> QED BY <3>2, <3>4, <3>5
  <2>3. E1 \in [0..q -> 0..k] BY <2>1
  <2>4. E1[0] = 0 /\ E1[q] = k BY <1>2, <1>5, <1>1 DEF EndsFit
  <2> HIDE DEF E1
  <2> QED BY <2>2, <2>3, <2>4, <1>6 DEF EndsFit
<1>9. EndsFit(B2, T2, E2)
  <2>1. ASSUME NEW i \in 0..(Len(text) - q)
        PROVE  E2[i] \in 0..(Len(bytes) - k) /\ E2[i] = ends[q + i] - k /\ ends[q + i] \in Nat
    <3>1. q + i \in 0..Len(text) /\ (q + i = q \/ q < q + i) BY <1>1
    <3>2. ends[q + i] \in 0..Len(bytes) /\ k \in Nat BY <3>1, <1>3, <1>1
    <3>3. q < q + i => k < ends[q + i] BY <3>1, <1>7, <1>5
    <3>4. ends[q + i] >= k BY <3>1, <3>2, <3>3, <1>5
    <3> QED BY <3>2, <3>4, <1>1
  <2>2. ASSUME NEW i \in 1..(Len(text) - q)
        PROVE  \/ T2[i] = "n" /\ E2[i] = E2[i - 1] + 1 /\ B2[E2[i]] = "n"
               \/ T2[i] = "w" /\ E2[i] = E2[i - 1] + 2 /\ B2[E2[i] - 1] = "w1" /\ B2[E2[i]] = "w2"
    <3>1. q + i \in 1..Len(text) /\ i \in 0..(Len(text) - q) /\ i - 1 \in 0..(Len(text) - q) /\ (q + i) - 1 = q + (i - 1)
      BY <1>1
    <3>2. \/ text[q + i] = "n" /\ ends[q + i] = ends[q + (i - 1)] + 1 /\ bytes[ends[q + i]] = "n"
          \/ /\ text[q + i] = "w" /\ ends[q + i] = ends[q + (i - 1)] + 2
             /\ bytes[ends[q + i] - 1] = "w1" /\ bytes[ends[q + i]] = "w2"
      <4>1. \/ text[q + i] = "n" /\ ends[q + i] = ends[(q + i) - 1] + 1 /\ bytes[ends[q + i]] = "n"
            \/ /\ text[q + i] = "w" /\ ends[q + i] = ends[(q + i) - 1] + 2
               /\ bytes[ends[q + i] - 1] = "w1" /\ bytes[ends[q + i]] = "w2"
        BY <3>1, <1>2 DEF EndsFit
      <4> QED BY <4>1, <3>1
    <3>3. /\ E2[i] = ends[q + i] - k /\ E2[i - 1] = ends[q + (i - 1)] - k /\ T2[i] = text[q + i]
          /\ E2[i] \in 0..(Len(bytes) - k) /\ E2[i - 1] \in 0..(Len(bytes) - k)
          /\ ends[q + i] \in Nat /\ ends[q + (i - 1)] \in Nat
      BY <3>1, <2>1, <1>6
    <3> DEFINE a == ends[q + i]
               b == ends[q + (i - 1)]
               c == E2[i]
               d == E2[i - 1]
    <3>4. a \in Nat /\ b \in Nat /\ c = a - k /\ d = b - k /\ c \in 0..(Len(bytes) - k) /\ d \in 0..(Len(bytes) - k)
      BY <3>3
    <3>5. \/ text[q + i] = "n" /\ a = b + 1 /\ bytes[a] = "n"
          \/ text[q + i] = "w" /\ a = b + 2 /\ bytes[a - 1] = "w1" /\ bytes[a] = "w2"
      BY <3>2
    <3> HIDE DEF a, b, c, d, E2
    <3>6. CASE a = b + 1
      <4>1. c = d + 1 /\ c \in 1..(Len(bytes) - k) /\ k + c = a BY <3>4, <3>6, <1>1
      <4>2. B2[c] = bytes[a] BY <4>1, <1>6
      <4>3. text[q + i] = "n" /\ bytes[a] = "n" BY <3>5, <3>6, <3>4
      <4> QED BY <4>1, <4>2, <4>3, <3>3 DEF c, d
    <3>7. CASE a = b + 2
      <4>1. c = d + 2 /\ c \in 1..(Len(bytes) - k) /\ c - 1 \in 1..(Len(bytes) - k) /\ k + c = a /\ k + (c - 1) = a - 1
        BY <3>4, <3>7, <1>1
      <4>2. B2[c] = bytes[a] /\ B2[c - 1] = bytes[a - 1] BY <4>1, <1>6
      <4>3. text[q + i] = "w" /\ bytes[a - 1] = "w1" /\ bytes[a] = "w2" BY <3>5, <3>7, <3>4
      <4> QED BY <4>1, <4>2, <4>3, <3>3 DEF c, d
    <3> QED BY <3>5, <3>6, <3>7
  <2>3. E2 \in [0..(Len(text) - q) -> 0..(Len(bytes) - k)] BY <2>1
  <2>4. E2[0] = 0 /\ E2[Len(text) - q] = Len(bytes) - k
    <3>1. q + 0 = q /\ q + (Len(text) - q) = Len(text) /\ 0 \in 0..(Len(text) - q) /\ Len(text) - q \in 0..(Len(text) - q)
      BY <1>1
    <3>2. ends[Len(text)] = Len(bytes) BY <1>2 DEF EndsFit
    <3> QED BY <3>1, <3>2, <1>5, <1>1
  <2> HIDE DEF E2
  <2> QED BY <2>2, <2>3, <2>4, <1>6 DEF EndsFit
<1> HIDE DEF E1, E2
<1>10. Encodes(B1, T1)
  <2>1. E1 \in [0..Len(T1) -> 0..Len(B1)] BY <1>8 DEF EndsFit
  <2> QED BY <2>1, <1>8 DEF Encodes
<1>11. Encodes(B2, T2)
  <2>1. E2 \in [0..Len(T2) -> 0..Len(B2)] BY <1>9 DEF EndsFit
  <2> QED BY <2>1, <1>9 DEF Encodes
<1> QED BY <1>10, <1>11 DEF B1, B2, T1, T2

LEMMA EncodesMore ==
  ASSUME NEW bytes \in Seq(Byte), NEW text \in Seq(Char), Encodes(bytes, text), NEW c \in Char
  PROVE  Encodes(bytes \o BytesOf(c), Append(text, c))
<1>1. Len(text) \in Nat /\ Len(bytes) \in Nat OBVIOUS
<1>2. PICK ends : EndsFit(bytes, text, ends) BY DEF Encodes
<1> DEFINE n == Len(text)
           k == Len(bytes)
           w == IF c = "n" THEN 1 ELSE 2
           B == bytes \o BytesOf(c)
           T == Append(text, c)
           E == [i \in 0..(n + 1) |-> IF i <= n THEN ends[i] ELSE k + w]
<1>3. /\ Len(B) = k + w /\ (\A i \in 1..k : B[i] = bytes[i])
      /\ Len(T) = n + 1 /\ (\A i \in 1..n : T[i] = text[i]) /\ T[n + 1] = c
      /\ (c = "n" => B[k + 1] = "n") /\ (c # "n" => c = "w" /\ B[k + 1] = "w1" /\ B[k + 2] = "w2")
  BY <1>1 DEF BytesOf, Byte, Char
<1>4. n \in Nat /\ k \in Nat /\ w \in 1..2 /\ (w = 1 => c = "n") /\ (w = 2 => c = "w") BY <1>1 DEF Char
<1>5. \A i \in 0..n : ends[i] \in 0..k BY <1>2 DEF EndsFit
<1> HIDE DEF n, k, w, B, T
<1>6. E \in [0..(n + 1) -> 0..(k + w)]
  <2>1. ASSUME NEW i \in 0..(n + 1) PROVE (IF i <= n THEN ends[i] ELSE k + w) \in 0..(k + w)
    <3>1. CASE i <= n
      <4>1. ends[i] \in 0..k BY <3>1, <1>4, <1>5
      <4> QED BY <4>1, <3>1, <1>4
    <3> QED BY <3>1, <1>4
  <2> QED BY <2>1
<1>7. ASSUME NEW i \in 1..(n + 1)
      PROVE  \/ T[i] = "n" /\ E[i] = E[i - 1] + 1 /\ B[E[i]] = "n"
             \/ T[i] = "w" /\ E[i] = E[i - 1] + 2 /\ B[E[i] - 1] = "w1" /\ B[E[i]] = "w2"
  <2>1. CASE i <= n
    <3>1. i \in 1..n /\ E[i] = ends[i] /\ E[i - 1] = ends[i - 1] BY <2>1, <1>4
    <3>2. \/ text[i] = "n" /\ ends[i] = ends[i - 1] + 1 /\ bytes[ends[i]] = "n"
          \/ text[i] = "w" /\ ends[i] = ends[i - 1] + 2 /\ bytes[ends[i] - 1] = "w1" /\ bytes[ends[i]] = "w2"
      BY <3>1, <1>2 DEF EndsFit, n
    <3>3. ends[i] \in 0..k /\ ends[i - 1] \in 0..k /\ T[i] = text[i] BY <3>1, <1>3, <1>4, <1>5
    <3> HIDE DEF E
    <3>4. CASE text[i] = "n"
      <4>1. ends[i] = ends[i - 1] + 1 /\ bytes[ends[i]] = "n" BY <3>2, <3>4
      <4>2. ends[i] \in 1..k BY <4>1, <3>3, <1>4
      <4> QED BY <4>1, <4>2, <3>1, <3>3, <3>4, <1>3
    <3>5. CASE text[i] = "w"
      <4>1. ends[i] = ends[i - 1] + 2 /\ bytes[ends[i] - 1] = "w1" /\ bytes[ends[i]] = "w2" BY <3>2, <3>5
      <4>2. ends[i] \in 1..k /\ ends[i] - 1 \in 1..k BY <4>1, <3>3, <1>4
      <4> QED BY <4>1, <4>2, <3>1, <3>3, <3>5, <1>3
    <3> QED BY <3>2, <3>4, <3>5
  <2>2. CASE i = n + 1
    <3>1. E[i] = k + w /\ E[i - 1] = k
      <4>1. i - 1 = n /\ ends[n] = k BY <2>2, <1>4, <1>2 DEF EndsFit, n, k
      <4> QED BY <4>1, <2>2, <1>4
    <3> HIDE DEF E
    <3>2. CASE w = 1 BY <3>1, <3>2, <2>2, <1>3, <1>4
    <3>3. CASE w = 2
      <4>1. (k + 2) - 1 = k + 1 BY <1>4
      <4> QED BY <4>1, <3>1, <3>3, <2>2, <1>3, <1>4
    <3> QED BY <3>2, <3>3, <1>4
  <2> QED BY <2>1, <2>2, <1>4
<1>8. E[0] = 0 /\ E[n + 1] = k + w
  <2>1. ends[0] = 0 BY <1>2 DEF EndsFit
  <2> QED BY <2>1, <1>4
<1> HIDE DEF E
<1>9. EndsFit(B, T, E) BY <1>3, <1>6, <1>7, <1>8 DEF EndsFit
<1> HIDE DEF B, T
<1>10. E \in [0..Len(T) -> 0..Len(B)] BY <1>9 DEF EndsFit
<1>11. Encodes(B, T) BY <1>9, <1>10, Zenon DEF Encodes
<1> QED BY <1>11 DEF B, T

LEMMA EncodesNothing ==
  /\ Encodes(<<>>, <<>>)
  /\ \A text \in Seq(Char) : Encodes(<<>>, text) => text = <<>>
<1>1. Encodes(<<>>, <<>>)
  <2>1. EndsFit(<<>>, <<>>, [i \in 0..0 |-> 0]) BY DEF EndsFit
  <2> QED BY <2>1 DEF Encodes, EndsFit
<1>2. ASSUME NEW text \in Seq(Char), Encodes(<<>>, text) PROVE text = <<>>
  <2>1. PICK ends : EndsFit(<<>>, text, ends) BY <1>2 DEF Encodes
  <2>2. Len(text) \in Nat /\ <<>> \in Seq(Byte) OBVIOUS
  <2>3. \A i, j \in 0..Len(text) : i < j => ends[i] < ends[j] BY <2>1, <2>2, EndsRise
  <2>4. ends[0] = 0 /\ ends[Len(text)] = 0 BY <2>1 DEF EndsFit
  <2>5. ~(0 < Len(text)) BY <2>2, <2>3, <2>4
  <2> QED BY <2>2, <2>5
<1> QED BY <1>1, <1>2

\* What FlattenSeq computes is the last of a row of concatenations.
LEMMA FlattenIs ==
  ASSUME NEW parts, NEW n \in Nat, Len(parts) = n, n > 0,
         NEW h, \A i \in 1..n : h[i] = IF i = 1 THEN parts[i] ELSE h[i - 1] \o parts[i]
  PROVE  FlattenSeq(parts) = h[n]
<1> DEFINE f == CHOOSE g : g = [i \in 1..n |-> IF i = 1 THEN parts[i] ELSE g[i - 1] \o parts[i]]
<1>1. FlattenSeq(parts) = f[n] BY DEF FlattenSeq
<1>2. f = [i \in 1..n |-> IF i = 1 THEN parts[i] ELSE f[i - 1] \o parts[i]]
  <2> DEFINE g == [i \in 1..n |-> h[i]]
  <2>1. ASSUME NEW i \in 1..n PROVE h[i] = IF i = 1 THEN parts[i] ELSE g[i - 1] \o parts[i]
    <3>1. i = 1 \/ i - 1 \in 1..n OBVIOUS
    <3> QED BY <3>1
  <2>2. g = [i \in 1..n |-> IF i = 1 THEN parts[i] ELSE g[i - 1] \o parts[i]] BY <2>1
  <2> QED BY <2>2
<1> HIDE DEF f
<1>3. \A i \in 1..n : f[i] = IF i = 1 THEN parts[i] ELSE f[i - 1] \o parts[i] BY <1>2
<1>4. \A i \in 1..n : h[i] = IF i = 1 THEN parts[i] ELSE h[i - 1] \o parts[i] OBVIOUS
<1> SUFFICES ASSUME f[n] # h[n] PROVE FALSE BY <1>1
<1> DEFINE S == {i \in 1..n : f[i] # h[i]}
<1>5. PICK i \in S : \A j \in S : i <= j
  <2>1. n \in S OBVIOUS
  <2>2. S \in SUBSET Nat OBVIOUS
  <2> HIDE DEF S
  <2> QED BY <2>1, <2>2, LeastNumber
<1>6. i # 1 BY <1>3, <1>4, <1>5
<1>7. i - 1 \in 1..n /\ ~(i - 1 \in S) BY <1>5, <1>6
<1>8. f[i - 1] = h[i - 1] BY <1>7
<1>9. f[i] = f[i - 1] \o parts[i] /\ h[i] = h[i - 1] \o parts[i] BY <1>3, <1>4, <1>5, <1>6
<1> QED BY <1>5, <1>8, <1>9

LEMMA SubSeqGrows ==
  ASSUME NEW S, NEW seq \in Seq(S), NEW p \in 0..Len(seq)
  PROVE  /\ SubSeq(seq, 1, p) \o <<>> = SubSeq(seq, 1, p)
         /\ p < Len(seq) => SubSeq(seq, 1, p) \o <<seq[p + 1]>> = SubSeq(seq, 1, p + 1)
<1>1. Len(seq) \in Nat OBVIOUS
<1>2. SubSeq(seq, 1, p) \in Seq(S) BY <1>1
<1>3. CASE p < Len(seq)
  <2>1. SubSeq(seq, 1, p + 1) \in Seq(S) /\ seq[p + 1] \in S BY <1>1, <1>3
  <2> DEFINE a == SubSeq(seq, 1, p) \o <<seq[p + 1]>>
             b == SubSeq(seq, 1, p + 1)
  <2>2. a \in Seq(S) /\ b \in Seq(S) BY <1>2, <2>1
  <2>3. Len(a) = p + 1 /\ Len(b) = p + 1 BY <1>1, <1>2, <1>3, <2>1
  <2>4. ASSUME NEW i \in 1..(p + 1) PROVE a[i] = b[i] BY <1>1, <1>2, <1>3, <2>1
  <2> HIDE DEF a, b
  <2>5. a = b BY <2>2, <2>3, <2>4, SeqEqual
  <2> QED BY <2>5, <1>2, ConcatEmptySeq DEF a, b
<1> QED BY <1>2, <1>3, ConcatEmptySeq

\* What is complete is decoded as it was encoded.
LEMMA DecodesBack ==
  ASSUME NEW bytes \in Seq(Byte), NEW text \in Seq(Char), Encodes(bytes, text), bytes # <<>>
  PROVE  Decoded(bytes) = text
<1> DEFINE n == Len(bytes)
           char(i) == IF bytes[i] = "n" THEN <<"n">>
                      ELSE IF bytes[i] = "w2" THEN (IF i > 1 /\ bytes[i - 1] = "w1" THEN <<"w">> ELSE <<Lossy>>)
                      ELSE IF i < n /\ bytes[i + 1] = "w2" THEN <<>> ELSE <<Lossy>>
           parts == [i \in DOMAIN bytes |-> char(i)]
<1>1. Len(text) \in Nat /\ n \in Nat /\ n > 0 /\ DOMAIN bytes = 1..n /\ Len(parts) = n OBVIOUS
<1>2. PICK ends : EndsFit(bytes, text, ends) BY DEF Encodes
<1>3. \A i \in 0..Len(text) : ends[i] \in 0..n BY <1>1, <1>2 DEF EndsFit
<1> DEFINE Q == [k \in 0..n |-> CHOOSE q \in 0..Len(text) : CharsAfter(text, ends, k, q)]
<1>4. ASSUME NEW k \in 0..n PROVE Q[k] \in 0..Len(text) /\ CharsAfter(text, ends, k, Q[k])
  <2>1. \E q \in 0..Len(text) : CharsAfter(text, ends, k, q) BY <1>2, SomeAfter
  <2> QED BY <2>1
<1>5. ASSUME NEW k \in 0..n, NEW q, CharsAfter(text, ends, k, q) PROVE Q[k] = q
  BY <1>1, <1>2, <1>4, <1>5, OneAfter
<1> HIDE DEF Q
<1>6. Q[0] = 0 /\ Q[n] = Len(text)
  <2>1. CharsAfter(text, ends, 0, 0) BY <1>1, <1>2 DEF EndsFit, CharsAfter
  <2>2. CharsAfter(text, ends, n, Len(text)) BY <1>1, <1>2 DEF EndsFit, CharsAfter
  <2>3. 0 \in 0..n /\ n \in 0..n BY <1>1
  <2> HIDE DEF n
  <2> QED BY <2>1, <2>2, <2>3, <1>5
<1> DEFINE h == [k \in 1..n |-> SubSeq(text, 1, Q[k])]
<1>7. ASSUME NEW k \in 1..n
      PROVE  SubSeq(text, 1, Q[k]) = SubSeq(text, 1, Q[k - 1]) \o char(k)
  <2>1. k - 1 \in 0..n /\ k \in 0..n BY <1>1
  <2> DEFINE p == Q[k - 1]
  <2>2. p \in 0..Len(text) /\ CharsAfter(text, ends, k - 1, p) BY <2>1, <1>4
  <2> HIDE DEF p
  <2>3. CASE ends[p] = k - 1
    <3>1. p < Len(text)
      <4>1. p # Len(text) BY <2>3, <1>1, <1>2 DEF EndsFit
      <4> QED BY <4>1, <2>2, <1>1
    <3>2. p + 1 \in 1..Len(text) /\ (p + 1) - 1 = p BY <3>1, <2>2, <1>1
    <3>3. \/ text[p + 1] = "n" /\ ends[p + 1] = ends[p] + 1 /\ bytes[ends[p + 1]] = "n"
          \/ text[p + 1] = "w" /\ ends[p + 1] = ends[p] + 2 /\ bytes[ends[p + 1] - 1] = "w1" /\ bytes[ends[p + 1]] = "w2"
      <4>1. \/ text[p + 1] = "n" /\ ends[p + 1] = ends[(p + 1) - 1] + 1 /\ bytes[ends[p + 1]] = "n"
            \/ /\ text[p + 1] = "w" /\ ends[p + 1] = ends[(p + 1) - 1] + 2
               /\ bytes[ends[p + 1] - 1] = "w1" /\ bytes[ends[p + 1]] = "w2"
        BY <3>2, <1>2 DEF EndsFit
      <4> QED BY <4>1, <3>2
    <3>4. CASE text[p + 1] = "n"
      <4>1. ends[p + 1] = k /\ bytes[k] = "n" BY <3>3, <3>4, <2>3, <1>1
      <4>2. CharsAfter(text, ends, k, p + 1) BY <4>1, <3>2, <1>1 DEF CharsAfter
      <4>3. Q[k] = p + 1 BY <4>2, <2>1, <1>5
      <4>4. char(k) = <<text[p + 1]>> BY <4>1, <3>4
      <4>5. SubSeq(text, 1, p) \o <<text[p + 1]>> = SubSeq(text, 1, p + 1) BY <2>2, <3>1, SubSeqGrows
      <4> QED BY <4>3, <4>4, <4>5 DEF p
    <3>5. CASE text[p + 1] = "w"
      <4>1. ends[p + 1] = k + 1 /\ bytes[k] = "w1" /\ bytes[k + 1] = "w2"
        <5>1. ends[p + 1] = (k - 1) + 2 /\ bytes[ends[p + 1] - 1] = "w1" /\ bytes[ends[p + 1]] = "w2" BY <3>3, <3>5, <2>3
        <5>2. (k - 1) + 2 = k + 1 /\ (k + 1) - 1 = k BY <1>1
        <5> QED BY <5>1, <5>2
      <4>2. k < n
        <5>1. ends[p + 1] \in 0..n BY <3>2, <1>3, <1>1
        <5> QED BY <5>1, <4>1, <1>1
      <4>3. CharsAfter(text, ends, k, p) BY <4>1, <3>1, <2>2, <2>3 DEF CharsAfter
      <4>4. Q[k] = p BY <4>3, <2>1, <1>5
      <4>5. char(k) = <<>> BY <4>1, <4>2
      <4>6. SubSeq(text, 1, p) \o <<>> = SubSeq(text, 1, p) BY <2>2, SubSeqGrows
      <4> QED BY <4>4, <4>5, <4>6 DEF p
    <3> QED BY <3>3, <3>4, <3>5
  <2>4. CASE p < Len(text) /\ ends[p] = (k - 1) - 1 /\ ends[p + 1] = (k - 1) + 1
    <3>1. ends[p] \in 0..n /\ p + 1 \in 1..Len(text) /\ (p + 1) - 1 = p BY <2>2, <2>4, <1>1, <1>3
    <3>2. k > 1 /\ (k - 1) + 1 = k BY <3>1, <2>4, <1>1
    <3>3. text[p + 1] = "w" /\ bytes[k - 1] = "w1" /\ bytes[k] = "w2"
      <4>1. \/ text[p + 1] = "n" /\ ends[p + 1] = ends[(p + 1) - 1] + 1 /\ bytes[ends[p + 1]] = "n"
            \/ /\ text[p + 1] = "w" /\ ends[p + 1] = ends[(p + 1) - 1] + 2
               /\ bytes[ends[p + 1] - 1] = "w1" /\ bytes[ends[p + 1]] = "w2"
        BY <3>1, <1>2 DEF EndsFit
      <4>2. ends[p + 1] = k /\ ends[(p + 1) - 1] = k - 2 BY <2>4, <3>1, <3>2, <1>1
      <4>3. k # (k - 2) + 1 BY <1>1
      <4> QED BY <4>1, <4>2, <4>3
    <3>4. CharsAfter(text, ends, k, p + 1) BY <2>4, <3>1, <3>2 DEF CharsAfter
    <3>5. Q[k] = p + 1 BY <3>4, <2>1, <1>5
    <3>6. char(k) = <<text[p + 1]>> BY <3>2, <3>3
    <3>7. SubSeq(text, 1, p) \o <<text[p + 1]>> = SubSeq(text, 1, p + 1) BY <2>2, <2>4, SubSeqGrows
    <3> QED BY <3>5, <3>6, <3>7 DEF p
  <2> QED BY <2>2, <2>3, <2>4 DEF CharsAfter
<1>8. \A k \in 1..n : h[k] = IF k = 1 THEN parts[k] ELSE h[k - 1] \o parts[k]
  <2>1. ASSUME NEW k \in 1..n PROVE h[k] = IF k = 1 THEN parts[k] ELSE h[k - 1] \o parts[k]
    <3>1. parts[k] = char(k) /\ h[k] = SubSeq(text, 1, Q[k]) BY <1>1
    <3>2. CASE k = 1
      <4>1. SubSeq(text, 1, Q[0]) = <<>> BY <1>6
      <4>2. k - 1 = 0 BY <3>2
      <4>3. <<>> \o char(k) = char(k)
        <5>1. char(k) \in {<<"n">>, <<"w">>, <<Lossy>>, <<>>} OBVIOUS
        <5>2. <<"n">> \in Seq({"n", "w", Lossy}) /\ <<"w">> \in Seq({"n", "w", Lossy}) /\ <<>> \in Seq({"n", "w", Lossy})
          OBVIOUS
        <5>3. <<Lossy>> \in Seq({"n", "w", Lossy}) OBVIOUS
        <5> HIDE DEF char
        <5>4. char(k) \in Seq({"n", "w", Lossy}) BY <5>1, <5>2, <5>3
        <5> QED BY <5>4, ConcatEmptySeq
      <4>4. h[k] = char(k) BY <1>7, <3>1, <4>1, <4>2, <4>3
      <4> QED BY <3>1, <3>2, <4>4
    <3>3. CASE k # 1
      <4>1. k - 1 \in 1..n BY <3>3, <1>1
      <4>2. h[k - 1] = SubSeq(text, 1, Q[k - 1]) BY <4>1
      <4> QED BY <1>7, <3>1, <3>3, <4>2
    <3> QED BY <3>2, <3>3
  <2> QED BY <2>1
<1>9. FlattenSeq(parts) = h[n]
  <2>1. n \in Nat /\ n > 0 /\ Len(parts) = n BY <1>1
  <2> HIDE DEF h, parts, n
  <2> QED BY <2>1, <1>8, FlattenIs
<1>10. h[n] = text BY <1>1, <1>6, SubSeqFull
<1>11. Decoded(bytes) = FlattenSeq(parts) BY DEF Decoded
<1> QED BY <1>9, <1>10, <1>11

\* The first byte of a wide character does not follow another one.
LEMMA FirstBytesApart ==
  ASSUME NEW bytes \in Seq(Byte), NEW text \in Seq(Char), Encodes(bytes, text),
         NEW k \in 2..Len(bytes), bytes[k] = "w1"
  PROVE  bytes[k - 1] # "w1"
<1>1. Len(text) \in Nat /\ Len(bytes) \in Nat OBVIOUS
<1>2. PICK ends : EndsFit(bytes, text, ends) BY DEF Encodes
<1>3. PICK q \in 0..Len(text) : CharsAfter(text, ends, k, q) BY <1>1, <1>2, SomeAfter
<1>4. q # 0 BY <1>1, <1>2, <1>3 DEF CharsAfter, EndsFit
<1>5. q \in 1..Len(text) BY <1>1, <1>4
<1>6. bytes[ends[q]] = "n" \/ bytes[ends[q]] = "w2" BY <1>2, <1>5 DEF EndsFit
<1>7. ends[q] = k - 1 BY <1>3, <1>6 DEF CharsAfter
<1> QED BY <1>6, <1>7

LEMMA Parts ==
  ASSUME NEW S, NEW seq \in Seq(S), NEW k \in 0..Len(seq)
  PROVE  /\ SubSeq(seq, 1, k) \in Seq(S) /\ Len(SubSeq(seq, 1, k)) = k
         /\ \A i \in 1..k : SubSeq(seq, 1, k)[i] = seq[i]
         /\ SubSeq(seq, k + 1, Len(seq)) \in Seq(S) /\ Len(SubSeq(seq, k + 1, Len(seq))) = Len(seq) - k
         /\ \A i \in 1..(Len(seq) - k) : SubSeq(seq, k + 1, Len(seq))[i] = seq[k + i]
<1>1. Len(seq) \in Nat OBVIOUS
<1>2. SubSeq(seq, 1, k) \in Seq(S) /\ Len(SubSeq(seq, 1, k)) = k /\ \A i \in 1..k : SubSeq(seq, 1, k)[i] = seq[i]
  BY <1>1
<1>3. SubSeq(seq, k + 1, Len(seq)) \in Seq(S) BY <1>1
<1>4. Len(SubSeq(seq, k + 1, Len(seq))) = Len(seq) - k BY <1>1
<1>5. \A i \in 1..(Len(seq) - k) : SubSeq(seq, k + 1, Len(seq))[i] = seq[k + i] BY <1>1
<1> QED BY <1>2, <1>3, <1>4, <1>5

\* What a reader sends is text, and what it keeps and leaves goes on from there.
LEMMA ReadsWhole ==
  ASSUME NEW kept \in Seq(Byte), NEW left \in Seq(Byte), NEW text \in Seq(Char),
         Encodes(kept \o left, text), NEW n \in 1..Len(left)
  PROVE  LET pending == kept \o SubSeq(left, 1, n)
             ready == Ready(pending)
             rest == SubSeq(pending, ready + 1, Len(pending)) \o SubSeq(left, n + 1, Len(left)) IN
         /\ pending \in Seq(Byte) /\ ready \in 0..Len(pending)
         /\ ready > 0 => \E q \in 0..Len(text) :
              Decoded(SubSeq(pending, 1, ready)) = SubSeq(text, 1, q) /\ Encodes(rest, SubSeq(text, q + 1, Len(text)))
         /\ ready = 0 => Encodes(rest, text)
<1> DEFINE bytes == kept \o left
           pending == kept \o SubSeq(left, 1, n)
           m == Len(kept) + n
           ready == Ready(pending)
           rest == SubSeq(pending, ready + 1, Len(pending)) \o SubSeq(left, n + 1, Len(left))
<1>1. /\ Len(kept) \in Nat /\ Len(left) \in Nat /\ m \in Nat /\ m > 0
      /\ bytes \in Seq(Byte) /\ Len(bytes) = Len(kept) + Len(left) /\ m <= Len(bytes)
  OBVIOUS
<1>2. pending \in Seq(Byte) /\ Len(pending) = m /\ \A i \in 1..m : pending[i] = bytes[i]
  <2>1. SubSeq(left, 1, n) \in Seq(Byte) /\ Len(SubSeq(left, 1, n)) = n /\ \A i \in 1..n : SubSeq(left, 1, n)[i] = left[i]
    BY <1>1, Parts
  <2> DEFINE first == SubSeq(left, 1, n)
  <2>2. first \in Seq(Byte) /\ Len(first) = n /\ \A i \in 1..n : first[i] = left[i] BY <2>1
  <2> HIDE DEF first
  <2>3. kept \o first \in Seq(Byte) /\ Len(kept \o first) = m BY <2>2, <1>1, ConcatProperties
  <2>4. ASSUME NEW i \in 1..m PROVE (kept \o first)[i] = bytes[i]
    <3>1. CASE i <= Len(kept) BY <3>1, <2>2, <1>1
    <3>2. CASE i > Len(kept)
      <4>1. i - Len(kept) \in 1..n /\ i \in 1..Len(bytes) BY <3>2, <1>1
      <4>2. (kept \o first)[i] = first[i - Len(kept)] BY <3>2, <2>2, <1>1
      <4>3. bytes[i] = left[i - Len(kept)] BY <3>2, <4>1, <1>1
      <4> QED BY <4>1, <4>2, <4>3, <2>2
    <3>3. i <= Len(kept) \/ i > Len(kept) BY <1>1
    <3> QED BY <3>1, <3>2, <3>3
  <2> QED BY <2>3, <2>4 DEF first
<1> HIDE DEF m
<1>3. ready = IF bytes[m] = "w1" THEN m - 1 ELSE m
  <2>1. pending # <<>> /\ Last(pending) = pending[m]
    <3>1. Len(pending) = m /\ m > 0 BY <1>1, <1>2
    <3> HIDE DEF pending
    <3> QED BY <3>1 DEF Last
  <2>2. pending[m] = bytes[m] BY <1>1, <1>2
  <2> HIDE DEF pending, bytes
  <2> QED BY <2>1, <2>2, <1>2 DEF Ready
<1> HIDE DEF ready
<1>4. ready \in 0..m BY <1>1, <1>3
<1>5. rest = SubSeq(bytes, ready + 1, Len(bytes))
  <2> DEFINE tail == SubSeq(pending, ready + 1, Len(pending))
             more == SubSeq(left, n + 1, Len(left))
             goal == SubSeq(bytes, ready + 1, Len(bytes))
  <2>1. /\ tail \in Seq(Byte) /\ Len(tail) = m - ready /\ \A i \in 1..(m - ready) : tail[i] = pending[ready + i]
    <3>1. pending \in Seq(Byte) /\ Len(pending) = m /\ ready \in 0..Len(pending) BY <1>2, <1>4
    <3> HIDE DEF pending
    <3> QED BY <3>1, Parts
  <2>2. /\ more \in Seq(Byte) /\ Len(more) = Len(left) - n /\ \A i \in 1..(Len(left) - n) : more[i] = left[n + i]
    BY <1>1, Parts
  <2>3. /\ goal \in Seq(Byte) /\ Len(goal) = Len(bytes) - ready
        /\ \A i \in 1..(Len(bytes) - ready) : goal[i] = bytes[ready + i]
    <3>1. Len(bytes) \in Nat /\ bytes \in Seq(Byte) BY <1>1
    <3>2. ready \in 0..Len(bytes) BY <1>1, <1>4
    <3> HIDE DEF bytes
    <3> QED BY <3>1, <3>2, Parts
  <2>4. m = Len(kept) + n BY DEF m
  <2> HIDE DEF tail, more, goal
  <2>5. tail \o more \in Seq(Byte) /\ Len(tail \o more) = Len(bytes) - ready
    <3>1. (m - ready) + (Len(left) - n) = Len(bytes) - ready BY <1>1, <1>4, <2>4
    <3>2. tail \o more \in Seq(Byte) /\ Len(tail \o more) = Len(tail) + Len(more) BY <2>1, <2>2, ConcatProperties
    <3> QED BY <2>1, <2>2, <3>1, <3>2
  <2>6. ASSUME NEW i \in 1..(Len(bytes) - ready) PROVE (tail \o more)[i] = goal[i]
    <3>1. CASE i <= m - ready
      <4>1. i \in 1..(m - ready) /\ ready + i \in 1..m BY <3>1, <1>1, <1>4
      <4>2. (tail \o more)[i] = tail[i] BY <4>1, <2>1, <2>2
      <4>3. tail[i] = bytes[ready + i] BY <4>1, <2>1, <1>2
      <4> QED BY <4>2, <4>3, <2>3
    <3>2. CASE i > m - ready
      <4>1. i - (m - ready) \in 1..(Len(left) - n) BY <3>2, <1>1, <1>4, <2>4
      <4>2. (tail \o more)[i] = more[i - (m - ready)]
        <5>1. i \in 1..(Len(tail) + Len(more)) /\ ~(i <= Len(tail)) BY <3>2, <4>1, <2>1, <2>2, <1>1, <1>4
        <5>2. (tail \o more)[i] = more[i - Len(tail)] BY <5>1, <2>1, <2>2, ConcatProperties
        <5> QED BY <5>2, <2>1
      <4>3. more[i - (m - ready)] = left[n + (i - (m - ready))] BY <4>1, <2>2
      <4>4. bytes[ready + i] = left[n + (i - (m - ready))]
        <5>1. ready + i \in 1..(Len(kept) + Len(left)) /\ ~(ready + i <= Len(kept))
              /\ (ready + i) - Len(kept) = n + (i - (m - ready))
          BY <3>2, <1>1, <1>4, <2>4
        <5> QED BY <5>1, <1>1
      <4> QED BY <4>2, <4>3, <4>4, <2>3
    <3>3. i <= m - ready \/ i > m - ready BY <1>1, <1>4
    <3> QED BY <3>1, <3>2, <3>3
  <2>7. tail \o more = goal
    <3> DEFINE both == tail \o more
    <3>1. both \in Seq(Byte) /\ Len(both) = Len(goal) /\ \A i \in 1..Len(both) : both[i] = goal[i] BY <2>3, <2>5, <2>6
    <3> HIDE DEF both
    <3>2. both = goal BY <3>1, <2>3, SeqEqual
    <3> QED BY <3>2 DEF both
  <2> QED BY <2>7 DEF tail, more, goal
<1>6. ASSUME ready > 0
      PROVE  \E q \in 0..Len(text) :
               Decoded(SubSeq(pending, 1, ready)) = SubSeq(text, 1, q) /\ Encodes(rest, SubSeq(text, q + 1, Len(text)))
  <2>1. ready \in 1..Len(bytes) BY <1>1, <1>4, <1>6
  <2>2. bytes[ready] # "w1"
    <3>1. CASE bytes[m] # "w1" BY <3>1, <1>3
    <3>2. CASE bytes[m] = "w1"
      <4>1. ready = m - 1 /\ m \in 2..Len(bytes) BY <3>2, <1>1, <1>3, <1>6
      <4>2. Encodes(bytes, text) OBVIOUS
      <4> HIDE DEF bytes
      <4> QED BY <4>1, <4>2, <3>2, <1>1, FirstBytesApart
    <3> QED BY <3>1, <3>2
  <2>3. Encodes(bytes, text) OBVIOUS
  <2>4. PICK q \in 0..Len(text) : /\ Encodes(SubSeq(bytes, 1, ready), SubSeq(text, 1, q))
                                  /\ Encodes(SubSeq(bytes, ready + 1, Len(bytes)), SubSeq(text, q + 1, Len(text)))
    <3> HIDE DEF bytes
    <3> QED BY <1>1, <2>1, <2>2, <2>3, Cut
  <2>5. SubSeq(bytes, 1, ready) = SubSeq(pending, 1, ready)
    <3> DEFINE a == SubSeq(bytes, 1, ready)
               b == SubSeq(pending, 1, ready)
    <3>1. bytes \in Seq(Byte) /\ Len(bytes) \in Nat /\ pending \in Seq(Byte) /\ Len(pending) = m BY <1>1, <1>2
    <3> HIDE DEF bytes, pending
    <3>2. /\ a \in Seq(Byte) /\ Len(a) = ready /\ (\A i \in 1..ready : a[i] = bytes[i])
          /\ b \in Seq(Byte) /\ Len(b) = ready /\ (\A i \in 1..ready : b[i] = pending[i])
      BY <3>1, <2>1, <1>1, <1>4
    <3>3. \A i \in 1..ready : a[i] = b[i] BY <3>2, <1>1, <1>2, <1>4
    <3> HIDE DEF a, b
    <3>4. a = b BY <3>2, <3>3, SeqEqual
    <3> QED BY <3>4 DEF a, b
  <2>6. Decoded(SubSeq(bytes, 1, ready)) = SubSeq(text, 1, q)
    <3> DEFINE a == SubSeq(bytes, 1, ready)
               t == SubSeq(text, 1, q)
    <3>1. bytes \in Seq(Byte) /\ Len(bytes) \in Nat BY <1>1
    <3>2. a \in Seq(Byte) /\ Len(a) = ready
      <4>1. ready \in 0..Len(bytes) BY <2>1
      <4> HIDE DEF bytes
      <4> QED BY <3>1, <4>1, Parts
    <3>3. t \in Seq(Char) BY Parts
    <3>4. Encodes(a, t) BY <2>4
    <3> HIDE DEF a, t
    <3>5. a # <<>> BY <3>2, <2>1
    <3>6. Decoded(a) = t BY <3>2, <3>3, <3>4, <3>5, DecodesBack
    <3> QED BY <3>6 DEF a, t
  <2> HIDE DEF bytes, pending, rest
  <2> QED BY <2>4, <2>5, <2>6, <1>5
<1>7. ASSUME ready = 0 PROVE Encodes(rest, text)
  <2>1. rest = SubSeq(bytes, 1, Len(bytes))
    <3> HIDE DEF rest, bytes
    <3> QED BY <1>5, <1>7
  <2>2. SubSeq(bytes, 1, Len(bytes)) = bytes
    <3>1. bytes \in Seq(Byte) BY <1>1
    <3> HIDE DEF bytes
    <3> QED BY <3>1, SubSeqFull
  <2>3. Encodes(bytes, text) OBVIOUS
  <2> HIDE DEF bytes, rest
  <2> QED BY <2>1, <2>2, <2>3
<1>8. pending \in Seq(Byte) /\ ready \in 0..Len(pending) BY <1>2, <1>4
<1> HIDE DEF pending, rest
<1> QED BY <1>6, <1>7, <1>8 DEF pending, ready, rest

-----------------------------------------------------------------------------
(* The events on their way. *)

LEMMA FreshIn ==
  ASSUME NEW S, NEW events \in Seq(S), NEW lines \in Seq(S)
  PROVE  \A m \in Fresh(events, lines) : m \in S
<1>1. \A i \in 1..Len(events) : events[i] \in S OBVIOUS
<1>2. \A i \in 1..Len(lines) : lines[i] \in S OBVIOUS
<1> QED BY <1>1, <1>2 DEF Fresh

LEMMA FreshSends ==
  ASSUME NEW S, NEW events \in Seq(S), NEW lines \in Seq(S), NEW more \in Seq(S)
  PROVE  /\ \A m \in Fresh(events, lines \o more) : m \notin Fresh(events, lines) =>
              ~EndUnderway(events, lines) /\ (\E i \in 1..Len(more) : m = more[i] /\ more[i].kind # "reply")
         /\ EndUnderway(events, lines) => EndUnderway(events, lines \o more)
         /\ (\E i \in 1..Len(more) : more[i].kind \in Final) => EndUnderway(events, lines \o more)
<1> DEFINE all == lines \o more
           n == Len(lines)
           k == Len(more)
<1>1. n \in Nat /\ k \in Nat /\ Len(all) = n + k OBVIOUS
<1>2. \A i \in 1..n : i \in 1..(n + k) /\ all[i] = lines[i] BY <1>1
<1>3. \A i \in 1..k : n + i \in 1..(n + k) /\ all[n + i] = more[i] BY <1>1
<1>4. \A i \in 1..(n + k) : i \in 1..n \/ (i - n \in 1..k /\ i = n + (i - n)) BY <1>1
<1>5. all = lines \o more /\ n = Len(lines) /\ k = Len(more) OBVIOUS
<1> HIDE DEF all, n, k
<1>6. NoEnd(all, n + k) => NoEnd(lines, n) BY <1>2 DEF NoEnd
<1>7. EndUnderway(events, lines) => EndUnderway(events, all) BY <1>1, <1>5, <1>6 DEF EndUnderway
<1>8. ASSUME NEW i \in 1..k, more[i].kind \in Final PROVE EndUnderway(events, all)
  <2>1. n + i \in 1..(n + k) /\ all[n + i].kind \in Final BY <1>3, <1>8
  <2>2. ~NoEnd(all, n + k) BY <2>1 DEF NoEnd
  <2> QED BY <2>2, <1>1 DEF EndUnderway
<1>9. ASSUME NEW m \in Fresh(events, all), m \notin Fresh(events, lines)
      PROVE  ~EndUnderway(events, lines) /\ \E i \in 1..k : m = more[i] /\ more[i].kind # "reply"
  <2>1. PICK i \in 1..(n + k) :
          all[i].kind # "reply" /\ NoEnd(all, i - 1) /\ NoEnd(events, Len(events)) /\ m = all[i]
    BY <1>1, <1>5, <1>9 DEF Fresh
  <2>2. CASE i \in 1..n
    <3>1. \A j \in 1..(i - 1) : j \in 1..n BY <2>2, <1>1
    <3>2. NoEnd(lines, i - 1) BY <2>1, <3>1, <1>2 DEF NoEnd
    <3>3. m \in Fresh(events, lines)
      <4>1. lines[i] = m /\ i \in 1..Len(lines) BY <2>1, <2>2, <1>2, <1>5
      <4> QED BY <4>1, <3>2, <2>1 DEF Fresh
    <3> QED BY <3>3, <1>9
  <2>3. CASE i - n \in 1..k /\ i = n + (i - n)
    <3>1. m = more[i - n] /\ more[i - n].kind # "reply" BY <2>1, <2>3, <1>3
    <3>2. \A j \in 1..n : j \in 1..(i - 1) BY <2>3, <1>1
    <3>3. NoEnd(lines, n) BY <3>2, <2>1, <1>2 DEF NoEnd
    <3>4. ~EndUnderway(events, lines) BY <3>3, <2>1, <1>5 DEF EndUnderway
    <3> QED BY <3>1, <3>4, <2>3
  <2> QED BY <2>2, <2>3, <1>4
<1> QED BY <1>7, <1>8, <1>9, <1>5

LEMMA FreshMoves ==
  ASSUME NEW S, NEW events \in Seq(S), NEW lines \in Seq(S), lines # <<>>
  PROVE  /\ Head(lines).kind = "reply" =>
              /\ Fresh(events, Tail(lines)) \subseteq Fresh(events, lines)
              /\ EndUnderway(events, lines) => EndUnderway(events, Tail(lines))
         /\ Head(lines).kind # "reply" =>
              /\ Fresh(Append(events, Head(lines)), Tail(lines)) \subseteq Fresh(events, lines)
              /\ EndUnderway(events, lines) => EndUnderway(Append(events, Head(lines)), Tail(lines))
<1> DEFINE n == Len(lines)
           k == Len(events)
           rest == Tail(lines)
           head == Head(lines)
           more == Append(events, head)
<1>1. /\ n \in Nat /\ n > 0 /\ k \in Nat /\ Len(rest) = n - 1 /\ head = lines[1] /\ head \in S
      /\ \A i \in 1..(n - 1) : rest[i] = lines[i + 1]
  OBVIOUS
<1>2. Len(more) = k + 1 /\ more[k + 1] = head /\ \A i \in 1..k : more[i] = events[i] BY <1>1
<1>3. n = Len(lines) /\ k = Len(events) /\ rest = Tail(lines) /\ head = Head(lines) /\ more = Append(events, head) OBVIOUS
<1> HIDE DEF n, k, rest, head, more
<1>4. ASSUME NEW i \in 0..(n - 1), NoEnd(rest, i), head.kind \notin Final PROVE NoEnd(lines, i + 1)
  <2>1. ASSUME NEW j \in 1..(i + 1) PROVE lines[j].kind \notin Final
    <3>1. CASE j = 1 BY <3>1, <1>1, <1>4
    <3>2. CASE j # 1
      <4>1. j - 1 \in 1..i /\ j - 1 \in 1..(n - 1) /\ (j - 1) + 1 = j BY <3>2, <1>1
      <4>2. rest[j - 1] = lines[j] BY <4>1, <1>1
      <4> QED BY <4>1, <4>2, <1>4 DEF NoEnd
    <3> QED BY <3>1, <3>2
  <2> QED BY <2>1 DEF NoEnd
<1>5. ASSUME head.kind = "reply"
      PROVE  /\ Fresh(events, rest) \subseteq Fresh(events, lines)
             /\ EndUnderway(events, lines) => EndUnderway(events, rest)
  <2>1. head.kind \notin Final BY <1>5 DEF Final
  <2>2. ASSUME NEW m \in Fresh(events, rest) PROVE m \in Fresh(events, lines)
    <3>1. CASE \E i \in 1..Len(events) : NoEnd(events, i - 1) /\ m = events[i] BY <3>1 DEF Fresh
    <3>2. CASE \E i \in 1..(n - 1) : rest[i].kind # "reply" /\ NoEnd(rest, i - 1) /\ NoEnd(events, Len(events)) /\ m = rest[i]
      <4>1. PICK i \in 1..(n - 1) :
              rest[i].kind # "reply" /\ NoEnd(rest, i - 1) /\ NoEnd(events, Len(events)) /\ m = rest[i]
        BY <3>2
      <4>2. i - 1 \in 0..(n - 1) /\ (i - 1) + 1 = i /\ (i + 1) - 1 = i /\ i + 1 \in 1..n BY <1>1
      <4>3. NoEnd(lines, (i + 1) - 1) BY <4>1, <4>2, <1>4, <2>1
      <4>4. m = lines[i + 1] /\ lines[i + 1].kind # "reply" BY <4>1, <1>1
      <4> QED BY <4>1, <4>2, <4>3, <4>4, <1>3 DEF Fresh
    <3> QED BY <3>1, <3>2, <1>1 DEF Fresh
  <2>3. NoEnd(rest, n - 1) => NoEnd(lines, n)
    <3>1. n - 1 \in 0..(n - 1) /\ (n - 1) + 1 = n BY <1>1
    <3> QED BY <3>1, <2>1, <1>4
  <2> QED BY <2>2, <2>3, <1>1, <1>3 DEF EndUnderway
<1>6. ASSUME head.kind # "reply"
      PROVE  /\ Fresh(more, rest) \subseteq Fresh(events, lines)
             /\ EndUnderway(events, lines) => EndUnderway(more, rest)
  <2>1. ASSUME NEW i \in 0..k, NoEnd(more, i) PROVE NoEnd(events, i)
    <3>1. \A j \in 1..i : j \in 1..k BY <1>1
    <3> QED BY <3>1, <2>1, <1>2 DEF NoEnd
  <2>2. NoEnd(more, k + 1) => NoEnd(events, k) /\ head.kind \notin Final
    <3>1. k + 1 \in 1..(k + 1) /\ \A j \in 1..k : j \in 1..(k + 1) BY <1>1
    <3> QED BY <3>1, <1>2 DEF NoEnd
  <2>3. ASSUME NEW m \in Fresh(more, rest) PROVE m \in Fresh(events, lines)
    <3>1. CASE \E i \in 1..(k + 1) : NoEnd(more, i - 1) /\ m = more[i]
      <4>1. PICK i \in 1..(k + 1) : NoEnd(more, i - 1) /\ m = more[i] BY <3>1
      <4>2. i - 1 \in 0..k BY <1>1
      <4>3. NoEnd(events, i - 1) BY <4>1, <4>2, <2>1
      <4>4. CASE i \in 1..k BY <4>1, <4>3, <4>4, <1>2, <1>3 DEF Fresh
      <4>5. CASE i = k + 1
        <5>1. m = lines[1] /\ lines[1].kind # "reply" BY <4>1, <4>5, <1>1, <1>2, <1>6
        <5>2. NoEnd(events, Len(events)) BY <4>3, <4>5, <1>1, <1>3
        <5>3. NoEnd(lines, 1 - 1) BY DEF NoEnd
        <5> QED BY <5>1, <5>2, <5>3, <1>1, <1>3 DEF Fresh
      <4> QED BY <4>4, <4>5, <1>1
    <3>2. CASE \E i \in 1..(n - 1) : rest[i].kind # "reply" /\ NoEnd(rest, i - 1) /\ NoEnd(more, Len(more)) /\ m = rest[i]
      <4>1. PICK i \in 1..(n - 1) :
              rest[i].kind # "reply" /\ NoEnd(rest, i - 1) /\ NoEnd(more, Len(more)) /\ m = rest[i]
        BY <3>2
      <4>2. i - 1 \in 0..(n - 1) /\ (i - 1) + 1 = i /\ (i + 1) - 1 = i /\ i + 1 \in 1..n BY <1>1
      <4>3. NoEnd(events, Len(events)) /\ head.kind \notin Final BY <4>1, <2>2, <1>2, <1>3
      <4>4. NoEnd(lines, (i + 1) - 1) BY <4>1, <4>2, <4>3, <1>4
      <4>5. m = lines[i + 1] /\ lines[i + 1].kind # "reply" BY <4>1, <1>1
      <4> QED BY <4>2, <4>3, <4>4, <4>5, <1>3 DEF Fresh
    <3> QED BY <3>1, <3>2, <1>1, <1>2 DEF Fresh
  <2>4. NoEnd(more, k + 1) /\ NoEnd(rest, n - 1) => NoEnd(events, k) /\ NoEnd(lines, n)
    <3>1. n - 1 \in 0..(n - 1) /\ (n - 1) + 1 = n BY <1>1
    <3> QED BY <3>1, <2>2, <1>4
  <2> QED BY <2>3, <2>4, <1>1, <1>2, <1>3 DEF EndUnderway
<1> QED BY <1>3, <1>5, <1>6

LEMMA FreshTaken ==
  ASSUME NEW S, NEW events \in Seq(S), NEW lines \in Seq(S), events # <<>>
  PROVE  /\ Head(events) \in Fresh(events, lines) /\ Head(events) \in S
         /\ Head(events).kind \notin Final =>
              /\ Fresh(Tail(events), lines) \subseteq Fresh(events, lines)
              /\ EndUnderway(events, lines) => EndUnderway(Tail(events), lines)
<1> DEFINE k == Len(events)
           rest == Tail(events)
           head == Head(events)
<1>1. /\ k \in Nat /\ k > 0 /\ Len(rest) = k - 1 /\ head = events[1] /\ head \in S
      /\ \A i \in 1..(k - 1) : rest[i] = events[i + 1]
  OBVIOUS
<1>2. k = Len(events) /\ rest = Tail(events) /\ head = Head(events) OBVIOUS
<1> HIDE DEF k, rest, head
<1>3. head \in Fresh(events, lines)
  <2>1. NoEnd(events, 1 - 1) /\ 1 \in 1..Len(events) BY <1>1, <1>2 DEF NoEnd
  <2> QED BY <2>1, <1>1 DEF Fresh
<1>4. ASSUME NEW i \in 0..(k - 1), NoEnd(rest, i), head.kind \notin Final PROVE NoEnd(events, i + 1)
  <2>1. ASSUME NEW j \in 1..(i + 1) PROVE events[j].kind \notin Final
    <3>1. CASE j = 1 BY <3>1, <1>1, <1>4
    <3>2. CASE j # 1
      <4>1. j - 1 \in 1..i /\ j - 1 \in 1..(k - 1) /\ (j - 1) + 1 = j BY <3>2, <1>1
      <4>2. rest[j - 1] = events[j] BY <4>1, <1>1
      <4> QED BY <4>1, <4>2, <1>4 DEF NoEnd
    <3> QED BY <3>1, <3>2
  <2> QED BY <2>1 DEF NoEnd
<1>5. ASSUME head.kind \notin Final
      PROVE  /\ Fresh(rest, lines) \subseteq Fresh(events, lines)
             /\ EndUnderway(events, lines) => EndUnderway(rest, lines)
  <2>1. NoEnd(rest, k - 1) => NoEnd(events, k)
    <3>1. k - 1 \in 0..(k - 1) /\ (k - 1) + 1 = k BY <1>1
    <3> QED BY <3>1, <1>4, <1>5
  <2>2. ASSUME NEW m \in Fresh(rest, lines) PROVE m \in Fresh(events, lines)
    <3>1. CASE \E i \in 1..(k - 1) : NoEnd(rest, i - 1) /\ m = rest[i]
      <4>1. PICK i \in 1..(k - 1) : NoEnd(rest, i - 1) /\ m = rest[i] BY <3>1
      <4>2. i - 1 \in 0..(k - 1) /\ (i - 1) + 1 = i /\ (i + 1) - 1 = i /\ i + 1 \in 1..k BY <1>1
      <4>3. NoEnd(events, (i + 1) - 1) BY <4>1, <4>2, <1>4, <1>5
      <4>4. m = events[i + 1] BY <4>1, <1>1
      <4> QED BY <4>2, <4>3, <4>4, <1>2 DEF Fresh
    <3>2. CASE \E i \in 1..Len(lines) : lines[i].kind # "reply" /\ NoEnd(lines, i - 1) /\ NoEnd(rest, Len(rest)) /\ m = lines[i]
      <4>1. NoEnd(rest, Len(rest)) => NoEnd(events, Len(events)) BY <2>1, <1>1, <1>2
      <4> QED BY <3>2, <4>1 DEF Fresh
    <3> QED BY <3>1, <3>2, <1>1 DEF Fresh
  <2> QED BY <2>1, <2>2, <1>1, <1>2 DEF EndUnderway
<1> QED BY <1>1, <1>2, <1>3, <1>5

-----------------------------------------------------------------------------
(* The messages. *)

LEMMA NoticeIs ==
  ASSUME NEW kind \in {"started", "cancelled", "exited", "failed"}
  PROVE  Notice(kind) \in Lines /\ Notice(kind).kind = kind
<1>1. Notice(kind) = Event(kind, Nowhere, <<>>, 0) BY DEF Notice, Nowhere
<1>2. Event(kind, Nowhere, <<>>, 0) \in Lines BY DEF Event, Lines, Texts
<1>3. Event(kind, Nowhere, <<>>, 0).kind = kind BY DEF Event
<1> QED BY <1>1, <1>2, <1>3

LEMMA DeltaIs ==
  ASSUME NEW s \in Stream, NEW text \in Texts
  PROVE  Delta(s, text) \in Lines /\ Delta(s, text).kind = "delta" /\ Delta(s, text).stream = s /\ Delta(s, text).text = text
BY DEF Delta, Event, Lines

LEMMA ReplyIs ==
  ASSUME NEW method \in Requests, NEW good \in BOOLEAN
  PROVE  Reply(method, good) \in Lines /\ Reply(method, good).kind = "reply"
<1>1. <<good>> \in Texts
  <2>1. CASE good = TRUE BY <2>1 DEF Texts
  <2>2. CASE good = FALSE BY <2>2 DEF Texts
  <2> QED BY <2>1, <2>2
<1> DEFINE text == <<good>>
<1>2. Reply(method, good) = [kind |-> "reply", stream |-> method, text |-> text, nr |-> 0] BY DEF Reply
<1>3. text \in Texts BY <1>1
<1> HIDE DEF text
<1> QED BY <1>2, <1>3 DEF Lines

LEMMA Numbered ==
  ASSUME NEW l \in Lines, NEW n \in Nat
  PROVE  /\ [l EXCEPT !.nr = n] \in Lines /\ [l EXCEPT !.nr = n].nr = n /\ [l EXCEPT !.nr = n].kind = l.kind
         /\ [l EXCEPT !.nr = n].stream = l.stream /\ [l EXCEPT !.nr = n].text = l.text
BY DEF Lines

\* What a notification adds to the wire.
LEMMA NotifyAdds ==
  ASSUME number \in Nat, wire \in Seq(Lines), NEW events \in Seq(Lines), events # <<>>, Notify(events)
  PROVE  /\ wire' \in Seq(Lines) /\ number' \in Nat
         /\ number' = IF events[Len(events)].kind \in Final THEN 0 ELSE number + Len(events)
         /\ \E more \in Seq(Lines) :
              /\ wire' = wire \o more /\ Len(more) = Len(events)
              /\ \A i \in 1..Len(events) :
                   /\ more[i].kind = events[i].kind /\ more[i].stream = events[i].stream
                   /\ more[i].text = events[i].text /\ more[i].nr = number + i - 1
<1> DEFINE n == Len(events)
           more == [i \in DOMAIN events |-> [events[i] EXCEPT !.nr = number + i - 1]]
<1>1. n \in Nat /\ n > 0 /\ DOMAIN events = 1..n /\ \A i \in 1..n : events[i] \in Lines /\ number + i - 1 \in Nat OBVIOUS
<1>2. ASSUME NEW i \in 1..n
      PROVE  /\ more[i] \in Lines /\ more[i].kind = events[i].kind /\ more[i].stream = events[i].stream
             /\ more[i].text = events[i].text /\ more[i].nr = number + i - 1
  <2>1. more[i] = [events[i] EXCEPT !.nr = number + i - 1] BY <1>1
  <2> DEFINE l == events[i]
             k == number + i - 1
  <2>2. l \in Lines /\ k \in Nat BY <1>1
  <2> HIDE DEF more, l, k
  <2>3. /\ [l EXCEPT !.nr = k] \in Lines /\ [l EXCEPT !.nr = k].nr = k /\ [l EXCEPT !.nr = k].kind = l.kind
        /\ [l EXCEPT !.nr = k].stream = l.stream /\ [l EXCEPT !.nr = k].text = l.text
    BY <2>2, Numbered
  <2> QED BY <2>1, <2>3 DEF l, k
<1>3. more \in Seq(Lines) /\ Len(more) = n
  <2>1. more = [i \in 1..n |-> more[i]] BY <1>1
  <2> DEFINE f == [i \in 1..n |-> more[i]]
  <2>2. f \in [1..n -> Lines] BY <1>2
  <2> HIDE DEF f
  <2>3. f \in Seq(Lines) /\ Len(f) = n BY <2>2, <1>1
  <2> QED BY <2>1, <2>3 DEF f
<1>4. wire' = wire \o more BY DEF Notify
<1>5. number' = IF events[n].kind \in Final THEN 0 ELSE number + n
  <2>1. Last(events) = events[n] BY DEF Last
  <2> QED BY <2>1 DEF Notify, Final
<1>6. number' \in Nat BY <1>1, <1>5
<1> HIDE DEF more
<1>7. wire' \in Seq(Lines) BY <1>3, <1>4
<1> QED BY <1>1, <1>2, <1>3, <1>4, <1>5, <1>6, <1>7

-----------------------------------------------------------------------------
(* The variables hold what they are meant to. *)

LEMMA StreamTypeInit == StreamInit => StreamTypeOK
<1> SUFFICES ASSUME StreamInit PROVE StreamTypeOK OBVIOUS
<1>1. written \in [Stream -> Seq(Char)] /\ pipe \in [Stream -> Seq(Byte)] /\ carry \in [Stream -> Seq(Byte)]
  <2>1. <<>> \in Seq(Char) /\ <<>> \in Seq(Byte) OBVIOUS
  <2> QED BY <2>1 DEF StreamInit
<1>2. inbox \in Seq(Requests) /\ wire \in Seq(Lines) /\ queue \in Seq(Lines) BY DEF StreamInit, Requests
<1>3. DOMAIN heard = Stream /\ heard = [s \in Stream |-> heard[s]] BY DEF StreamInit
<1>4. reader \in [Stream -> {"none", "reading", "done"}] BY DEF StreamInit
<1> QED BY <1>1, <1>2, <1>3, <1>4 DEF StreamInit, StreamTypeOK, Requests

LEMMA ReadsTyped ==
  ASSUME StreamTypeOK, NEW s \in Stream, Reads(s)
  PROVE  StreamTypeOK'
<1> USE DEF StreamTypeOK
<1>1. PICK n \in 1..Len(pipe[s]) :
        LET pending == carry[s] \o SubSeq(pipe[s], 1, n)
            ready == Ready(pending) IN
        /\ pipe' = [pipe EXCEPT ![s] = SubSeq(@, n + 1, Len(@))]
        /\ carry' = [carry EXCEPT ![s] = SubSeq(pending, ready + 1, Len(pending))]
        /\ IF ready > 0 THEN Notify(<<Delta(s, Decoded(SubSeq(pending, 1, ready)))>>)
           ELSE UNCHANGED <<wire, number>>
  BY DEF Reads
<1> DEFINE left == pipe[s]
           pending == carry[s] \o SubSeq(left, 1, n)
           ready == Ready(pending)
           text == Decoded(SubSeq(pending, 1, ready))
<1>2. left \in Seq(Byte) /\ carry[s] \in Seq(Byte) OBVIOUS
<1>3. pending \in Seq(Byte)
  <2>1. SubSeq(left, 1, n) \in Seq(Byte) BY <1>2, Parts
  <2> QED BY <1>2, <2>1
<1> HIDE DEF pending
<1>4. ready \in 0..Len(pending)
  <2>1. Len(pending) \in Nat BY <1>3
  <2>2. pending # <<>> => Len(pending) > 0 BY <1>3
  <2> QED BY <2>1, <2>2 DEF Ready
<1> HIDE DEF ready
<1>5. SubSeq(pending, 1, ready) \in Seq(Byte) /\ SubSeq(pending, ready + 1, Len(pending)) \in Seq(Byte)
  BY <1>3, <1>4, Parts
<1>6. SubSeq(left, n + 1, Len(left)) \in Seq(Byte) BY <1>2, Parts
<1>7. pipe' \in [Stream -> Seq(Byte)] /\ carry' \in [Stream -> Seq(Byte)]
  <2>1. pipe' = [pipe EXCEPT ![s] = SubSeq(left, n + 1, Len(left))] BY <1>1
  <2>2. carry' = [carry EXCEPT ![s] = SubSeq(pending, ready + 1, Len(pending))] BY <1>1 DEF pending, ready
  <2> HIDE DEF left
  <2> QED BY <2>1, <2>2, <1>5, <1>6
<1>8. wire' \in Seq(Lines) /\ number' \in Nat
  <2>1. IF ready > 0 THEN Notify(<<Delta(s, text)>>) ELSE UNCHANGED <<wire, number>> BY <1>1 DEF pending, ready
  <2>2. text \in Texts BY <1>5 DEF Texts
  <2> HIDE DEF text
  <2> DEFINE d == Delta(s, text)
  <2>3. d \in Lines BY <2>2, DeltaIs
  <2> HIDE DEF d
  <2>4. <<d>> \in Seq(Lines) /\ <<d>> # <<>> BY <2>3
  <2> QED BY <2>1, <2>4, NotifyAdds DEF d
<1>9. UNCHANGED <<app, kin, written, reader, waiter, expired, table, main, inbox, clientVars, userVars>> BY DEF Reads
<1> QED BY <1>7, <1>8, <1>9 DEF clientVars, userVars

LEMMA ReadsEndTyped ==
  ASSUME StreamTypeOK, NEW s \in Stream, ReadsEnd(s)
  PROVE  StreamTypeOK'
<1> USE DEF StreamTypeOK
<1> DEFINE text == Decoded(carry[s])
<1>1. text \in Texts BY DEF Texts
<1>2. wire' \in Seq(Lines) /\ number' \in Nat
  <2>1. IF carry[s] # <<>> THEN Notify(<<Delta(s, text)>>) ELSE UNCHANGED <<wire, number>> BY DEF ReadsEnd
  <2> HIDE DEF text
  <2> DEFINE d == Delta(s, text)
  <2>3. d \in Lines BY <1>1, DeltaIs
  <2> HIDE DEF d
  <2>4. <<d>> \in Seq(Lines) /\ <<d>> # <<>> BY <2>3
  <2> QED BY <2>1, <2>4, NotifyAdds DEF d
<1>3. carry' \in [Stream -> Seq(Byte)] /\ reader' \in [Stream -> {"none", "reading", "done"}] BY DEF ReadsEnd
<1> QED BY <1>2, <1>3 DEF ReadsEnd, progVars, clientVars, userVars

\* The waiter's last words.
LEMMA LastWords ==
  ASSUME StreamTypeOK, Reports \/ WaitFails
  PROVE  /\ wire' \in Seq(Lines) /\ number' \in Nat
         /\ \E more \in Seq(Lines) :
              /\ wire' = wire \o more /\ more[Len(more)].kind \in Final /\ Len(more) > 0
              /\ \A i \in 1..Len(more) : /\ more[i].nr = number + i - 1 /\ more[i].kind # "delta"
                                         /\ more[i].kind = "exited" => Drained /\ waiter = "draining"
<1>1. ASSUME NEW events \in Seq(Lines), events # <<>>, Notify(events), events[Len(events)].kind \in Final,
             \A i \in 1..Len(events) : events[i].kind # "delta" /\ (events[i].kind = "exited" => Drained /\ waiter = "draining")
      PROVE  /\ wire' \in Seq(Lines) /\ number' \in Nat
             /\ \E more \in Seq(Lines) :
                  /\ wire' = wire \o more /\ more[Len(more)].kind \in Final /\ Len(more) > 0
                  /\ \A i \in 1..Len(more) : /\ more[i].nr = number + i - 1 /\ more[i].kind # "delta"
                                             /\ more[i].kind = "exited" => Drained /\ waiter = "draining"
  <2>1. number \in Nat /\ wire \in Seq(Lines) BY DEF StreamTypeOK
  <2>2. Len(events) \in Nat /\ Len(events) > 0 BY <1>1
  <2>3. wire' \in Seq(Lines) /\ number' \in Nat BY <1>1, <2>1, NotifyAdds
  <2>4. PICK more \in Seq(Lines) :
          /\ wire' = wire \o more /\ Len(more) = Len(events)
          /\ \A i \in 1..Len(events) :
               /\ more[i].kind = events[i].kind /\ more[i].stream = events[i].stream
               /\ more[i].text = events[i].text /\ more[i].nr = number + i - 1
    BY <1>1, <2>1, NotifyAdds
  <2> DEFINE k == Len(events)
  <2>5. k \in 1..k /\ k > 0 /\ Len(more) = k BY <2>2, <2>4
  <2>6. more[k].kind = events[k].kind BY <2>4, <2>5
  <2>7. more[Len(more)].kind \in Final BY <2>5, <2>6, <1>1
  <2>8. ASSUME NEW i \in 1..Len(more)
        PROVE  more[i].nr = number + i - 1 /\ more[i].kind # "delta" /\ (more[i].kind = "exited" => Drained /\ waiter = "draining")
    <3>1. i \in 1..Len(events) BY <2>5
    <3>2. more[i].kind = events[i].kind /\ more[i].nr = number + i - 1 BY <2>4, <3>1
    <3> QED BY <3>1, <3>2, <1>1
  <2>9. wire' = wire \o more /\ Len(more) > 0 BY <2>4, <2>5
  <2> HIDE DEF k
  <2> QED BY <2>3, <2>7, <2>8, <2>9
<1> DEFINE c == Notice("cancelled")
           x == Notice("exited")
           f == Notice("failed")
<1>2. c \in Lines /\ c.kind = "cancelled" /\ x \in Lines /\ x.kind = "exited" /\ f \in Lines /\ f.kind = "failed"
  BY NoticeIs
<1>3. \/ Notify(<<c>> \o <<x>>) /\ Drained /\ waiter = "draining"
      \/ Notify(<<>> \o <<x>>) /\ Drained /\ waiter = "draining"
      \/ Notify(<<f>>)
  <2>1. CASE Reports
    <3>1. CASE Drained /\ Notify((IF expired THEN <<c>> ELSE <<>>) \o <<x>>)
      <4>1. CASE expired BY <2>1, <3>1, <4>1 DEF Reports
      <4>2. CASE ~expired BY <2>1, <3>1, <4>2 DEF Reports
      <4> QED BY <4>1, <4>2
    <3>2. CASE Notify(<<f>>) BY <3>2
    <3> QED BY <2>1, <3>1, <3>2 DEF Reports
  <2>2. CASE WaitFails BY <2>2 DEF WaitFails
  <2> QED BY <2>1, <2>2
<1> HIDE DEF c, x, f
<1>4. <<>> \o <<x>> = <<x>> BY <1>2
<1>5. <<c>> \o <<x>> = <<c, x>>
  <2> DEFINE a == <<c>> \o <<x>>
             b == <<c, x>>
  <2>1. <<c>> \in Seq(Lines) /\ <<x>> \in Seq(Lines) /\ Len(<<c>>) = 1 /\ Len(<<x>>) = 1 BY <1>2
  <2>2. a \in Seq(Lines) /\ Len(a) = 2 /\ a[1] = c /\ a[2] = x BY <1>2, <2>1
  <2>3. b \in Seq(Lines) /\ Len(b) = 2 /\ b[1] = c /\ b[2] = x BY <1>2
  <2> HIDE DEF a, b
  <2>4. \A i \in 1..2 : a[i] = b[i]
    <3>1. \A i \in 1..2 : i = 1 \/ i = 2 OBVIOUS
    <3> QED BY <2>2, <2>3, <3>1
  <2>5. a = b BY <2>2, <2>3, <2>4, SeqEqual
  <2> QED BY <2>5 DEF a, b
<1>6. /\ <<c, x>> \in Seq(Lines) /\ Len(<<c, x>>) = 2 /\ <<c, x>>[1] = c /\ <<c, x>>[2] = x /\ <<c, x>> # <<>>
      /\ <<x>> \in Seq(Lines) /\ Len(<<x>>) = 1 /\ <<x>>[1] = x /\ <<x>> # <<>>
      /\ <<f>> \in Seq(Lines) /\ Len(<<f>>) = 1 /\ <<f>>[1] = f /\ <<f>> # <<>>
  BY <1>2
<1>7. CASE Notify(<<c, x>>) /\ Drained /\ waiter = "draining"
  <2> DEFINE e == <<c, x>>
  <2>1. e \in Seq(Lines) /\ e # <<>> /\ Notify(e) /\ Len(e) = 2 /\ e[1] = c /\ e[2] = x BY <1>6, <1>7
  <2> HIDE DEF e
  <2>2. e[Len(e)].kind \in Final BY <2>1, <1>2 DEF Final
  <2>3. \A i \in 1..Len(e) : e[i].kind # "delta" /\ (e[i].kind = "exited" => Drained /\ waiter = "draining")
    BY <2>1, <1>2, <1>7
  <2> QED BY <2>1, <2>2, <2>3, <1>1
<1>8. CASE Notify(<<x>>) /\ Drained /\ waiter = "draining"
  <2> DEFINE e == <<x>>
  <2>1. e \in Seq(Lines) /\ e # <<>> /\ Notify(e) /\ Len(e) = 1 /\ e[1] = x BY <1>6, <1>8
  <2> HIDE DEF e
  <2>2. e[Len(e)].kind \in Final BY <2>1, <1>2 DEF Final
  <2>3. \A i \in 1..Len(e) : e[i].kind # "delta" /\ (e[i].kind = "exited" => Drained /\ waiter = "draining")
    BY <2>1, <1>2, <1>8
  <2> QED BY <2>1, <2>2, <2>3, <1>1
<1>9. CASE Notify(<<f>>)
  <2> DEFINE e == <<f>>
  <2>1. e \in Seq(Lines) /\ e # <<>> /\ Notify(e) /\ Len(e) = 1 /\ e[1] = f BY <1>6, <1>9
  <2> HIDE DEF e
  <2>2. e[Len(e)].kind \in Final BY <2>1, <1>2 DEF Final
  <2>3. \A i \in 1..Len(e) : e[i].kind # "delta" /\ (e[i].kind = "exited" => Drained /\ waiter = "draining")
    BY <2>1, <1>2
  <2> QED BY <2>1, <2>2, <2>3, <1>1
<1> QED BY <1>3, <1>4, <1>5, <1>7, <1>8, <1>9

\* The answers of the host's loop.
LEMMA Answers ==
  ASSUME StreamTypeOK, NEW method \in Requests, NEW good \in BOOLEAN, Replies(method, good)
  PROVE  wire' \in Seq(Lines) /\ \E l \in Lines : l.kind = "reply" /\ wire' = Append(wire, l)
<1>1. wire \in Seq(Lines) BY DEF StreamTypeOK
<1>2. Reply(method, good) \in Lines /\ Reply(method, good).kind = "reply" BY ReplyIs
<1>3. wire' = Append(wire, Reply(method, good)) BY DEF Replies
<1> DEFINE l == Reply(method, good)
<1> HIDE DEF l
<1>4. l \in Lines /\ l.kind = "reply" /\ wire' = Append(wire, l) BY <1>2, <1>3 DEF l
<1> QED BY <1>1, <1>4

LEMMA TakenInbox ==
  ASSUME StreamTypeOK, NEW method, Takes(method)
  PROVE  /\ inbox # <<>> /\ inbox[1] = method /\ inbox' \in Seq(Requests) /\ Len(inbox) \in Nat /\ Len(inbox) > 0
         /\ Len(inbox') = Len(inbox) - 1 /\ \A i \in 1..Len(inbox') : i + 1 \in 1..Len(inbox) /\ inbox'[i] = inbox[i + 1]
<1>1. inbox \in Seq(Requests) /\ inbox # <<>> /\ Head(inbox) = method /\ inbox' = Tail(inbox) BY DEF StreamTypeOK, Takes
<1> QED BY <1>1

LEMMA HangUpTyped ==
  ASSUME StreamTypeOK, NEW how \in {"refused", "unknown", "stopped", "exited", "timed_out"}, HangUp(how)
  PROVE  /\ user' = "leaving" /\ result' = how /\ inbox' \in Seq(Requests)
         /\ waitsFor' \in Requests \cup {"none", "yes", "no", "lost"}
<1>1. inbox \in Seq(Requests) /\ "shutdown" \in Requests BY DEF StreamTypeOK, Requests
<1>2. Append(inbox, "shutdown") \in Seq(Requests) BY <1>1
<1> QED BY <1>1, <1>2 DEF HangUp, Requests

LEMMA HostGoneTyped ==
  ASSUME StreamTypeOK, HostGone
  PROVE  /\ app' \in {"none", "running", "exited"} /\ kin' \in BOOLEAN /\ main' \in {"ready", "writing", "down"}
         /\ table' \in BOOLEAN /\ number' \in Nat /\ waiter' \in {"none", "polling", "draining", "done"}
         /\ inbox' \in Seq(Requests) /\ pipe' \in [Stream -> Seq(Byte)] /\ carry' \in [Stream -> Seq(Byte)]
         /\ reader' \in [Stream -> {"none", "reading", "done"}] /\ written' = written /\ expired' = expired
         /\ (app = "none" => app' = "none") /\ ~Up' /\ Hollow' /\ (app # "none" => app' # "none")
<1>1. app' \in {"none", "running", "exited"} /\ kin' = FALSE /\ app' # "running" /\ (app = "none" <=> app' = "none")
  BY DEF StreamTypeOK, HostGone, Killed
<1>2. pipe' = [s \in Stream |-> <<>>] /\ carry' = [s \in Stream |-> <<>>] /\ <<>> \in Seq(Byte) BY DEF HostGone
<1>3. pipe' \in [Stream -> Seq(Byte)] /\ carry' \in [Stream -> Seq(Byte)] BY <1>2
<1>4. reader' \in [Stream -> {"none", "reading", "done"}] BY DEF HostGone
<1>5. Hollow' BY <1>1 DEF Hollow
<1>6. main' = "down" /\ table' = FALSE /\ number' = 0 /\ waiter' = "none" /\ inbox' = <<>> /\ UNCHANGED <<written, expired>>
  BY DEF HostGone
<1>7. inbox' \in Seq(Requests) BY <1>6
<1>8. ~Up' BY <1>6 DEF Up
<1> QED BY <1>1, <1>3, <1>4, <1>5, <1>6, <1>7, <1>8

LEMMA StreamTypeStep == StreamTypeOK /\ [StreamNext]_streamVars => StreamTypeOK'
<1> SUFFICES ASSUME StreamTypeOK, [StreamNext]_streamVars PROVE StreamTypeOK' OBVIOUS
<1>1. ASSUME NEW s \in Stream, NEW c \in Char, Prints(s, c) PROVE StreamTypeOK'
  <2>1. BytesOf(c) \in Seq(Byte)
    <3>1. CASE c = "n" BY <3>1 DEF BytesOf, Byte
    <3>2. CASE c # "n" BY <3>2 DEF BytesOf, Byte
    <3> QED BY <3>1, <3>2
  <2>2. written[s] \in Seq(Char) /\ pipe[s] \in Seq(Byte) BY DEF StreamTypeOK
  <2>3. Append(written[s], c) \in Seq(Char) /\ pipe[s] \o BytesOf(c) \in Seq(Byte) BY <2>1, <2>2
  <2>4. written' \in [Stream -> Seq(Char)] /\ pipe' \in [Stream -> Seq(Byte)]
    BY <2>3, <1>1 DEF Prints, StreamTypeOK
  <2> QED BY <2>4, <1>1 DEF Prints, StreamTypeOK, hostVars, clientVars, userVars
<1>2. CASE Forks BY <1>2 DEF Forks, StreamTypeOK, hostVars, clientVars, userVars
<1>3. CASE Exits
  <2>1. app' \in {"none", "running", "exited"} /\ kin' \in BOOLEAN
    <3>1. CASE app = "running" /\ app' = "exited" /\ UNCHANGED kin BY <3>1 DEF StreamTypeOK
    <3>2. CASE kin /\ kin' = FALSE /\ UNCHANGED app BY <3>2 DEF StreamTypeOK
    <3> QED BY <3>1, <3>2, <1>3 DEF Exits
  <2> QED BY <2>1, <1>3 DEF Exits, StreamTypeOK, hostVars, clientVars, userVars
<1>4. CASE SeesExit BY <1>4 DEF SeesExit, StreamTypeOK, progVars, clientVars, userVars
<1>5. CASE Deadline
  <2>1. app' \in {"none", "running", "exited"} /\ kin' \in BOOLEAN BY <1>5 DEF Deadline, Killed, StreamTypeOK
  <2>2. expired' \in BOOLEAN BY <1>5 DEF Deadline
  <2>3. UNCHANGED <<written, pipe, carry, reader, waiter, table, main, number, inbox, wire, clientVars, userVars>>
    BY <1>5 DEF Deadline
  <2> QED BY <2>1, <2>2, <2>3 DEF StreamTypeOK, clientVars, userVars
<1>6. CASE Reports \/ WaitFails
  <2>1. wire' \in Seq(Lines) /\ number' \in Nat BY <1>6, LastWords
  <2>2. waiter' \in {"none", "polling", "draining", "done"} /\ table' \in BOOLEAN BY <1>6 DEF Reports, WaitFails
  <2>3. UNCHANGED <<progVars, carry, reader, expired, main, inbox, clientVars, userVars>> BY <1>6 DEF Reports, WaitFails
  <2> QED BY <2>1, <2>2, <2>3 DEF StreamTypeOK, progVars, clientVars, userVars
<1>7. CASE TakesInitialize
  <2>1. inbox' \in Seq(Requests) BY <1>7, TakenInbox DEF TakesInitialize
  <2>2. wire' \in Seq(Lines) BY <1>7, Answers DEF TakesInitialize, Requests
  <2> QED BY <2>1, <2>2, <1>7 DEF TakesInitialize, StreamTypeOK, progVars, hostVars, clientVars, userVars
<1>8. CASE TakesStart
  <2>1. inbox' \in Seq(Requests) BY <1>8, TakenInbox DEF TakesStart
  <2>2. CASE Replies("start", FALSE) /\ UNCHANGED <<app, reader, waiter, table, number>>
    <3>1. wire' \in Seq(Lines) BY <2>2, Answers DEF Requests
    <3> QED BY <2>1, <2>2, <3>1, <1>8 DEF TakesStart, StreamTypeOK, clientVars, userVars
  <2>3. CASE /\ app' = "running" /\ reader' = [s \in Stream |-> "reading"] /\ waiter' = "polling"
             /\ table' = TRUE /\ number' = 1
             /\ wire' = wire \o <<Notice("started"), Reply("start", TRUE)>>
    <3> DEFINE n == Notice("started")
               r == Reply("start", TRUE)
    <3>1. n \in Lines /\ r \in Lines BY NoticeIs, ReplyIs DEF Requests
    <3> HIDE DEF n, r
    <3>2. wire \in Seq(Lines) BY DEF StreamTypeOK
    <3>3. wire \o <<n, r>> \in Seq(Lines) BY <3>1, <3>2
    <3>4. wire' \in Seq(Lines) BY <2>3, <3>3 DEF n, r
    <3>5. /\ app' \in {"none", "running", "exited"} /\ reader' \in [Stream -> {"none", "reading", "done"}]
          /\ waiter' \in {"none", "polling", "draining", "done"} /\ table' \in BOOLEAN /\ number' \in Nat
      BY <2>3
    <3>6. UNCHANGED <<kin, written, pipe, carry, expired, main, clientVars, userVars>> BY <1>8 DEF TakesStart
    <3> QED BY <2>1, <3>4, <3>5, <3>6 DEF StreamTypeOK, clientVars, userVars
  <2> QED BY <2>2, <2>3, <1>8 DEF TakesStart
<1>9. CASE TakesWrite
  <2>1. inbox' \in Seq(Requests) BY <1>9, TakenInbox DEF TakesWrite
  <2>2. wire' \in Seq(Lines)
    <3>1. wire \in Seq(Lines) /\ table \in BOOLEAN /\ "write" \in Requests BY DEF StreamTypeOK, Requests
    <3>2. CASE Replies("write", table) BY <3>1, <3>2, Answers
    <3>3. CASE UNCHANGED wire BY <3>1, <3>3
    <3> QED BY <3>2, <3>3, <1>9 DEF TakesWrite
  <2>3. main' \in {"ready", "writing", "down"} BY <1>9 DEF TakesWrite, StreamTypeOK
  <2> QED BY <2>1, <2>2, <2>3, <1>9 DEF TakesWrite, StreamTypeOK, progVars, clientVars, userVars
<1>10. CASE WriteEnds
  <2>1. wire' \in Seq(Lines) BY <1>10, Answers DEF WriteEnds, Requests
  <2> QED BY <2>1, <1>10 DEF WriteEnds, StreamTypeOK, progVars, clientVars, userVars
<1>11. CASE TakesShutdown \/ HostDies
  <2>1. wire' \in Seq(Lines)
    <3>1. CASE TakesShutdown BY <3>1, Answers DEF TakesShutdown, Requests
    <3>2. CASE HostDies BY <3>2 DEF HostDies, StreamTypeOK
    <3> QED BY <3>1, <3>2, <1>11
  <2>2. HostGone /\ UNCHANGED <<clientVars, userVars>> BY <1>11 DEF TakesShutdown, HostDies
  <2> QED BY <2>1, <2>2, HostGoneTyped DEF StreamTypeOK, clientVars, userVars
<1>12. CASE Pumps
  <2>1. wire \in Seq(Lines) /\ queue \in Seq(Lines) /\ wire # <<>> /\ wire' = Tail(wire) BY <1>12 DEF Pumps, StreamTypeOK
  <2>2. Head(wire) \in Lines /\ wire' \in Seq(Lines) BY <2>1
  <2>3. /\ queue' \in Seq(Lines) /\ broken' \in BOOLEAN
        /\ waitsFor' \in Requests \cup {"none", "yes", "no", "lost"}
    <3>1. CASE Resolves(Head(wire)) BY <3>1, <2>1 DEF Resolves, clientVars, StreamTypeOK
    <3>2. CASE Enqueue(Head(wire))
      <4>1. Append(queue, Head(wire)) \in Seq(Lines) BY <2>1, <2>2
      <4> QED BY <3>2, <4>1 DEF Enqueue, Breaks, StreamTypeOK
    <3> QED BY <3>1, <3>2, <1>12 DEF Pumps
  <2> QED BY <2>2, <2>3, <1>12 DEF Pumps, StreamTypeOK, progVars, hostVars
<1>13. CASE EndOfFile
  BY <1>13 DEF EndOfFile, Breaks, StreamTypeOK, progVars, hostVars
<1>14. CASE Connects
  <2>1. /\ inbox' \in Seq(Requests) /\ waitsFor' \in Requests \cup {"none", "yes", "no", "lost"}
        /\ user' \in {"dialing", "starting", "listening", "leaving", "gone"}
        /\ result' \in {"none", "refused", "unknown", "stopped", "exited", "timed_out"}
    <3>1. CASE \E how \in {"refused", "unknown"} : HangUp(how)
      <4>1. PICK how \in {"refused", "unknown"} : HangUp(how) BY <3>1
      <4> QED BY <4>1, HangUpTyped
    <3>2. CASE /\ waitsFor = "yes" /\ ~broken /\ UNCHANGED result
               /\ IF user = "dialing"
                  THEN user' = "starting" /\ waitsFor' = "start" /\ inbox' = Append(inbox, "start")
                  ELSE user' = "listening" /\ waitsFor' = "none" /\ UNCHANGED inbox
      <4>1. Append(inbox, "start") \in Seq(Requests) BY DEF StreamTypeOK, Requests
      <4> QED BY <4>1, <3>2 DEF StreamTypeOK, Requests
    <3>3. \A what : StartFailed(what) \in {"refused", "unknown"} BY DEF StartFailed
    <3> QED BY <3>1, <3>2, <3>3, <1>14 DEF Connects
  <2> QED BY <2>1, <1>14 DEF Connects, StreamTypeOK, progVars, hostVars, clientVars
<1>15. CASE Consumes
  <2>1. queue' \in Seq(Lines) BY <1>15 DEF Consumes, StreamTypeOK
  <2>2. expected' \in Nat BY <1>15 DEF Consumes, StreamTypeOK
  <2>3. DOMAIN heard' = Stream /\ heard' = [s \in Stream |-> heard'[s]]
    <3> DEFINE m == Head(queue)
    <3>1. heard' = heard \/ heard' = [heard EXCEPT ![m.stream] = @ \o m.text] BY <1>15 DEF Consumes
    <3>2. DOMAIN heard = Stream /\ heard = [s \in Stream |-> heard[s]] BY DEF StreamTypeOK
    <3> HIDE DEF m
    <3> QED BY <3>1, <3>2
  <2>4. /\ inbox' \in Seq(Requests) /\ waitsFor' \in Requests \cup {"none", "yes", "no", "lost"}
        /\ user' \in {"dialing", "starting", "listening", "leaving", "gone"}
        /\ result' \in {"none", "refused", "unknown", "stopped", "exited", "timed_out"}
    <3>1. CASE \E how \in {"unknown", "exited", "timed_out"} : HangUp(how)
      <4>1. PICK how \in {"unknown", "exited", "timed_out"} : HangUp(how) BY <3>1
      <4> QED BY <4>1, HangUpTyped
    <3>2. CASE UNCHANGED <<user, result, waitsFor, inbox>> BY <3>2 DEF StreamTypeOK
    <3>3. (\E how \in {"unknown", "exited", "timed_out"} : HangUp(how)) \/ UNCHANGED <<user, result, waitsFor, inbox>>
      <4> DEFINE m == Head(queue)
      <4>1. CASE /\ m.nr # expected \/ m.kind = "failed"
                 /\ HangUp("unknown")
        BY <4>1
      <4>2. CASE HangUp(IF expired THEN "timed_out" ELSE "exited")
        <5>1. CASE expired BY <4>2, <5>1
        <5>2. CASE ~expired BY <4>2, <5>2
        <5> QED BY <5>1, <5>2
      <4>3. CASE UNCHANGED <<user, result, waitsFor, inbox>> BY <4>3
      <4> QED BY <4>1, <4>2, <4>3, <1>15 DEF Consumes
    <3> QED BY <3>1, <3>2, <3>3
  <2>5. UNCHANGED <<progVars, carry, reader, hostVars, wire, broken>> BY <1>15 DEF Consumes
  <2> QED BY <2>1, <2>2, <2>3, <2>4, <2>5 DEF StreamTypeOK, progVars, hostVars
<1>16. CASE GivesUp
  <2>1. \E how \in {"stopped", "unknown"} : HangUp(how) BY <1>16 DEF GivesUp
  <2>2. PICK how \in {"stopped", "unknown"} : HangUp(how) BY <2>1
  <2>3. /\ inbox' \in Seq(Requests) /\ waitsFor' \in Requests \cup {"none", "yes", "no", "lost"}
        /\ user' = "leaving" /\ result' = how
    BY <2>2, HangUpTyped
  <2> QED BY <2>3, <1>16 DEF GivesUp, StreamTypeOK, progVars, hostVars, clientVars
<1>17. CASE AsksWrite
  <2>1. Append(inbox, "write") \in Seq(Requests) BY DEF StreamTypeOK, Requests
  <2> QED BY <2>1, <1>17 DEF AsksWrite, StreamTypeOK, Requests, progVars, hostVars, clientVars
<1>18. CASE Closes
  <2>1. HostGone /\ user' = "gone" /\ wire' = <<>> /\ UNCHANGED <<clientVars, waitsFor, expected, heard, result>>
    BY <1>18 DEF Closes
  <2>2. wire' \in Seq(Lines) BY <2>1
  <2> QED BY <2>1, <2>2, HostGoneTyped DEF StreamTypeOK, clientVars
<1>19. CASE UNCHANGED streamVars BY <1>19 DEF streamVars, StreamTypeOK, progVars, hostVars, clientVars, userVars
<1>20. CASE \E s \in Stream : Reads(s) \/ ReadsEnd(s) BY <1>20, ReadsTyped, ReadsEndTyped
<1> QED
  BY <1>1, <1>2, <1>3, <1>4, <1>5, <1>6, <1>7, <1>8, <1>9, <1>10, <1>11, <1>12, <1>13, <1>14, <1>15, <1>16, <1>17, <1>18,
     <1>19, <1>20
  DEF StreamNext, PumpStep

-----------------------------------------------------------------------------
(* Nothing is lost: steps that carry no character. *)

LEMMA Stays ==
  ASSUME NEW before, AddsUp(before), UNCHANGED <<written, heard, expected>>, Hollow => Hollow',
         Fresh(queue', wire') \subseteq Fresh(queue, wire),
         EndUnderway(queue, wire) => EndUnderway(queue', wire'),
         Numbering' => Numbering /\ UNCHANGED <<number, pipe, carry, reader>>,
         waiter' = "done" => waiter = "done"
  PROVE  AddsUp(before)'
<1>1. Bounded(before)' BY DEF AddsUp, Bounded
<1>2. (\A s \in Stream : heard[s] = SubSeq(written[s], 1, before[s][expected]))' BY DEF AddsUp
<1>3. ASSUME NEW m \in Fresh(queue', wire') PROVE Carries(before, m)'
  <2>1. Carries(before, m) BY DEF AddsUp
  <2> QED BY <2>1 DEF Carries
<1>4. ASSUME Numbering'
      PROVE  /\ expected' <= number' /\ (\A m \in Fresh(queue', wire') : m.nr < number')
             /\ \A s \in Stream : ReaderFits(before, s)'
  <2>1. Numbering /\ UNCHANGED <<number, pipe, carry, reader>> BY <1>4
  <2>2. expected' <= number' /\ \A m \in Fresh(queue', wire') : m.nr < number' BY <2>1 DEF AddsUp
  <2>3. ASSUME NEW s \in Stream PROVE ReaderFits(before, s)'
    <3>1. ReaderFits(before, s) BY <2>1 DEF AddsUp
    <3> QED BY <3>1, <2>1 DEF ReaderFits, Unsent
  <2> QED BY <2>2, <2>3
<1>5. waiter' = "done" => EndUnderway(queue', wire') BY DEF AddsUp
<1> QED BY <1>1, <1>2, <1>3, <1>4, <1>5 DEF AddsUp

\* What the wire gets that is no event.
LEMMA RepliesPass ==
  ASSUME StreamTypeOK, NEW l \in Lines, l.kind = "reply", wire' = Append(wire, l), queue' = queue
  PROVE  /\ Fresh(queue', wire') \subseteq Fresh(queue, wire)
         /\ EndUnderway(queue, wire) => EndUnderway(queue', wire')
         /\ \A i \in 1..Len(wire') : (i \in 1..Len(wire) /\ wire'[i] = wire[i]) \/ wire'[i].kind = "reply"
<1>1. wire \in Seq(Lines) /\ queue \in Seq(Lines) /\ <<l>> \in Seq(Lines) /\ Len(<<l>>) = 1 /\ <<l>>[1] = l
  BY DEF StreamTypeOK
<1>2. wire' = wire \o <<l>> BY <1>1, AppendIsConcat
<1> DEFINE more == <<l>>
<1>3. more \in Seq(Lines) /\ Len(more) = 1 /\ more[1] = l /\ wire' = wire \o more BY <1>1, <1>2
<1> HIDE DEF more
<1>4. \A i \in 1..Len(more) : more[i].kind = "reply" BY <1>3
<1>5. /\ \A m \in Fresh(queue, wire') : m \notin Fresh(queue, wire) =>
              ~EndUnderway(queue, wire) /\ (\E i \in 1..Len(more) : m = more[i] /\ more[i].kind # "reply")
      /\ EndUnderway(queue, wire) => EndUnderway(queue, wire')
  BY <1>1, <1>3, FreshSends
<1>6. \A i \in 1..Len(wire') : (i \in 1..Len(wire) /\ wire'[i] = wire[i]) \/ wire'[i].kind = "reply" BY <1>1
<1> QED BY <1>4, <1>5, <1>6

\* What the start finds when nothing is there yet stays so.
LEMMA StartsOnceStays ==
  ASSUME StartsOnce, StreamTypeOK, user' = user, (app = "none") <=> (app' = "none"),
         UNCHANGED <<expected, queue, written>>, Up' => Up,
         app # "none" /\ Up' => waiter' # "none",
         app = "none" => waiter' = "none" /\ ~kin' /\ UNCHANGED <<written>>,
         app = "none" => (\A i \in 1..Len(wire') : wire'[i].kind = "reply"),
         app = "none" => \A s \in Stream : pipe'[s] = <<>> /\ carry'[s] = <<>> /\ reader'[s] = "none",
         NEW k \in {0, 1}, \A i \in 1..Len(inbox') : i + k \in 1..Len(inbox) /\ inbox'[i] = inbox[i + k]
  PROVE  StartsOnce'
<1> USE DEF StartsOnce
<1>1. (\A i \in 1..Len(inbox) : inbox[i] # "start") => (\A i \in 1..Len(inbox') : inbox'[i] # "start") OBVIOUS
<1>2. ASSUME NEW i \in 1..Len(inbox'), NEW j \in 1..Len(inbox'), inbox'[i] = "start", inbox'[j] = "start" PROVE i = j
  <2>1. i + k = j + k BY <1>2
  <2>2. i \in Int /\ j \in Int /\ k \in Int OBVIOUS
  <2> QED BY <2>1, <2>2
<1>3. (user' = "dialing" => app' = "none") /\ (user' = "dialing" => \A i \in 1..Len(inbox') : inbox'[i] # "start") BY <1>1
<1>4. app' # "none" => (Up' => waiter' # "none") /\ \A i \in 1..Len(inbox') : inbox'[i] # "start" BY <1>1
<1>5. app' = "none" =>
        /\ waiter' = "none" /\ ~kin' /\ expected' = 0 /\ queue' = <<>>
        /\ \A i \in 1..Len(wire') : wire'[i].kind = "reply"
        /\ \A s \in Stream : written'[s] = <<>> /\ pipe'[s] = <<>> /\ carry'[s] = <<>> /\ reader'[s] = "none"
  OBVIOUS
<1> QED BY <1>2, <1>3, <1>4, <1>5

LEMMA SamePlaces ==
  ASSUME StreamTypeOK, UNCHANGED inbox
  PROVE  \A i \in 1..Len(inbox') : i + 0 \in 1..Len(inbox) /\ inbox'[i] = inbox[i + 0]
BY DEF StreamTypeOK

\* The program and the waiter.
LEMMA QuietKeeps ==
  ASSUME StreamInv, Forks \/ Exits \/ SeesExit \/ Deadline
  PROVE  NothingLost'
<1>1. /\ UNCHANGED <<written, pipe, carry, reader, table, main, number, inbox, wire, queue, broken, user, expected, heard, result>>
      /\ (app = "none" => app' = "none" /\ UNCHANGED waiter) /\ (app # "none" => app' # "none")
      /\ (Hollow => Hollow') /\ (waiter' = "done" => waiter = "done") /\ (kin' => kin \/ app = "running")
      /\ (waiter' # waiter => waiter = "polling" /\ waiter' = "draining")
  <2>1. CASE Forks BY <2>1 DEF Forks, hostVars, clientVars, userVars, Hollow
  <2>2. CASE Exits BY <2>2 DEF Exits, hostVars, clientVars, userVars, Hollow
  <2>3. CASE SeesExit BY <2>3 DEF SeesExit, progVars, clientVars, userVars, Hollow
  <2>4. CASE Deadline BY <2>4 DEF Deadline, Killed, progVars, clientVars, userVars, Hollow
  <2> QED BY <2>1, <2>2, <2>3, <2>4
<1>2. (user' \in {"dialing", "starting", "listening"} => result' = "none") BY <1>1 DEF StreamInv, NothingLost
<1> SUFFICES ASSUME Attentive' PROVE StartsOnce' /\ \E before \in Counts : AddsUp(before)'
  BY <1>2 DEF NothingLost
<1>3. Attentive BY <1>1 DEF Attentive
<1>4. PICK before \in Counts : AddsUp(before) BY <1>3 DEF StreamInv, NothingLost
<1>5. AddsUp(before)'
  <2>1. Fresh(queue', wire') \subseteq Fresh(queue, wire) /\ (EndUnderway(queue, wire) => EndUnderway(queue', wire')) BY <1>1
  <2>2. Numbering' => Numbering BY <1>1 DEF Numbering, Up
  <2> QED BY <2>1, <2>2, <1>1, <1>4, Stays
<1>6. StartsOnce'
  <2>1. StartsOnce /\ StreamTypeOK BY <1>3 DEF StreamInv, NothingLost
  <2>2. \A i \in 1..Len(inbox') : i + 0 \in 1..Len(inbox) /\ inbox'[i] = inbox[i + 0] BY <2>1, <1>1, SamePlaces
  <2>3. Up' => Up BY <1>1 DEF Up
  <2>4. app # "none" /\ Up' => waiter' # "none" BY <1>1, <2>1, <2>3 DEF StartsOnce
  <2>5. app = "none" => waiter' = "none" /\ ~kin' BY <1>1, <2>1 DEF StartsOnce
  <2>6. app = "none" => \A i \in 1..Len(wire') : wire'[i].kind = "reply" BY <1>1, <2>1 DEF StartsOnce
  <2>7. app = "none" => \A s \in Stream : pipe'[s] = <<>> /\ carry'[s] = <<>> /\ reader'[s] = "none"
    BY <1>1, <2>1 DEF StartsOnce
  <2> QED BY <1>1, <2>1, <2>2, <2>3, <2>4, <2>5, <2>6, <2>7, StartsOnceStays
<1> QED BY <1>4, <1>5, <1>6

\* The host's loop answers, or the host is gone.
LEMMA HostKeeps ==
  ASSUME StreamInv, UNCHANGED <<written, expected, heard, result, user, broken, queue>>,
         UNCHANGED wire \/ (\E l \in Lines : l.kind = "reply" /\ wire' = Append(wire, l)),
         \/ /\ UNCHANGED <<app, kin, pipe, carry, reader, waiter, number>>
            /\ Up' => Up
            /\ UNCHANGED inbox \/ (\E method : Takes(method))
         \/ HostGone
  PROVE  NothingLost'
<1>1. (user' \in {"dialing", "starting", "listening"} => result' = "none") BY DEF StreamInv, NothingLost
<1> SUFFICES ASSUME Attentive' PROVE StartsOnce' /\ \E before \in Counts : AddsUp(before)'
  BY <1>1 DEF NothingLost
<1>2. Attentive BY DEF Attentive
<1>3. PICK before \in Counts : AddsUp(before) BY <1>2 DEF StreamInv, NothingLost
<1>4. StartsOnce /\ StreamTypeOK BY <1>2 DEF StreamInv, NothingLost
<1>5. /\ Fresh(queue', wire') \subseteq Fresh(queue, wire)
      /\ EndUnderway(queue, wire) => EndUnderway(queue', wire')
      /\ \A i \in 1..Len(wire') : (i \in 1..Len(wire) /\ wire'[i] = wire[i]) \/ wire'[i].kind = "reply"
  <2>1. CASE UNCHANGED wire BY <2>1
  <2>2. CASE \E l \in Lines : l.kind = "reply" /\ wire' = Append(wire, l) BY <2>2, <1>4, RepliesPass
  <2> QED BY <2>1, <2>2
<1>6. app = "none" => \A i \in 1..Len(wire') : wire'[i].kind = "reply" BY <1>4, <1>5 DEF StartsOnce
<1>7. CASE /\ UNCHANGED <<app, kin, pipe, carry, reader, waiter, number>>
           /\ Up' => Up
           /\ UNCHANGED inbox \/ (\E method : Takes(method))
  <2>1. AddsUp(before)'
    <3>1. Numbering' => Numbering BY <1>7 DEF Numbering
    <3>2. Hollow => Hollow' BY <1>7 DEF Hollow
    <3> QED BY <3>1, <3>2, <1>3, <1>5, <1>7, Stays
  <2>2. StartsOnce'
    <3>1. \E k \in {0, 1} : \A i \in 1..Len(inbox') : i + k \in 1..Len(inbox) /\ inbox'[i] = inbox[i + k]
      <4>1. CASE UNCHANGED inbox BY <4>1, <1>4, SamePlaces
      <4>2. CASE \E method : Takes(method)
        <5>1. PICK method : Takes(method) BY <4>2
        <5> QED BY <5>1, <1>4, TakenInbox
      <4> QED BY <4>1, <4>2, <1>7
    <3>2. app # "none" /\ Up' => waiter' # "none" BY <1>4, <1>7 DEF StartsOnce
    <3>3. app = "none" => waiter' = "none" /\ ~kin' BY <1>4, <1>7 DEF StartsOnce
    <3>4. app = "none" => \A s \in Stream : pipe'[s] = <<>> /\ carry'[s] = <<>> /\ reader'[s] = "none"
      BY <1>4, <1>7 DEF StartsOnce
    <3> QED BY <3>1, <3>2, <3>3, <3>4, <1>4, <1>6, <1>7, StartsOnceStays
  <2> QED BY <2>1, <2>2, <1>3
<1>8. CASE HostGone
  <2>1. /\ ~Up' /\ Hollow' /\ ((app = "none") <=> (app' = "none")) /\ waiter' = "none" /\ kin' = FALSE /\ inbox' = <<>>
        /\ \A s \in Stream : pipe'[s] = <<>> /\ carry'[s] = <<>> /\ reader'[s] = "none"
    BY <1>4, <1>8, HostGoneTyped DEF HostGone, Killed
  <2>2. AddsUp(before)'
    <3>1. ~Numbering' BY <2>1 DEF Numbering
    <3> QED BY <3>1, <2>1, <1>3, <1>5, Stays
  <2>3. StartsOnce'
    <3>1. \A i \in 1..Len(inbox') : i + 0 \in 1..Len(inbox) /\ inbox'[i] = inbox[i + 0] BY <2>1
    <3> QED BY <3>1, <2>1, <1>4, <1>6, StartsOnceStays
  <2> QED BY <2>2, <2>3, <1>3
<1> QED BY <1>7, <1>8

LEMMA LoopKeeps ==
  ASSUME StreamInv, TakesInitialize \/ TakesWrite \/ WriteEnds \/ TakesShutdown \/ HostDies \/
         (TakesStart /\ Replies("start", FALSE) /\ UNCHANGED <<app, reader, waiter, table, number>>)
  PROVE  NothingLost'
<1>1. StreamTypeOK BY DEF StreamInv
<1>2. UNCHANGED <<written, expected, heard, result, user, broken, queue>>
  BY DEF TakesInitialize, TakesWrite, WriteEnds, TakesShutdown, HostDies, TakesStart, HostGone, progVars, clientVars, userVars
<1>3. UNCHANGED wire \/ (\E l \in Lines : l.kind = "reply" /\ wire' = Append(wire, l))
  <2>1. ASSUME NEW method \in Requests, NEW good \in BOOLEAN, Replies(method, good)
        PROVE  \E l \in Lines : l.kind = "reply" /\ wire' = Append(wire, l)
    BY <1>1, <2>1, Answers
  <2>2. {"initialize", "start", "write", "shutdown"} = Requests BY DEF Requests
  <2>3. CASE TakesInitialize BY <2>1, <2>2, <2>3 DEF TakesInitialize
  <2>4. CASE TakesWrite
    <3>1. table \in BOOLEAN BY <1>1 DEF StreamTypeOK
    <3>2. CASE Replies("write", table) BY <3>1, <3>2, <2>2, <1>1, Answers
    <3> QED BY <2>4, <3>2 DEF TakesWrite
  <2>5. CASE WriteEnds BY <2>1, <2>2, <2>5 DEF WriteEnds
  <2>6. CASE TakesShutdown BY <2>1, <2>2, <2>6 DEF TakesShutdown
  <2>7. CASE HostDies BY <2>7 DEF HostDies
  <2>8. CASE TakesStart /\ Replies("start", FALSE) BY <2>1, <2>2, <2>8
  <2> QED BY <2>3, <2>4, <2>5, <2>6, <2>7, <2>8
<1>4. \/ /\ UNCHANGED <<app, kin, pipe, carry, reader, waiter, number>>
         /\ Up' => Up
         /\ UNCHANGED inbox \/ (\E method : Takes(method))
      \/ HostGone
  <2>1. CASE TakesInitialize BY <2>1 DEF TakesInitialize, progVars, hostVars, Up
  <2>2. CASE TakesWrite
    <3>1. Takes("write") /\ main = "ready" BY <2>2 DEF TakesWrite, Takes
    <3> QED BY <3>1, <2>2 DEF TakesWrite, progVars, Up
  <2>3. CASE WriteEnds BY <2>3 DEF WriteEnds, progVars, Up
  <2>4. CASE TakesShutdown \/ HostDies BY <2>4 DEF TakesShutdown, HostDies
  <2>5. CASE TakesStart /\ UNCHANGED <<app, reader, waiter, table, number>> BY <2>5 DEF TakesStart, Up
  <2> QED BY <2>1, <2>2, <2>3, <2>4, <2>5
<1> QED BY <1>2, <1>3, <1>4, HostKeeps

\* The waiter reports the end, behind everything the readers have sent.
LEMMA EndKeeps ==
  ASSUME StreamInv, Reports \/ WaitFails
  PROVE  NothingLost'
<1>1. /\ Up /\ waiter \in {"polling", "draining"} /\ waiter' = "done"
      /\ UNCHANGED <<app, kin, written, pipe, carry, reader, main, inbox, queue, broken, user, expected, heard, result>>
  BY DEF Reports, WaitFails, progVars, clientVars, userVars
<1>2. (user' \in {"dialing", "starting", "listening"} => result' = "none") BY <1>1 DEF StreamInv, NothingLost
<1> SUFFICES ASSUME Attentive' PROVE StartsOnce' /\ \E before \in Counts : AddsUp(before)'
  BY <1>2 DEF NothingLost
<1>3. Attentive BY <1>1 DEF Attentive
<1>4. PICK before \in Counts : AddsUp(before) BY <1>3 DEF StreamInv, NothingLost
<1>5. StartsOnce /\ StreamTypeOK BY <1>3 DEF StreamInv, NothingLost
<1>6. app # "none" BY <1>1, <1>5 DEF StartsOnce
<1>7. Numbering BY <1>1 DEF Numbering
<1>8. StartsOnce'
  <2>1. \A i \in 1..Len(inbox') : i + 0 \in 1..Len(inbox) /\ inbox'[i] = inbox[i + 0] BY <1>1, <1>5, SamePlaces
  <2>2. Up' => Up BY <1>1 DEF Up
  <2> QED BY <1>1, <1>5, <1>6, <2>1, <2>2, StartsOnceStays
<1>9. PICK more \in Seq(Lines) :
        /\ wire' = wire \o more /\ more[Len(more)].kind \in Final /\ Len(more) > 0
        /\ \A i \in 1..Len(more) : /\ more[i].nr = number + i - 1 /\ more[i].kind # "delta"
                                   /\ more[i].kind = "exited" => Drained /\ waiter = "draining"
  BY <1>5, LastWords
<1>10. wire \in Seq(Lines) /\ queue \in Seq(Lines) /\ number \in Nat /\ Len(more) \in Nat BY <1>5 DEF StreamTypeOK
<1>11. Bounded(before)' BY <1>1, <1>4 DEF AddsUp, Bounded
<1>12. (\A s \in Stream : heard[s] = SubSeq(written[s], 1, before[s][expected]))' BY <1>1, <1>4 DEF AddsUp
<1>13. ASSUME NEW m \in Fresh(queue', wire') PROVE Carries(before, m)'
  <2>1. CASE m \in Fresh(queue, wire)
    <3>1. Carries(before, m) BY <2>1, <1>4 DEF AddsUp
    <3> QED BY <3>1, <1>1 DEF Carries, Hollow
  <2>2. CASE \E i \in 1..Len(more) : m = more[i] /\ more[i].kind # "reply"
    <3>1. PICK i \in 1..Len(more) : m = more[i] BY <2>2
    <3> DEFINE k == number + i - 1
    <3>2. m.nr = k /\ m.kind # "delta" /\ (m.kind = "exited" => Drained) BY <3>1, <1>9
    <3>3. k \in Nat /\ k >= number /\ k + 1 \in Nat /\ k + 1 >= number BY <1>10
    <3> HIDE DEF k
    <3>4. ASSUME NEW s \in Stream
          PROVE  /\ before[s][k] <= before[s][k + 1] /\ before[s][k + 1] = before[s][k]
                 /\ m.kind = "exited" => Hollow /\ before[s][k] = Len(written[s])
      <4>1. ReaderFits(before, s) BY <1>4, <1>7 DEF AddsUp
      <4>2. before[s][k] = before[s][number] /\ before[s][k + 1] = before[s][number] BY <4>1, <3>3 DEF ReaderFits
      <4>3. before[s][k] \in Nat BY <3>3 DEF Counts
      <4>4. m.kind = "exited" => Hollow /\ before[s][number] = Len(written[s])
        BY <4>1, <3>2 DEF ReaderFits, Drained
      <4> QED BY <4>2, <4>3, <4>4
    <3>5. Hollow => Hollow' BY <1>1 DEF Hollow
    <3> QED BY <3>2, <3>4, <3>5, <1>1 DEF Carries
  <2> QED BY <2>1, <2>2, <1>1, <1>9, <1>10, FreshSends
<1>14. ~Numbering' BY <1>1 DEF Numbering
<1>15. EndUnderway(queue', wire')
  <2>1. Len(more) \in 1..Len(more) BY <1>9, <1>10
  <2> QED BY <2>1, <1>1, <1>9, <1>10, FreshSends
<1>16. AddsUp(before)' BY <1>11, <1>12, <1>13, <1>14, <1>15 DEF AddsUp
<1> QED BY <1>4, <1>8, <1>16

\* The start.
LEMMA StartKeeps ==
  ASSUME StreamInv, TakesStart, app' = "running", reader' = [s \in Stream |-> "reading"], waiter' = "polling",
         number' = 1, NEW n \in Lines, n.kind = "started", n.nr = 0, NEW r \in Lines, r.kind = "reply",
         wire' = wire \o <<n, r>>
  PROVE  NothingLost'
<1>1. /\ Takes("start") /\ Up
      /\ UNCHANGED <<kin, written, pipe, carry, main, queue, broken, user, expected, heard, result>>
  BY DEF TakesStart, Takes, Up, clientVars, userVars
<1>2. (user' \in {"dialing", "starting", "listening"} => result' = "none") BY <1>1 DEF StreamInv, NothingLost
<1> SUFFICES ASSUME Attentive' PROVE StartsOnce' /\ \E before \in Counts : AddsUp(before)'
  BY <1>2 DEF NothingLost
<1>3. Attentive BY <1>1 DEF Attentive
<1>4. PICK before \in Counts : AddsUp(before) BY <1>3 DEF StreamInv, NothingLost
<1>5. StartsOnce /\ StreamTypeOK BY <1>3 DEF StreamInv, NothingLost
<1>6. /\ inbox # <<>> /\ inbox[1] = "start" /\ inbox' \in Seq(Requests) /\ Len(inbox) \in Nat /\ Len(inbox) > 0
      /\ Len(inbox') = Len(inbox) - 1 /\ \A i \in 1..Len(inbox') : i + 1 \in 1..Len(inbox) /\ inbox'[i] = inbox[i + 1]
  BY <1>1, <1>5, TakenInbox
<1>7. 1 \in 1..Len(inbox) BY <1>6
<1>8. app = "none" /\ user # "dialing" BY <1>5, <1>6, <1>7 DEF StartsOnce
<1>9. \A i \in 1..Len(inbox') : inbox'[i] # "start"
  <2> SUFFICES ASSUME NEW i \in 1..Len(inbox'), inbox'[i] = "start" PROVE FALSE OBVIOUS
  <2>1. i + 1 \in 1..Len(inbox) /\ inbox[i + 1] = "start" BY <1>6
  <2>2. i + 1 = 1 BY <2>1, <1>5, <1>6, <1>7 DEF StartsOnce
  <2> QED BY <2>2
<1>10. StartsOnce' BY <1>1, <1>8, <1>9 DEF StartsOnce
<1> DEFINE more == <<n, r>>
<1>11. n \in Lines /\ n.kind = "started" /\ r \in Lines /\ r.kind = "reply" /\ n.nr = 0 OBVIOUS
<1>12. wire' = wire \o more OBVIOUS
<1>13. more \in Seq(Lines) /\ Len(more) = 2 /\ more[1] = n /\ more[2] = r BY <1>11
<1> HIDE DEF more
<1>14. wire \in Seq(Lines) /\ queue = <<>> /\ queue \in Seq(Lines) /\ expected = 0
       /\ \A i \in 1..Len(wire) : wire[i].kind = "reply"
  BY <1>5, <1>8 DEF StreamTypeOK, StartsOnce
<1>15. Fresh(queue, wire) = {} BY <1>14 DEF Fresh
<1>16. ASSUME NEW m \in Fresh(queue', wire') PROVE m = n
  <2>3. m \in Fresh(queue, wire \o more) /\ m \notin Fresh(queue, wire) BY <1>1, <1>12, <1>15
  <2>4. wire \in Seq(Lines) /\ queue \in Seq(Lines) /\ more \in Seq(Lines) BY <1>13, <1>14
  <2>5. \A l \in Fresh(queue, wire \o more) : l \notin Fresh(queue, wire) =>
          ~EndUnderway(queue, wire) /\ (\E i \in 1..Len(more) : l = more[i] /\ more[i].kind # "reply")
    BY <2>4, FreshSends
  <2>1. PICK i \in 1..Len(more) : m = more[i] /\ more[i].kind # "reply" BY <2>3, <2>5
  <2>2. i = 1 \/ i = 2 BY <1>13
  <2> QED BY <2>1, <2>2, <1>11, <1>13
<1>17. \A s \in Stream : written'[s] = <<>> /\ pipe'[s] = <<>> /\ carry'[s] = <<>> BY <1>1, <1>5, <1>8 DEF StartsOnce
<1>18. ASSUME NEW s \in Stream, NEW k \in Nat PROVE before[s][k] = 0
  <2>1. before[s][k] <= Len(written[s]) BY <1>4 DEF AddsUp, Bounded
  <2>2. written[s] = <<>> BY <1>1, <1>17
  <2>3. before[s][k] \in Nat BY DEF Counts
  <2> QED BY <2>1, <2>2, <2>3
<1>19. Bounded(before)' BY <1>1, <1>4 DEF AddsUp, Bounded
<1>20. (\A s \in Stream : heard[s] = SubSeq(written[s], 1, before[s][expected]))' BY <1>1, <1>4 DEF AddsUp
<1>21. Carries(before, n)'
  <2>1. \A s \in Stream : before[s][n.nr] = 0 /\ before[s][n.nr + 1] = 0
    <3>1. n.nr \in Nat /\ n.nr + 1 \in Nat BY <1>11
    <3> QED BY <3>1, <1>18
  <2> QED BY <2>1, <1>11 DEF Carries
<1>22. ASSUME NEW s \in Stream PROVE ReaderFits(before, s)'
  <2>1. reader'[s] = "reading" OBVIOUS
  <2>2. \A k \in Nat : k >= number' => before[s][k] = before[s][number']
    <3>1. before[s][number'] = 0 BY <1>18
    <3> QED BY <3>1, <1>18
  <2>3. Encodes(carry'[s] \o pipe'[s], SubSeq(written'[s], before[s][number'] + 1, Len(written'[s])))
    <3>1. carry'[s] \o pipe'[s] = <<>>
      <4>1. <<>> \in Seq(Byte) OBVIOUS
      <4>2. <<>> \o <<>> = <<>> BY <4>1, ConcatEmptySeq
      <4> QED BY <4>2, <1>17
    <3>2. before[s][number'] = 0 BY <1>18
    <3>3. Len(written'[s]) = 0 BY <1>17
    <3>4. SubSeq(written'[s], 0 + 1, 0) = <<>> BY SubSeqEmpty
    <3> QED BY <3>1, <3>2, <3>3, <3>4, EncodesNothing
  <2> QED BY <2>1, <2>2, <2>3 DEF ReaderFits, Unsent
<1>23. expected' <= number' /\ \A m \in Fresh(queue', wire') : m.nr < number'
  <2>1. expected' = 0 /\ number' = 1 BY <1>1, <1>14
  <2>2. expected' <= number' BY <2>1
  <2>3. ASSUME NEW m \in Fresh(queue', wire') PROVE m.nr < number'
    <3>1. m.nr = 0 BY <1>11, <1>16
    <3>2. number' = 1 BY <2>1
    <3>3. 0 < 1 OBVIOUS
    <3> QED BY <3>1, <3>2, <3>3
  <2> QED BY <2>2, <2>3
<1>24. AddsUp(before)' BY <1>16, <1>19, <1>20, <1>21, <1>22, <1>23 DEF AddsUp
<1> QED BY <1>4, <1>10, <1>24

\* The pump and the consumer's own steps.
LEMMA PumpKeeps ==
  ASSUME StreamInv, Pumps
  PROVE  NothingLost'
<1>1. /\ wire # <<>> /\ wire' = Tail(wire)
      /\ UNCHANGED <<app, kin, written, pipe, carry, reader, waiter, main, number, inbox, user, expected, heard, result>>
  BY DEF Pumps, progVars, hostVars
<1>2. (user' \in {"dialing", "starting", "listening"} => result' = "none") BY <1>1 DEF StreamInv, NothingLost
<1> SUFFICES ASSUME Attentive' PROVE StartsOnce' /\ \E before \in Counts : AddsUp(before)'
  BY <1>2 DEF NothingLost
<1>3. Attentive BY <1>1 DEF Attentive, Pumps
<1>4. PICK before \in Counts : AddsUp(before) BY <1>3 DEF StreamInv, NothingLost
<1>5. StartsOnce /\ StreamTypeOK BY <1>3 DEF StreamInv, NothingLost
<1>6. wire \in Seq(Lines) /\ queue \in Seq(Lines) BY <1>5 DEF StreamTypeOK
<1>7. IF Head(wire).kind = "reply" THEN queue' = queue ELSE queue' = Append(queue, Head(wire))
  <2>1. CASE Head(wire).kind = "reply" BY <2>1 DEF Pumps, Resolves, clientVars
  <2>2. CASE Head(wire).kind # "reply"
    <3>1. Enqueue(Head(wire)) BY <2>2 DEF Pumps
    <3>2. ~broken' BY DEF Attentive
    <3> QED BY <3>1, <3>2, <2>2 DEF Enqueue, Breaks
  <2> QED BY <2>1, <2>2
<1>8. Fresh(queue', wire') \subseteq Fresh(queue, wire) /\ (EndUnderway(queue, wire) => EndUnderway(queue', wire'))
  BY <1>1, <1>6, <1>7, FreshMoves
<1>9. AddsUp(before)'
  <2>1. Numbering' => Numbering BY <1>1 DEF Numbering, Up
  <2>2. Hollow => Hollow' BY <1>1 DEF Hollow
  <2> QED BY <2>1, <2>2, <1>1, <1>4, <1>8, Stays
<1>10. StartsOnce'
  <2>1. ASSUME app = "none"
        PROVE  queue' = queue /\ \A i \in 1..Len(wire') : wire'[i].kind = "reply"
    <3>1. \A i \in 1..Len(wire) : wire[i].kind = "reply" BY <2>1, <1>5 DEF StartsOnce
    <3>2. /\ Len(wire) \in Nat /\ Len(wire) > 0 /\ Head(wire) = wire[1] /\ Len(wire') = Len(wire) - 1
          /\ \A i \in 1..(Len(wire) - 1) : wire'[i] = wire[i + 1]
      BY <1>1, <1>6
    <3>3. Head(wire).kind = "reply" BY <3>1, <3>2
    <3>4. \A i \in 1..Len(wire') : i + 1 \in 1..Len(wire) /\ wire'[i] = wire[i + 1] BY <3>2
    <3> QED BY <3>1, <3>3, <3>4, <1>7
  <2>2. Up' => Up BY <1>1 DEF Up
  <2>3. CASE app = "none"
    <3>1. \A i \in 1..Len(inbox') : i + 0 \in 1..Len(inbox) /\ inbox'[i] = inbox[i + 0] BY <1>1, <1>5, SamePlaces
    <3>2. \A s \in Stream : pipe'[s] = <<>> /\ carry'[s] = <<>> /\ reader'[s] = "none" BY <1>1, <1>5, <2>3 DEF StartsOnce
    <3>3. waiter' = "none" /\ ~kin' BY <1>1, <1>5, <2>3 DEF StartsOnce
    <3> QED BY <1>1, <1>5, <2>1, <2>2, <2>3, <3>1, <3>2, <3>3, StartsOnceStays
  <2>4. CASE app # "none" BY <2>4, <1>1, <1>5 DEF StartsOnce, Up
  <2> QED BY <2>3, <2>4
<1> QED BY <1>4, <1>9, <1>10

LEMMA TalkKeeps ==
  ASSUME StreamInv, EndOfFile \/ Connects \/ GivesUp \/ AsksWrite \/ Closes
  PROVE  NothingLost'
<1>1. StreamTypeOK BY DEF StreamInv
<1>2. CASE user' = "leaving" \/ user' = "gone" BY <1>2 DEF NothingLost, Attentive
<1>3. CASE broken' /\ UNCHANGED <<user, result>> BY <1>3 DEF NothingLost, Attentive, StreamInv
<1>4. CASE /\ UNCHANGED <<app, kin, written, pipe, carry, reader, waiter, main, number, queue, wire, broken, expected, heard, result>>
           /\ \/ user = "dialing" /\ user' = "starting" /\ inbox' = Append(inbox, "start")
              \/ user = "starting" /\ user' = "listening" /\ UNCHANGED inbox
              \/ user = "listening" /\ UNCHANGED user /\ inbox' = Append(inbox, "write")
  <2>1. (user' \in {"dialing", "starting", "listening"} => result' = "none") BY <1>4 DEF StreamInv, NothingLost
  <2> SUFFICES ASSUME Attentive' PROVE StartsOnce' /\ \E before \in Counts : AddsUp(before)'
    BY <2>1 DEF NothingLost
  <2>2. Attentive BY <1>4 DEF Attentive
  <2>3. PICK before \in Counts : AddsUp(before) BY <2>2 DEF StreamInv, NothingLost
  <2>4. StartsOnce BY <2>2 DEF StreamInv, NothingLost
  <2>5. AddsUp(before)'
    <3>1. Fresh(queue', wire') \subseteq Fresh(queue, wire) /\ (EndUnderway(queue, wire) => EndUnderway(queue', wire')) BY <1>4
    <3>2. (Numbering' => Numbering) /\ (Hollow => Hollow') BY <1>4 DEF Numbering, Up, Hollow
    <3> QED BY <3>1, <3>2, <1>4, <2>3, Stays
  <2>6. inbox \in Seq(Requests) /\ Len(inbox) \in Nat BY <1>1 DEF StreamTypeOK
  <2>7. user' # "dialing" BY <1>4
  <2>8. (app # "none" => (Up' => waiter' # "none")) /\ (app = "none" => waiter' = "none" /\ ~kin' /\ expected' = 0 /\ queue' = <<>>)
    BY <1>4, <2>4 DEF StartsOnce, Up
  <2>9. app = "none" =>
          /\ \A i \in 1..Len(wire') : wire'[i].kind = "reply"
          /\ \A s \in Stream : written'[s] = <<>> /\ pipe'[s] = <<>> /\ carry'[s] = <<>> /\ reader'[s] = "none"
    BY <1>4, <2>4 DEF StartsOnce
  <2>13. ASSUME \A i, j \in 1..Len(inbox') : inbox'[i] = "start" /\ inbox'[j] = "start" => i = j,
                app' # "none" => \A i \in 1..Len(inbox') : inbox'[i] # "start"
         PROVE  StartsOnce'
    <3>1. app' # "none" => (Up' => waiter' # "none") /\ \A i \in 1..Len(inbox') : inbox'[i] # "start"
      <4>1. app' = app BY <1>4
      <4> QED BY <4>1, <2>8, <2>13
    <3>2. app' = "none" =>
            /\ waiter' = "none" /\ ~kin' /\ expected' = 0 /\ queue' = <<>>
            /\ \A i \in 1..Len(wire') : wire'[i].kind = "reply"
            /\ \A s \in Stream : written'[s] = <<>> /\ pipe'[s] = <<>> /\ carry'[s] = <<>> /\ reader'[s] = "none"
      <4>1. app' = app BY <1>4
      <4> QED BY <4>1, <2>8, <2>9
    <3> QED BY <3>1, <3>2, <2>7, <2>13 DEF StartsOnce
  <2>10. CASE user = "dialing" /\ inbox' = Append(inbox, "start")
    <3>1. app' = "none" /\ \A i \in 1..Len(inbox) : inbox[i] # "start" BY <2>10, <1>4, <2>4 DEF StartsOnce
    <3>2. Len(inbox') = Len(inbox) + 1 /\ \A i \in 1..Len(inbox) : inbox'[i] = inbox[i] BY <2>6, <2>10
    <3>3. \A i \in 1..Len(inbox') : inbox'[i] = "start" => i = Len(inbox) + 1
      <4>1. \A i \in 1..Len(inbox') : i \in 1..Len(inbox) \/ i = Len(inbox) + 1 BY <2>6, <3>2
      <4> QED BY <4>1, <3>1, <3>2
    <3>4. \A i, j \in 1..Len(inbox') : inbox'[i] = "start" /\ inbox'[j] = "start" => i = j BY <3>3
    <3> QED BY <3>1, <3>4, <2>13, <2>3, <2>5
  <2>11. CASE UNCHANGED inbox
    <3>1. \A i, j \in 1..Len(inbox) : inbox[i] = "start" /\ inbox[j] = "start" => i = j BY <2>4 DEF StartsOnce
    <3>2. app # "none" => \A i \in 1..Len(inbox) : inbox[i] # "start" BY <2>4 DEF StartsOnce
    <3>3. app' = app BY <1>4
    <3> QED BY <3>1, <3>2, <3>3, <2>11, <2>13, <2>3, <2>5
  <2>12. CASE inbox' = Append(inbox, "write")
    <3>1. /\ Len(inbox') = Len(inbox) + 1 /\ inbox'[Len(inbox) + 1] = "write"
          /\ \A i \in 1..Len(inbox) : inbox'[i] = inbox[i]
      BY <2>6, <2>12
    <3>2. \A i \in 1..Len(inbox') : inbox'[i] = "start" => i \in 1..Len(inbox) /\ inbox[i] = "start"
      <4>1. \A i \in 1..Len(inbox') : i \in 1..Len(inbox) \/ i = Len(inbox) + 1 BY <2>6, <3>1
      <4> QED BY <4>1, <3>1
    <3>3. \A i, j \in 1..Len(inbox') : inbox'[i] = "start" /\ inbox'[j] = "start" => i = j BY <3>2, <2>4 DEF StartsOnce
    <3>4. app # "none" => \A i \in 1..Len(inbox') : inbox'[i] # "start" BY <3>2, <2>4 DEF StartsOnce
    <3>5. app' = app BY <1>4
    <3> QED BY <3>3, <3>4, <3>5, <2>13, <2>3, <2>5
  <2> QED BY <2>3, <2>5, <2>10, <2>11, <2>12, <1>4
<1>5. CASE EndOfFile BY <1>3, <1>5 DEF EndOfFile, Breaks
<1>6. CASE Connects
  <2>1. CASE \E how : HangUp(how) BY <2>1, <1>2 DEF HangUp
  <2>2. CASE /\ waitsFor = "yes" /\ ~broken /\ UNCHANGED result
             /\ IF user = "dialing"
                THEN user' = "starting" /\ waitsFor' = "start" /\ inbox' = Append(inbox, "start")
                ELSE user' = "listening" /\ waitsFor' = "none" /\ UNCHANGED inbox
    <3>1. user \in {"dialing", "starting"}
          /\ UNCHANGED <<app, kin, written, pipe, carry, reader, waiter, main, number, queue, wire, broken, expected, heard>>
      BY <1>6 DEF Connects, progVars, hostVars, clientVars
    <3> QED BY <3>1, <2>2, <1>4
  <2> QED BY <2>1, <2>2, <1>6 DEF Connects
<1>7. CASE GivesUp BY <1>2, <1>7 DEF GivesUp, HangUp
<1>8. CASE AsksWrite BY <1>4, <1>8 DEF AsksWrite, progVars, hostVars, clientVars
<1>9. CASE Closes BY <1>2, <1>9 DEF Closes
<1> QED BY <1>5, <1>6, <1>7, <1>8, <1>9

-----------------------------------------------------------------------------
(* Nothing is lost: steps that carry characters. *)

LEMMA SubOfRest ==
  ASSUME NEW S, NEW seq \in Seq(S), NEW k \in 0..Len(seq), NEW q \in 0..(Len(seq) - k)
  PROVE  LET rest == SubSeq(seq, k + 1, Len(seq)) IN
         /\ rest \in Seq(S) /\ Len(rest) = Len(seq) - k
         /\ SubSeq(rest, 1, q) = SubSeq(seq, k + 1, k + q)
         /\ SubSeq(rest, q + 1, Len(rest)) = SubSeq(seq, (k + q) + 1, Len(seq))
<1> DEFINE n == Len(seq)
           rest == SubSeq(seq, k + 1, n)
<1>1. n \in Nat /\ k \in 0..n /\ q \in 0..(n - k) /\ k + q \in 0..n OBVIOUS
<1>2. rest \in Seq(S) /\ Len(rest) = n - k /\ \A i \in 1..(n - k) : rest[i] = seq[k + i] BY <1>1, Parts
<1>3. n = Len(seq) OBVIOUS
<1> HIDE DEF rest, n
<1>4. SubSeq(rest, 1, q) = SubSeq(seq, k + 1, k + q)
  <2> DEFINE a == SubSeq(rest, 1, q)
             b == SubSeq(seq, k + 1, k + q)
  <2>1. a \in Seq(S) /\ Len(a) = q /\ \A i \in 1..q : a[i] = rest[i]
    <3>1. rest \in Seq(S) /\ q \in 0..Len(rest) BY <1>1, <1>2
    <3> QED BY <3>1, Parts
  <2>2. \A i \in (k + 1)..(k + q) : seq[i] \in S BY <1>1, <1>3
  <2>3. b \in Seq(S) /\ Len(b) = q /\ \A i \in 1..q : b[i] = seq[k + i]
    <3>1. k + 1 \in Int /\ k + q \in Int BY <1>1
    <3>2. /\ b \in Seq(S) /\ Len(b) = IF k + 1 <= k + q THEN (k + q) - (k + 1) + 1 ELSE 0
          /\ \A i \in 1..((k + q) - (k + 1) + 1) : b[i] = seq[(k + 1) + i - 1]
      BY <2>2, <3>1, SubSeqProperties
    <3>3. (k + q) - (k + 1) + 1 = q /\ (k + 1 <= k + q <=> q > 0) /\ q \in Nat BY <1>1
    <3>4. \A i \in 1..q : (k + 1) + i - 1 = k + i BY <1>1
    <3> HIDE DEF b
    <3> QED BY <3>2, <3>3, <3>4
  <2>4. \A i \in 1..q : a[i] = b[i]
    <3>1. \A i \in 1..q : i \in 1..(n - k) BY <1>1
    <3> HIDE DEF a, b
    <3> QED BY <3>1, <2>1, <2>3, <1>2
  <2> HIDE DEF a, b
  <2>5. a = b BY <2>1, <2>3, <2>4, SeqEqual
  <2> QED BY <2>5 DEF a, b
<1>5. SubSeq(rest, q + 1, Len(rest)) = SubSeq(seq, (k + q) + 1, n)
  <2> DEFINE a == SubSeq(rest, q + 1, Len(rest))
             b == SubSeq(seq, (k + q) + 1, n)
  <2>1. a \in Seq(S) /\ Len(a) = (n - k) - q /\ \A i \in 1..((n - k) - q) : a[i] = rest[q + i] BY <1>1, <1>2, Parts
  <2>2. b \in Seq(S) /\ Len(b) = n - (k + q) /\ \A i \in 1..(n - (k + q)) : b[i] = seq[(k + q) + i] BY <1>1, <1>3, Parts
  <2>3. (n - k) - q = n - (k + q) BY <1>1
  <2>4. ASSUME NEW i \in 1..(n - (k + q)) PROVE a[i] = b[i]
    <3>1. q + i \in 1..(n - k) /\ (k + q) + i = k + (q + i) BY <1>1
    <3>2. a[i] = rest[q + i] /\ b[i] = seq[(k + q) + i] BY <2>1, <2>2, <2>3
    <3> HIDE DEF a, b
    <3> QED BY <3>1, <3>2, <1>2
  <2> HIDE DEF a, b
  <2>5. a = b BY <2>1, <2>2, <2>3, <2>4, SeqEqual
  <2> QED BY <2>5 DEF a, b
<1> QED BY <1>2, <1>3, <1>4, <1>5 DEF rest

\* What is appended comes after what is there.
LEMMA SubOfAppend ==
  ASSUME NEW S, NEW seq \in Seq(S), NEW c \in S, NEW k \in 0..Len(seq), NEW a \in Nat
  PROVE  /\ SubSeq(Append(seq, c), a + 1, k) = SubSeq(seq, a + 1, k)
         /\ SubSeq(Append(seq, c), k + 1, Len(seq) + 1) = Append(SubSeq(seq, k + 1, Len(seq)), c)
<1> DEFINE n == Len(seq)
           more == Append(seq, c)
<1>1. n \in Nat /\ k \in 0..n OBVIOUS
<1>2. more \in Seq(S) /\ Len(more) = n + 1 /\ more[n + 1] = c /\ \A i \in 1..n : more[i] = seq[i] /\ seq[i] \in S
  OBVIOUS
<1>3. n = Len(seq) OBVIOUS
<1> HIDE DEF n, more
<1>4. SubSeq(more, a + 1, k) = SubSeq(seq, a + 1, k)
  <2>1. CASE k < a + 1
    <3>1. a + 1 \in Int /\ k \in Int BY <1>1
    <3> QED BY <3>1, <2>1, SubSeqEmpty
  <2>2. CASE a + 1 <= k
    <3> DEFINE x == SubSeq(more, a + 1, k)
               y == SubSeq(seq, a + 1, k)
    <3>1. a + 1 \in Int /\ k \in Int /\ \A i \in (a + 1)..k : i \in 1..n BY <1>1
    <3>2. (\A i \in (a + 1)..k : seq[i] \in S) /\ (\A i \in (a + 1)..k : more[i] \in S) BY <3>1, <1>2
    <3>3. /\ x \in Seq(S) /\ Len(x) = (IF a + 1 <= k THEN k - (a + 1) + 1 ELSE 0)
          /\ \A i \in 1..(k - (a + 1) + 1) : x[i] = more[(a + 1) + i - 1]
      BY <3>1, <3>2, SubSeqProperties
    <3>4. /\ y \in Seq(S) /\ Len(y) = (IF a + 1 <= k THEN k - (a + 1) + 1 ELSE 0)
          /\ \A i \in 1..(k - (a + 1) + 1) : y[i] = seq[(a + 1) + i - 1]
      BY <3>1, <3>2, SubSeqProperties
    <3>5. \A i \in 1..(k - (a + 1) + 1) : (a + 1) + i - 1 \in 1..n BY <1>1, <2>2
    <3> HIDE DEF x, y
    <3>6. \A i \in 1..(k - (a + 1) + 1) : x[i] = y[i] BY <3>3, <3>4, <3>5, <1>2
    <3>7. Len(x) = k - (a + 1) + 1 /\ Len(y) = k - (a + 1) + 1 BY <3>3, <3>4, <2>2
    <3>8. x = y BY <3>3, <3>4, <3>6, <3>7, SeqEqual
    <3> QED BY <3>8 DEF x, y
  <2> QED BY <2>1, <2>2, <1>1
<1>5. SubSeq(more, k + 1, n + 1) = Append(SubSeq(seq, k + 1, n), c)
  <2> DEFINE x == SubSeq(more, k + 1, n + 1)
             z == SubSeq(seq, k + 1, n)
             y == Append(z, c)
  <2>1. k \in 0..Len(more) BY <1>1, <1>2
  <2>2. x \in Seq(S) /\ Len(x) = (n + 1) - k /\ \A i \in 1..((n + 1) - k) : x[i] = more[k + i]
    <3>1. more \in Seq(S) /\ Len(more) = n + 1 BY <1>2
    <3> DEFINE u == SubSeq(more, k + 1, Len(more))
    <3>2. u \in Seq(S) /\ Len(u) = Len(more) - k /\ \A i \in 1..(Len(more) - k) : u[i] = more[k + i]
      BY <2>1, <3>1, Parts
    <3>3. u = x BY <3>1
    <3> HIDE DEF u, x
    <3> QED BY <3>1, <3>2, <3>3
  <2>3. z \in Seq(S) /\ Len(z) = n - k /\ \A i \in 1..(n - k) : z[i] = seq[k + i] BY <1>1, <1>3, Parts
  <2> HIDE DEF x, z
  <2>4. y \in Seq(S) /\ Len(y) = (n - k) + 1 /\ y[(n - k) + 1] = c /\ \A i \in 1..(n - k) : y[i] = z[i] BY <2>3
  <2> HIDE DEF y
  <2>5. ASSUME NEW i \in 1..((n + 1) - k) PROVE x[i] = y[i]
    <3>1. i \in 1..(n - k) \/ i = (n - k) + 1 BY <1>1
    <3>2. CASE i \in 1..(n - k)
      <4>1. k + i \in 1..n BY <3>2, <1>1
      <4> QED BY <4>1, <3>2, <2>2, <2>3, <2>4, <1>2
    <3>3. CASE i = (n - k) + 1
      <4>1. k + i = n + 1 BY <3>3, <1>1
      <4> QED BY <4>1, <3>3, <2>2, <2>4, <1>2
    <3> QED BY <3>1, <3>2, <3>3
  <2>6. (n + 1) - k = (n - k) + 1 BY <1>1
  <2>7. x = y BY <2>2, <2>4, <2>5, <2>6, SeqEqual
  <2> QED BY <2>7 DEF x, y, z
<1> QED BY <1>3, <1>4, <1>5 DEF more

LEMMA PrintKeeps ==
  ASSUME StreamInv, NEW s \in Stream, NEW c \in Char, Prints(s, c)
  PROVE  NothingLost'
<1> DEFINE w == written[s]
           k == Len(w)
<1>1. /\ ~Hollow /\ written' = [written EXCEPT ![s] = Append(w, c)] /\ pipe' = [pipe EXCEPT ![s] = @ \o BytesOf(c)]
      /\ UNCHANGED <<app, kin, carry, reader, waiter, main, number, inbox, wire, queue, broken, user, expected, heard, result>>
  BY DEF Prints, hostVars, clientVars, userVars
<1>2. (user' \in {"dialing", "starting", "listening"} => result' = "none") BY <1>1 DEF StreamInv, NothingLost
<1> SUFFICES ASSUME Attentive' PROVE StartsOnce' /\ \E before \in Counts : AddsUp(before)'
  BY <1>2 DEF NothingLost
<1>3. Attentive BY <1>1 DEF Attentive
<1>4. PICK before \in Counts : AddsUp(before) BY <1>3 DEF StreamInv, NothingLost
<1>5. StartsOnce /\ StreamTypeOK BY <1>3 DEF StreamInv, NothingLost
<1>6. app # "none" BY <1>1, <1>5 DEF StartsOnce, Hollow
<1>7. StartsOnce' BY <1>1, <1>5, <1>6 DEF StartsOnce, Up
<1>8. w \in Seq(Char) /\ k \in Nat BY <1>5 DEF StreamTypeOK
<1>9. ~Hollow' BY <1>1 DEF Hollow
<1>10. /\ \A t \in Stream : t # s => written'[t] = written[t] /\ pipe'[t] = pipe[t]
       /\ written'[s] = Append(w, c) /\ Len(written'[s]) = k + 1 /\ pipe'[s] = pipe[s] \o BytesOf(c)
  <2>1. written \in [Stream -> Seq(Char)] /\ pipe \in [Stream -> Seq(Byte)] BY <1>5 DEF StreamTypeOK
  <2>2. written'[s] = Append(w, c) /\ pipe'[s] = pipe[s] \o BytesOf(c) BY <2>1, <1>1
  <2>3. Len(Append(w, c)) = k + 1 BY <1>8
  <2> QED BY <2>1, <2>2, <2>3, <1>1
<1> HIDE DEF w, k
<1>11. ASSUME NEW t \in Stream, NEW n \in Nat PROVE before[t][n] \in Nat /\ before[t][n] <= Len(written[t])
  BY <1>4 DEF AddsUp, Bounded, Counts
<1>12. ASSUME NEW t \in Stream, NEW a \in Nat, NEW n \in Nat
       PROVE  SubSeq(written'[t], a + 1, before[t][n]) = SubSeq(written[t], a + 1, before[t][n])
  <2>1. CASE t # s BY <2>1, <1>10
  <2>2. CASE t = s
    <3> DEFINE b == before[s][n]
    <3>1. b \in 0..Len(w) BY <1>8, <1>11 DEF w, k
    <3> HIDE DEF b
    <3>2. SubSeq(Append(w, c), a + 1, b) = SubSeq(w, a + 1, b) BY <3>1, <1>8, SubOfAppend
    <3>3. SubSeq(written'[s], a + 1, b) = SubSeq(written[s], a + 1, b) BY <3>2, <1>10 DEF w
    <3>4. SubSeq(written'[t], a + 1, b) = SubSeq(written[t], a + 1, b) BY <3>3, <2>2
    <3> QED BY <3>4, <2>2 DEF b
  <2> QED BY <2>1, <2>2
<1>13. Bounded(before)'
  <2>1. ASSUME NEW t \in Stream, NEW n \in Nat PROVE before[t][n] <= Len(written'[t])
    <3>1. before[t][n] \in Nat /\ before[t][n] <= Len(written[t]) BY <1>11
    <3>2. CASE t # s BY <3>1, <3>2, <1>10
    <3>3. CASE t = s BY <3>1, <3>3, <1>8, <1>10 DEF w, k
    <3> QED BY <3>2, <3>3
  <2> QED BY <2>1 DEF Bounded
<1>14. expected \in Nat /\ number \in Nat /\ queue \in Seq(Lines) /\ wire \in Seq(Lines) BY <1>5 DEF StreamTypeOK
<1>15. ASSUME NEW t \in Stream PROVE heard'[t] = SubSeq(written'[t], 1, before[t][expected'])
  <2>1. heard[t] = SubSeq(written[t], 1, before[t][expected]) BY <1>4 DEF AddsUp
  <2>2. SubSeq(written'[t], 0 + 1, before[t][expected]) = SubSeq(written[t], 0 + 1, before[t][expected]) BY <1>12, <1>14
  <2> DEFINE b == before[t][expected]
  <2>3. 0 + 1 = 1 /\ expected' = expected /\ heard'[t] = heard[t] BY <1>1
  <2>4. SubSeq(written'[t], 1, b) = SubSeq(written[t], 1, b) BY <2>2, <2>3
  <2>5. heard[t] = SubSeq(written[t], 1, b) BY <2>1
  <2> HIDE DEF b
  <2>6. heard'[t] = SubSeq(written'[t], 1, b) BY <2>3, <2>4, <2>5
  <2> QED BY <2>3, <2>6 DEF b
<1>16. ASSUME NEW m \in Fresh(queue, wire) PROVE m \in Lines
  BY <1>14, FreshIn
<1>17. ASSUME NEW m \in Fresh(queue, wire) PROVE Carries(before, m)'
  <2>1. Carries(before, m) BY <1>4 DEF AddsUp
  <2>2. m.nr \in Nat BY <1>16 DEF Lines
  <2>3. ASSUME NEW t \in Stream PROVE m.kind # "exited" BY <2>1, <1>1 DEF Carries
  <2>4. ASSUME m.kind = "delta"
        PROVE  /\ m.stream \in Stream
               /\ m.text = SubSeq(written'[m.stream], before[m.stream][m.nr] + 1, before[m.stream][m.nr + 1])
    <3>1. /\ m.stream \in Stream
          /\ m.text = SubSeq(written[m.stream], before[m.stream][m.nr] + 1, before[m.stream][m.nr + 1])
      BY <2>1, <2>4 DEF Carries
    <3>2. before[m.stream][m.nr] \in Nat /\ m.nr + 1 \in Nat BY <3>1, <2>2, <1>11
    <3>3. SubSeq(written'[m.stream], before[m.stream][m.nr] + 1, before[m.stream][m.nr + 1])
            = SubSeq(written[m.stream], before[m.stream][m.nr] + 1, before[m.stream][m.nr + 1])
      BY <3>1, <3>2, <1>12
    <3> QED BY <3>1, <3>3
  <2> QED BY <2>1, <2>3, <2>4 DEF Carries
<1>18. ASSUME Numbering, NEW t \in Stream PROVE ReaderFits(before, t)'
  <2>1. ReaderFits(before, t) BY <1>4, <1>18 DEF AddsUp
  <2>2. reader[t] = "reading" BY <2>1, <1>1 DEF ReaderFits
  <2>3. CASE t # s BY <2>1, <2>2, <2>3, <1>1, <1>10 DEF ReaderFits, Unsent
  <2>4. CASE t = s
    <3> DEFINE b == before[s][number]
               left == carry[s] \o pipe[s]
               rest == SubSeq(w, b + 1, k)
    <3>1. b \in 0..k /\ w \in Seq(Char) /\ k = Len(w) BY <1>8, <1>11, <1>14 DEF w, k
    <3>2. SubSeq(Append(w, c), b + 1, k + 1) = Append(rest, c)
      <4> HIDE DEF b
      <4> QED BY <3>1, SubOfAppend
    <3>3. carry[s] \in Seq(Byte) /\ pipe[s] \in Seq(Byte) /\ BytesOf(c) \in Seq(Byte)
      <4>1. CASE c = "n" BY <4>1, <1>5 DEF BytesOf, Byte, StreamTypeOK
      <4>2. CASE c # "n" BY <4>2, <1>5 DEF BytesOf, Byte, StreamTypeOK
      <4> QED BY <4>1, <4>2
    <3>4. carry'[s] \o pipe'[s] = left \o BytesOf(c)
      <4> DEFINE x == carry[s]
                 y == pipe[s]
                 z == BytesOf(c)
      <4>1. x \in Seq(Byte) /\ y \in Seq(Byte) /\ z \in Seq(Byte) BY <3>3
      <4>2. carry'[s] = x /\ pipe'[s] = y \o z BY <1>1, <1>10
      <4> HIDE DEF x, y, z
      <4>3. x \o (y \o z) = (x \o y) \o z BY <4>1, ConcatAssociative
      <4>4. carry'[s] \o pipe'[s] = (x \o y) \o z BY <4>2, <4>3
      <4> QED BY <4>4 DEF x, y, z
    <3>5. left \in Seq(Byte) BY <3>3
    <3>6. rest \in Seq(Char)
      <4> HIDE DEF b
      <4> QED BY <3>1, Parts
    <3>7. Encodes(left, rest) BY <2>1, <2>2, <2>4 DEF ReaderFits, Unsent, w, k
    <3> HIDE DEF left, rest
    <3>8. Encodes(left \o BytesOf(c), Append(rest, c)) BY <3>5, <3>6, <3>7, EncodesMore
    <3>9. Unsent(before, s)' = Append(rest, c)
      <4>1. Unsent(before, s)' = SubSeq(written'[s], before[s][number] + 1, Len(written'[s])) BY <1>1 DEF Unsent
      <4> QED BY <4>1, <3>2, <1>10
    <3>10. (carry[s] \o pipe[s])' = left \o BytesOf(c) BY <3>4
    <3>11. (\A n \in Nat : n >= number => before[s][n] = before[s][number]) BY <2>1, <2>4 DEF ReaderFits
    <3>12. Encodes(carry'[s] \o pipe'[s], Unsent(before, s)') BY <3>4, <3>8, <3>9
    <3> QED BY <3>11, <3>12, <2>2, <2>4, <1>1 DEF ReaderFits
  <2> QED BY <2>3, <2>4
<1>19. Numbering' <=> Numbering BY <1>1 DEF Numbering, Up
<1>20. AddsUp(before)' BY <1>1, <1>4, <1>13, <1>15, <1>17, <1>18, <1>19 DEF AddsUp
<1> QED BY <1>4, <1>7, <1>20

\* A reader takes bytes, and sends what they complete as the next event.
LEMMA ReaderStep ==
  ASSUME StreamTypeOK, NEW before \in Counts, AddsUp(before), Numbering, NEW s \in Stream, reader[s] = "reading",
         UNCHANGED <<app, kin, written, waiter, main, queue, expected, heard>>,
         \A t \in Stream : t # s => pipe'[t] = pipe[t] /\ carry'[t] = carry[t] /\ reader'[t] = reader[t],
         NEW q \in 0..Len(Unsent(before, s)),
         number' = number + 1 \/ (number' = number /\ q = 0),
         \A m \in Fresh(queue', wire') :
           \/ m \in Fresh(queue, wire)
           \/ /\ number' = number + 1 /\ m.kind = "delta" /\ m.stream = s /\ m.nr = number
              /\ m.text = SubSeq(Unsent(before, s), 1, q),
         reader'[s] \in {"reading", "done"},
         reader'[s] = "reading" =>
           Encodes(carry'[s] \o pipe'[s], SubSeq(Unsent(before, s), q + 1, Len(Unsent(before, s)))),
         reader'[s] = "done" => Hollow /\ q = Len(Unsent(before, s))
  PROVE  \E counts \in Counts : AddsUp(counts)'
<1> DEFINE w == written[s]
           k == before[s][number]
           rem == Unsent(before, s)
<1>1. number \in Nat /\ expected \in Nat /\ w \in Seq(Char) /\ queue \in Seq(Lines) /\ wire \in Seq(Lines) BY DEF StreamTypeOK
<1>2. ASSUME NEW t \in Stream, NEW n \in Nat PROVE before[t][n] \in Nat /\ before[t][n] <= Len(written[t])
  BY DEF AddsUp, Bounded, Counts
<1>3. k \in 0..Len(w) /\ Len(w) \in Nat BY <1>1, <1>2
<1>4. rem = SubSeq(w, k + 1, Len(w)) BY DEF Unsent
<1>5. number' \in Nat /\ (number' = number \/ number' = number + 1) BY <1>1
<1> HIDE DEF w, k, rem
<1>6. Len(rem) = Len(w) - k
  <2> HIDE DEF w, k, rem
  <2> QED BY <1>1, <1>3, <1>4, Parts
<1>7. q \in 0..(Len(w) - k) /\ q \in Nat /\ k \in Nat BY <1>3, <1>6 DEF rem
<1>8. SubSeq(rem, 1, q) = SubSeq(w, k + 1, k + q) /\ SubSeq(rem, q + 1, Len(rem)) = SubSeq(w, (k + q) + 1, Len(w))
  BY <1>1, <1>3, <1>4, <1>7, SubOfRest
<1>10. PICK after \in Counts : \A t \in Stream, n \in Nat :
         after[t][n] = IF t = s /\ n > number THEN k + q ELSE before[t][n]
  <2> DEFINE f == [t \in Stream |-> [n \in Nat |-> IF t = s /\ n > number THEN k + q ELSE before[t][n]]]
  <2>1. ASSUME NEW t \in Stream, NEW n \in Nat
        PROVE  (IF t = s /\ n > number THEN k + q ELSE before[t][n]) \in Nat
    BY <1>2, <1>7
  <2>2. f \in Counts BY <2>1 DEF Counts
  <2>3. \A t \in Stream, n \in Nat : f[t][n] = IF t = s /\ n > number THEN k + q ELSE before[t][n] OBVIOUS
  <2> HIDE DEF f
  <2> QED BY <2>2, <2>3
<1>9. ASSUME NEW t \in Stream, NEW n \in Nat
      PROVE  after[t][n] = IF t = s /\ n > number THEN k + q ELSE before[t][n]
  BY <1>10
<1>11. ASSUME NEW t \in Stream, NEW n \in Nat, n <= number PROVE after[t][n] = before[t][n]
  BY <1>1, <1>9, <1>11
<1>12. ASSUME NEW t \in Stream PROVE ReaderFits(before, t) /\ expected <= number /\ \A m \in Fresh(queue, wire) : m.nr < number
  BY DEF AddsUp
<1>13. ASSUME NEW t \in Stream, t # s, NEW n \in Nat PROVE after[t][n] = before[t][n]
  BY <1>9, <1>13
<1>14. ASSUME NEW n \in Nat, n >= number'
       PROVE  after[s][n] = k + q
  <2>1. CASE n > number BY <2>1, <1>9
  <2>2. CASE n = number
    <3>1. number' = number /\ q = 0 BY <2>2, <1>1, <1>5, <1>14
    <3>2. after[s][n] = before[s][n] BY <2>2, <1>1, <1>11
    <3>3. before[s][n] = k BY <2>2 DEF k
    <3> QED BY <3>1, <3>2, <3>3, <1>7
  <2>3. n > number \/ n = number BY <1>1, <1>5, <1>14
  <2> QED BY <2>1, <2>2, <2>3
<1>15. Bounded(after)'
  <2>1. ASSUME NEW t \in Stream, NEW n \in Nat PROVE after[t][n] <= Len(written[t])
    <3>1. CASE t = s /\ n > number
      <4>1. after[t][n] = k + q /\ Len(written[t]) = Len(w) BY <3>1, <1>9 DEF w
      <4> QED BY <4>1, <1>3, <1>7
    <3>2. CASE ~(t = s /\ n > number) BY <3>2, <1>2, <1>9
    <3> QED BY <3>1, <3>2
  <2>2. written' = written OBVIOUS
  <2> QED BY <2>1, <2>2 DEF Bounded
<1>16. ASSUME NEW t \in Stream PROVE heard'[t] = SubSeq(written'[t], 1, after[t][expected'])
  <2>1. heard[t] = SubSeq(written[t], 1, before[t][expected]) BY DEF AddsUp
  <2>2. after[t][expected] = before[t][expected] BY <1>1, <1>11, <1>12
  <2> QED BY <2>1, <2>2
<1>17. ASSUME NEW m \in Fresh(queue', wire') PROVE Carries(after, m)' /\ m.nr < number'
  <2>1. CASE m \in Fresh(queue, wire)
    <3>1. Carries(before, m) BY <2>1 DEF AddsUp
    <3>2. m \in Lines BY <2>1, <1>1, FreshIn
    <3>3. m.nr \in Nat /\ m.nr < number BY <2>1, <3>2, <1>12 DEF Lines
    <3>4. m.nr + 1 \in Nat /\ m.nr + 1 <= number /\ m.nr <= number BY <3>3, <1>1
    <3>5. ASSUME NEW t \in Stream PROVE after[t][m.nr] = before[t][m.nr] /\ after[t][m.nr + 1] = before[t][m.nr + 1]
      BY <3>3, <3>4, <1>11
    <3>6. written' = written /\ (Hollow <=> Hollow') BY DEF Hollow
    <3>7. Carries(after, m)'
      <4>1. ASSUME m.kind = "delta"
            PROVE  /\ m.stream \in Stream
                   /\ m.text = SubSeq(written'[m.stream], after[m.stream][m.nr] + 1, after[m.stream][m.nr + 1])
        <5>1. m.stream \in Stream /\ m.text = SubSeq(written[m.stream], before[m.stream][m.nr] + 1, before[m.stream][m.nr + 1])
          BY <4>1, <3>1 DEF Carries
        <5> QED BY <5>1, <3>5, <3>6
      <4>2. ASSUME NEW t \in Stream
            PROVE  /\ after[t][m.nr] <= after[t][m.nr + 1]
                   /\ ~(m.kind = "delta" /\ m.stream = t) => after[t][m.nr + 1] = after[t][m.nr]
                   /\ m.kind = "exited" => Hollow' /\ after[t][m.nr] = Len(written'[t])
        <5>1. /\ before[t][m.nr] <= before[t][m.nr + 1]
              /\ ~(m.kind = "delta" /\ m.stream = t) => before[t][m.nr + 1] = before[t][m.nr]
              /\ m.kind = "exited" => Hollow /\ before[t][m.nr] = Len(written[t])
          BY <3>1 DEF Carries
        <5> QED BY <5>1, <3>5, <3>6
      <4> QED BY <4>1, <4>2 DEF Carries
    <3> QED BY <3>3, <3>7, <1>1, <1>5
  <2>2. CASE /\ number' = number + 1 /\ m.kind = "delta" /\ m.stream = s /\ m.nr = number
             /\ m.text = SubSeq(Unsent(before, s), 1, q)
    <3>1. number + 1 \in Nat /\ number + 1 > number BY <1>1
    <3>2. m.text = SubSeq(w, k + 1, k + q) BY <2>2, <1>8 DEF rem
    <3>3. after[s][number] = k /\ after[s][number + 1] = k + q
      <4>1. after[s][number] = before[s][number] BY <1>1, <1>11
      <4>2. after[s][number + 1] = k + q BY <3>1, <1>9
      <4> QED BY <4>1, <4>2 DEF k
    <3>4. ASSUME NEW t \in Stream, t # s PROVE after[t][number + 1] = after[t][number] /\ after[t][number] \in Nat
      <4>1. before[t][number + 1] = before[t][number] BY <3>1, <1>1, <1>12 DEF ReaderFits
      <4>2. after[t][number + 1] = before[t][number + 1] /\ after[t][number] = before[t][number] BY <3>1, <3>4, <1>1, <1>13
      <4> QED BY <4>1, <4>2, <1>1, <1>2
    <3>5. written' = written OBVIOUS
    <3>6. m.stream \in Stream /\ m.text = SubSeq(written'[m.stream], after[m.stream][m.nr] + 1, after[m.stream][m.nr + 1])
      <4>1. SubSeq(written'[s], after[s][number] + 1, after[s][number + 1]) = SubSeq(w, k + 1, k + q) BY <3>3, <3>5 DEF w
      <4> QED BY <4>1, <3>2, <2>2
    <3>7. ASSUME NEW t \in Stream
          PROVE  /\ after[t][m.nr] <= after[t][m.nr + 1]
                 /\ ~(m.kind = "delta" /\ m.stream = t) => after[t][m.nr + 1] = after[t][m.nr]
      <4>1. CASE t = s
        <5>1. k <= k + q BY <1>7
        <5> QED BY <4>1, <5>1, <3>3, <2>2
      <4>2. CASE t # s
        <5>1. after[t][number] <= after[t][number + 1] BY <4>2, <3>4
        <5> QED BY <4>2, <5>1, <3>4, <2>2
      <4> QED BY <4>1, <4>2
    <3> QED BY <3>1, <3>6, <3>7, <2>2, <1>1 DEF Carries
  <2> QED BY <2>1, <2>2
<1>18. ASSUME NEW t \in Stream PROVE ReaderFits(after, t)'
  <2>1. CASE t # s
    <3>1. \A n \in Nat : after[t][n] = before[t][n] BY <2>1, <1>13
    <3>2. ReaderFits(before, t) BY <1>12
    <3>3. /\ \A n \in Nat : n >= number' => before[t][n] = before[t][number]
          /\ before[t][number'] = before[t][number]
      <4>1. ASSUME NEW n \in Nat, n >= number' PROVE n >= number BY <4>1, <1>1, <1>5
      <4>2. \A n \in Nat : n >= number' => before[t][n] = before[t][number] BY <4>1, <3>2 DEF ReaderFits
      <4> QED BY <4>2, <1>5
    <3>4. Unsent(after, t)' = Unsent(before, t)
      <4>1. Unsent(after, t)' = SubSeq(written'[t], after[t][number'] + 1, Len(written'[t])) BY DEF Unsent
      <4>2. after[t][number'] = before[t][number] /\ written' = written BY <3>1, <3>3, <1>5
      <4> QED BY <4>1, <4>2 DEF Unsent
    <3>5. carry'[t] = carry[t] /\ pipe'[t] = pipe[t] /\ reader'[t] = reader[t] /\ written' = written /\ (Hollow <=> Hollow')
      BY <2>1 DEF Hollow
    <3>6. \A n \in Nat : n >= number' => after[t][n] = after[t][number'] BY <3>1, <3>3, <1>5
    <3>7. reader'[t] \in {"reading", "done"} BY <3>2, <3>5 DEF ReaderFits
    <3>8. reader'[t] = "reading" => Encodes(carry'[t] \o pipe'[t], Unsent(after, t)') BY <3>2, <3>4, <3>5 DEF ReaderFits
    <3>9. reader'[t] = "done" => Hollow' /\ after[t][number'] = Len(written'[t]) BY <3>1, <3>2, <3>3, <3>5, <1>5 DEF ReaderFits
    <3> QED BY <3>6, <3>7, <3>8, <3>9 DEF ReaderFits
  <2>2. CASE t = s
    <3>1. after[s][number'] = k + q BY <1>5, <1>14
    <3>2. \A n \in Nat : n >= number' => after[s][n] = after[s][number'] BY <3>1, <1>14
    <3>3. Unsent(after, s)' = SubSeq(w, (k + q) + 1, Len(w)) BY <3>1 DEF Unsent, w
    <3>4. reader'[s] = "reading" => Encodes(carry'[s] \o pipe'[s], Unsent(after, s)') BY <3>3, <1>8 DEF rem
    <3>5. reader'[s] = "done" => Hollow' /\ after[s][number'] = Len(written'[s])
      <4>1. Hollow <=> Hollow' BY DEF Hollow
      <4>2. q = Len(rem) => k + q = Len(w) BY <1>3, <1>6
      <4> QED BY <4>1, <4>2, <3>1 DEF rem, w
    <3> QED BY <3>2, <3>4, <3>5, <2>2 DEF ReaderFits
  <2> QED BY <2>1, <2>2
<1>19. waiter' # "done" BY DEF Numbering
<1>20. expected' <= number' BY <1>1, <1>5, <1>12
<1>21. AddsUp(after)' BY <1>15, <1>16, <1>17, <1>18, <1>19, <1>20 DEF AddsUp
<1> QED BY <1>10, <1>21

\* The event of a reader is the only new one.
LEMMA DeltaSent ==
  ASSUME StreamTypeOK, NEW s \in Stream, NEW text \in Texts, Notify(<<Delta(s, text)>>), queue' = queue
  PROVE  /\ number' = number + 1
         /\ EndUnderway(queue, wire) => EndUnderway(queue', wire')
         /\ \A m \in Fresh(queue', wire') :
              \/ m \in Fresh(queue, wire)
              \/ /\ ~EndUnderway(queue, wire)
                 /\ m.kind = "delta" /\ m.stream = s /\ m.nr = number /\ m.text = text
<1> DEFINE d == Delta(s, text)
<1>1. d \in Lines /\ d.kind = "delta" /\ d.stream = s /\ d.text = text BY DeltaIs
<1>2. wire \in Seq(Lines) /\ queue \in Seq(Lines) /\ number \in Nat BY DEF StreamTypeOK
<1>3. Notify(<<d>>) OBVIOUS
<1> HIDE DEF d
<1> DEFINE events == <<d>>
<1>4. events \in Seq(Lines) /\ events # <<>> /\ Len(events) = 1 /\ events[1] = d BY <1>1
<1>5. Notify(events) BY <1>3
<1> HIDE DEF events
<1>6. number' = IF events[Len(events)].kind \in Final THEN 0 ELSE number + Len(events) BY <1>2, <1>4, <1>5, NotifyAdds
<1>7. number' = number + 1 BY <1>1, <1>4, <1>6 DEF Final
<1>8. PICK more \in Seq(Lines) :
        /\ wire' = wire \o more /\ Len(more) = Len(events)
        /\ \A i \in 1..Len(events) :
             /\ more[i].kind = events[i].kind /\ more[i].stream = events[i].stream
             /\ more[i].text = events[i].text /\ more[i].nr = number + i - 1
  BY <1>2, <1>4, <1>5, NotifyAdds
<1>9. \A i \in 1..Len(more) : more[i].kind = "delta" /\ more[i].stream = s /\ more[i].nr = number /\ more[i].text = text
  BY <1>1, <1>2, <1>4, <1>8
<1>10. EndUnderway(queue, wire) => EndUnderway(queue', wire') BY <1>2, <1>8, FreshSends
<1>11. ASSUME NEW m \in Fresh(queue', wire'), m \notin Fresh(queue, wire)
       PROVE  /\ ~EndUnderway(queue, wire)
              /\ m.kind = "delta" /\ m.stream = s /\ m.nr = number /\ m.text = text
  <2>1. m \in Fresh(queue, wire \o more) BY <1>11, <1>8
  <2>2. ~EndUnderway(queue, wire) /\ (\E i \in 1..Len(more) : m = more[i]) BY <1>2, <1>11, <2>1, FreshSends
  <2> QED BY <2>2, <1>9
<1> QED BY <1>7, <1>10, <1>11

\* Behind the end of the execution nothing is heard any more.
LEMMA BehindTheEnd ==
  ASSUME StreamTypeOK, NEW before, AddsUp(before), Up, ~Numbering, waiter # "none",
         NEW s \in Stream, NEW text \in Texts,
         Notify(<<Delta(s, text)>>) \/ UNCHANGED wire,
         UNCHANGED <<app, kin, written, waiter, main, queue, expected, heard>>
  PROVE  AddsUp(before)'
<1>1. waiter = "done" BY DEF StreamTypeOK, Numbering
<1>2. EndUnderway(queue, wire) BY <1>1 DEF AddsUp
<1>3. Fresh(queue', wire') \subseteq Fresh(queue, wire) /\ EndUnderway(queue', wire')
  <2>1. CASE Notify(<<Delta(s, text)>>) BY <2>1, <1>2, DeltaSent
  <2>2. CASE UNCHANGED wire BY <2>2, <1>2
  <2> QED BY <2>1, <2>2
<1>4. ~Numbering' BY DEF Numbering, Up
<1>5. Hollow => Hollow' BY DEF Hollow
<1> QED BY <1>1, <1>2, <1>3, <1>4, <1>5, Stays

LEMMA ReadsKeeps ==
  ASSUME StreamInv, NEW s \in Stream, Reads(s)
  PROVE  NothingLost'
<1>1. /\ Up /\ reader[s] = "reading"
      /\ UNCHANGED <<app, kin, written, reader, waiter, main, inbox, queue, broken, user, expected, heard, result>>
  BY DEF Reads, clientVars, userVars
<1>2. (user' \in {"dialing", "starting", "listening"} => result' = "none") BY <1>1 DEF StreamInv, NothingLost
<1> SUFFICES ASSUME Attentive' PROVE StartsOnce' /\ \E before \in Counts : AddsUp(before)'
  BY <1>2 DEF NothingLost
<1>3. Attentive BY <1>1 DEF Attentive
<1>4. PICK before \in Counts : AddsUp(before) BY <1>3 DEF StreamInv, NothingLost
<1>5. StartsOnce /\ StreamTypeOK BY <1>3 DEF StreamInv, NothingLost
<1>6. app # "none" /\ waiter # "none" BY <1>1, <1>5 DEF StartsOnce
<1>7. StartsOnce' BY <1>1, <1>5, <1>6 DEF StartsOnce, Up
<1>8. PICK n \in 1..Len(pipe[s]) :
        LET pending == carry[s] \o SubSeq(pipe[s], 1, n)
            ready == Ready(pending) IN
        /\ pipe' = [pipe EXCEPT ![s] = SubSeq(@, n + 1, Len(@))]
        /\ carry' = [carry EXCEPT ![s] = SubSeq(pending, ready + 1, Len(pending))]
        /\ IF ready > 0 THEN Notify(<<Delta(s, Decoded(SubSeq(pending, 1, ready)))>>)
           ELSE UNCHANGED <<wire, number>>
  BY DEF Reads
<1> DEFINE kept == carry[s]
           left == pipe[s]
           pending == kept \o SubSeq(left, 1, n)
           ready == Ready(pending)
           text == Decoded(SubSeq(pending, 1, ready))
           tail == SubSeq(left, n + 1, Len(left))
           rest == SubSeq(pending, ready + 1, Len(pending))
           w == Unsent(before, s)
<1>9. kept \in Seq(Byte) /\ left \in Seq(Byte) /\ pipe \in [Stream -> Seq(Byte)] /\ carry \in [Stream -> Seq(Byte)]
  BY <1>5 DEF StreamTypeOK
<1>10. /\ \A t \in Stream : t # s => pipe'[t] = pipe[t] /\ carry'[t] = carry[t] /\ reader'[t] = reader[t]
       /\ pipe'[s] = tail /\ carry'[s] = rest
  <2>1. pipe' = [pipe EXCEPT ![s] = tail] BY <1>8
  <2>2. carry' = [carry EXCEPT ![s] = rest] BY <1>8
  <2> HIDE DEF tail, rest
  <2> QED BY <2>1, <2>2, <1>1, <1>9
<1>11. IF ready > 0 THEN Notify(<<Delta(s, text)>>) ELSE UNCHANGED <<wire, number>> BY <1>8
<1>12. pending \in Seq(Byte)
  <2> HIDE DEF kept, left
  <2>1. SubSeq(left, 1, n) \in Seq(Byte) BY <1>9, Parts DEF left
  <2> QED BY <1>9, <2>1
<1> HIDE DEF pending
<1>13. ready \in 0..Len(pending)
  <2>1. Len(pending) \in Nat BY <1>12
  <2>2. pending # <<>> => Len(pending) > 0 BY <1>12
  <2> QED BY <2>1, <2>2 DEF Ready
<1> HIDE DEF ready
<1>14. text \in Texts
  <2>1. SubSeq(pending, 1, ready) \in Seq(Byte) BY <1>12, <1>13, Parts
  <2> QED BY <2>1 DEF Texts
<1> HIDE DEF text
<1>15. CASE ~Numbering
  <2>1. Notify(<<Delta(s, text)>>) \/ UNCHANGED wire BY <1>11
  <2>2. AddsUp(before)' BY <2>1, <1>1, <1>4, <1>5, <1>6, <1>14, <1>15, BehindTheEnd
  <2> QED BY <2>2, <1>4, <1>7
<1>16. CASE Numbering
  <2>1. number \in Nat /\ written[s] \in Seq(Char) /\ before[s][number] \in 0..Len(written[s])
    <3>1. number \in Nat /\ written[s] \in Seq(Char) BY <1>5 DEF StreamTypeOK
    <3>2. before[s][number] \in Nat BY <3>1 DEF Counts
    <3>3. before[s][number] <= Len(written[s]) BY <3>1, <1>4 DEF AddsUp, Bounded
    <3>4. Len(written[s]) \in Nat BY <3>1
    <3> QED BY <3>1, <3>2, <3>3, <3>4
  <2>2. w \in Seq(Char) /\ Len(w) \in Nat
    <3> DEFINE b == before[s][number]
               all == written[s]
    <3>1. w = SubSeq(all, b + 1, Len(all)) BY DEF Unsent
    <3>2. all \in Seq(Char) /\ b \in 0..Len(all) BY <2>1
    <3> HIDE DEF b, all, w
    <3> QED BY <3>1, <3>2, Parts
  <2>3. Encodes(kept \o left, w) BY <1>1, <1>4, <1>16 DEF AddsUp, ReaderFits
  <2>4. /\ ready > 0 => \E q \in 0..Len(w) : text = SubSeq(w, 1, q) /\ Encodes(rest \o tail, SubSeq(w, q + 1, Len(w)))
        /\ ready = 0 => Encodes(rest \o tail, w)
    <3> HIDE DEF w, kept, left
    <3>1. n \in 1..Len(left) BY DEF left
    <3> QED BY <1>9, <2>2, <2>3, <3>1, ReadsWhole DEF pending, ready, text
  <2>5. reader'[s] = "reading" BY <1>1
  <2>6. \E q \in 0..Len(w) :
          /\ number' = number + 1 \/ (number' = number /\ q = 0)
          /\ Encodes(rest \o tail, SubSeq(w, q + 1, Len(w)))
          /\ \A m \in Fresh(queue', wire') :
               \/ m \in Fresh(queue, wire)
               \/ /\ number' = number + 1 /\ m.kind = "delta" /\ m.stream = s /\ m.nr = number
                  /\ m.text = SubSeq(w, 1, q)
    <3> HIDE DEF w, kept, left, rest, tail
    <3>1. CASE ready > 0
      <4>1. PICK q \in 0..Len(w) : text = SubSeq(w, 1, q) /\ Encodes(rest \o tail, SubSeq(w, q + 1, Len(w)))
        BY <3>1, <2>4
      <4>2. Notify(<<Delta(s, text)>>) BY <3>1, <1>11
      <4>3. /\ number' = number + 1
            /\ \A m \in Fresh(queue', wire') :
                 \/ m \in Fresh(queue, wire)
                 \/ m.kind = "delta" /\ m.stream = s /\ m.nr = number /\ m.text = text
        BY <4>2, <1>1, <1>5, <1>14, DeltaSent
      <4> QED BY <4>1, <4>3
    <3>2. CASE ready = 0
      <4>1. UNCHANGED <<wire, number>> BY <3>2, <1>11
      <4>2. SubSeq(w, 0 + 1, Len(w)) = w BY <2>2
      <4>3. Encodes(rest \o tail, SubSeq(w, 0 + 1, Len(w))) BY <4>2, <3>2, <2>4
      <4>4. 0 \in 0..Len(w) BY <2>2
      <4>5. Fresh(queue', wire') = Fresh(queue, wire) BY <4>1, <1>1
      <4> QED BY <4>1, <4>3, <4>4, <4>5
    <3>3. ready > 0 \/ ready = 0 BY <1>12, <1>13
    <3> QED BY <3>1, <3>2, <3>3
  <2>7. PICK q \in 0..Len(w) :
          /\ number' = number + 1 \/ (number' = number /\ q = 0)
          /\ Encodes(rest \o tail, SubSeq(w, q + 1, Len(w)))
          /\ \A m \in Fresh(queue', wire') :
               \/ m \in Fresh(queue, wire)
               \/ /\ number' = number + 1 /\ m.kind = "delta" /\ m.stream = s /\ m.nr = number
                  /\ m.text = SubSeq(w, 1, q)
    BY <2>6
  <2>8. Encodes(carry'[s] \o pipe'[s], SubSeq(w, q + 1, Len(w))) BY <2>7, <1>10
  <2> HIDE DEF rest, tail
  <2>9. \E counts \in Counts : AddsUp(counts)'
    BY <1>1, <1>4, <1>5, <1>10, <1>16, <2>5, <2>7, <2>8, ReaderStep DEF w
  <2> QED BY <2>9, <1>7
<1> QED BY <1>15, <1>16

LEMMA ReadsEndKeeps ==
  ASSUME StreamInv, NEW s \in Stream, ReadsEnd(s)
  PROVE  NothingLost'
<1>1. /\ Up /\ reader[s] = "reading" /\ pipe[s] = <<>> /\ Hollow
      /\ UNCHANGED <<app, kin, written, pipe, waiter, main, inbox, queue, broken, user, expected, heard, result>>
      /\ reader' = [reader EXCEPT ![s] = "done"] /\ carry' = [carry EXCEPT ![s] = <<>>]
  BY DEF ReadsEnd, progVars, clientVars, userVars
<1>2. (user' \in {"dialing", "starting", "listening"} => result' = "none") BY <1>1 DEF StreamInv, NothingLost
<1> SUFFICES ASSUME Attentive' PROVE StartsOnce' /\ \E before \in Counts : AddsUp(before)'
  BY <1>2 DEF NothingLost
<1>3. Attentive BY <1>1 DEF Attentive
<1>4. PICK before \in Counts : AddsUp(before) BY <1>3 DEF StreamInv, NothingLost
<1>5. StartsOnce /\ StreamTypeOK BY <1>3 DEF StreamInv, NothingLost
<1>6. app # "none" /\ waiter # "none" BY <1>1, <1>5 DEF StartsOnce
<1>7. StartsOnce' BY <1>1, <1>5, <1>6 DEF StartsOnce, Up
<1> DEFINE kept == carry[s]
           text == Decoded(kept)
           w == Unsent(before, s)
<1>8. IF kept # <<>> THEN Notify(<<Delta(s, text)>>) ELSE UNCHANGED <<wire, number>> BY DEF ReadsEnd
<1>9. kept \in Seq(Byte) /\ text \in Texts BY <1>5 DEF StreamTypeOK, Texts
<1>10. /\ \A t \in Stream : t # s => pipe'[t] = pipe[t] /\ carry'[t] = carry[t] /\ reader'[t] = reader[t]
       /\ reader'[s] = "done"
  BY <1>1, <1>5 DEF StreamTypeOK
<1>11. CASE ~Numbering
  <2> HIDE DEF text
  <2>1. Notify(<<Delta(s, text)>>) \/ UNCHANGED wire BY <1>8
  <2>2. AddsUp(before)' BY <2>1, <1>1, <1>4, <1>5, <1>6, <1>9, <1>11, BehindTheEnd
  <2> QED BY <2>2, <1>4, <1>7
<1>12. CASE Numbering
  <2>1. number \in Nat /\ written[s] \in Seq(Char) /\ before[s][number] \in 0..Len(written[s])
    <3>1. number \in Nat /\ written[s] \in Seq(Char) BY <1>5 DEF StreamTypeOK
    <3>2. before[s][number] \in Nat BY <3>1 DEF Counts
    <3>3. before[s][number] <= Len(written[s]) BY <3>1, <1>4 DEF AddsUp, Bounded
    <3>4. Len(written[s]) \in Nat BY <3>1
    <3> QED BY <3>1, <3>2, <3>3, <3>4
  <2>2. w \in Seq(Char) /\ Len(w) \in Nat
    <3> DEFINE b == before[s][number]
               all == written[s]
    <3>1. w = SubSeq(all, b + 1, Len(all)) BY DEF Unsent
    <3>2. all \in Seq(Char) /\ b \in 0..Len(all) BY <2>1
    <3> HIDE DEF b, all, w
    <3> QED BY <3>1, <3>2, Parts
  <2>3. Encodes(kept, w)
    <3>1. Encodes(kept \o pipe[s], w) BY <1>1, <1>4, <1>12 DEF AddsUp, ReaderFits
    <3>2. kept \o pipe[s] = kept BY <1>1, <1>9
    <3> QED BY <3>1, <3>2
  <2> HIDE DEF w
  <2>4. /\ number' = number + 1 \/ (number' = number /\ Len(w) = 0)
        /\ \A m \in Fresh(queue', wire') :
             \/ m \in Fresh(queue, wire)
             \/ /\ number' = number + 1 /\ m.kind = "delta" /\ m.stream = s /\ m.nr = number
                /\ m.text = SubSeq(w, 1, Len(w))
    <3>1. CASE kept # <<>>
      <4>1. text = w
        <5> HIDE DEF kept
        <5> QED BY <3>1, <2>2, <2>3, <1>9, DecodesBack
      <4> HIDE DEF text
      <4>2. Notify(<<Delta(s, text)>>) BY <3>1, <1>8
      <4>3. /\ number' = number + 1
            /\ \A m \in Fresh(queue', wire') :
                 \/ m \in Fresh(queue, wire)
                 \/ m.kind = "delta" /\ m.stream = s /\ m.nr = number /\ m.text = text
        BY <4>2, <1>1, <1>5, <1>9, DeltaSent
      <4>4. SubSeq(w, 1, Len(w)) = w BY <2>2
      <4> QED BY <4>1, <4>3, <4>4
    <3>2. CASE kept = <<>>
      <4>1. UNCHANGED <<wire, number>> BY <3>2, <1>8
      <4>2. Encodes(<<>>, w) BY <2>3, <3>2
      <4>3. w = <<>> BY <2>2, <4>2, EncodesNothing
      <4>4. Len(w) = 0 BY <4>3
      <4>5. Fresh(queue', wire') = Fresh(queue, wire) BY <4>1, <1>1
      <4> QED BY <4>1, <4>4, <4>5
    <3> QED BY <3>1, <3>2
  <2>5. Len(w) \in 0..Len(w) BY <2>2
  <2>6. reader'[s] \in {"reading", "done"} /\ reader'[s] # "reading" BY <1>10
  <2>7. \E counts \in Counts : AddsUp(counts)'
    BY <1>1, <1>4, <1>5, <1>10, <1>12, <2>4, <2>5, <2>6, ReaderStep DEF w
  <2> QED BY <2>7, <1>7
<1> QED BY <1>11, <1>12

\* An event in its turn continues what has been heard.
LEMMA Hears ==
  ASSUME StreamTypeOK, NEW before \in Counts, AddsUp(before), queue # <<>>,
         Head(queue).kind = "delta", Head(queue).nr = expected
  PROVE  LET s == Head(queue).stream
             b == before[s][expected]
             c == before[s][expected + 1] IN
         /\ s \in Stream /\ b \in 0..c /\ c \in 0..Len(written[s])
         /\ heard[s] = SubSeq(written[s], 1, b)
         /\ heard[s] \o Head(queue).text = SubSeq(written[s], 1, c)
<1> DEFINE m == Head(queue)
           s == m.stream
           b == before[s][expected]
           c == before[s][expected + 1]
           w == written[s]
<1>1. expected \in Nat /\ expected + 1 \in Nat /\ queue \in Seq(Lines) /\ wire \in Seq(Lines) BY DEF StreamTypeOK
<1>2. m \in Fresh(queue, wire) BY <1>1, FreshTaken
<1> HIDE DEF m
<1>3. Carries(before, m) BY <1>2 DEF AddsUp
<1>4. m.kind = "delta" /\ m.nr = expected BY DEF m
<1>5. s \in Stream /\ m.text = SubSeq(w, b + 1, c) BY <1>3, <1>4 DEF Carries
<1>6. b <= c BY <1>3, <1>4, <1>5 DEF Carries
<1>7. b \in Nat /\ c \in Nat BY <1>1, <1>5 DEF Counts
<1>8. c <= Len(w) BY <1>1, <1>5 DEF AddsUp, Bounded
<1>9. w \in Seq(Char) /\ Len(w) \in Nat BY <1>5 DEF StreamTypeOK
<1>10. heard[s] = SubSeq(w, 1, b) BY <1>5 DEF AddsUp
<1> HIDE DEF b, c, w
<1>11. SubSeq(w, 1, b) \o SubSeq(w, b + 1, c) = SubSeq(w, 1, c)
  <2>1. 1 \in 1..(Len(w) + 1) /\ b \in (1 - 1)..Len(w) /\ c \in b..Len(w) BY <1>6, <1>7, <1>8, <1>9
  <2> QED BY <2>1, <1>9, ConcatAdjacentSubSeq
<1>12. heard[s] \o m.text = SubSeq(w, 1, c) BY <1>5, <1>10, <1>11
<1>13. b \in 0..c /\ c \in 0..Len(w) BY <1>6, <1>7, <1>8, <1>9
<1>14. s \in Stream BY <1>5
<1> HIDE DEF s
<1>15. s \in Stream /\ b \in 0..c /\ c \in 0..Len(w) /\ heard[s] = SubSeq(w, 1, b) /\ heard[s] \o m.text = SubSeq(w, 1, c)
  BY <1>10, <1>12, <1>13, <1>14
<1> QED BY <1>15, Zenon DEF m, s, b, c, w

LEMMA ConsumeKeeps ==
  ASSUME StreamInv, Consumes
  PROVE  NothingLost'
<1> DEFINE m == Head(queue)
<1>1. /\ user = "listening" /\ ~broken /\ queue # <<>> /\ queue' = Tail(queue) /\ expected' = expected + 1
      /\ UNCHANGED <<app, kin, written, pipe, carry, reader, waiter, main, number, wire, broken>>
      /\ heard' = IF m.kind = "delta" /\ m.nr = expected THEN [heard EXCEPT ![m.stream] = @ \o m.text] ELSE heard
  BY DEF Consumes, progVars, hostVars
<1>2. CASE \E how : HangUp(how) BY <1>2 DEF HangUp, NothingLost, Attentive
<1>3. CASE m.nr = expected /\ m.kind \notin Final /\ UNCHANGED <<user, result, waitsFor, inbox>>
  <2>1. (user' \in {"dialing", "starting", "listening"} => result' = "none") BY <1>1, <1>3 DEF StreamInv, NothingLost
  <2> SUFFICES ASSUME Attentive' PROVE StartsOnce' /\ \E before \in Counts : AddsUp(before)'
    BY <2>1 DEF NothingLost
  <2>2. Attentive BY <1>1 DEF Attentive
  <2>3. PICK before \in Counts : AddsUp(before) BY <2>2 DEF StreamInv, NothingLost
  <2>4. StartsOnce /\ StreamTypeOK BY <2>2 DEF StreamInv, NothingLost
  <2>5. app # "none" BY <1>1, <2>4 DEF StartsOnce
  <2>6. StartsOnce' BY <1>1, <1>3, <2>4, <2>5 DEF StartsOnce, Up
  <2>7. queue \in Seq(Lines) /\ wire \in Seq(Lines) /\ expected \in Nat /\ number \in Nat BY <2>4 DEF StreamTypeOK
  <2>8. m \in Fresh(queue, wire) /\ m \in Lines BY <1>1, <2>7, FreshTaken
  <2>9. Fresh(queue', wire') \subseteq Fresh(queue, wire) /\ (EndUnderway(queue, wire) => EndUnderway(queue', wire'))
    BY <1>1, <1>3, <2>7, FreshTaken
  <2>10. ASSUME NEW t \in Stream PROVE heard'[t] = SubSeq(written'[t], 1, before[t][expected'])
    <3>1. CASE m.kind = "delta" /\ m.stream = t
      <4>1. heard[t] \o m.text = SubSeq(written[t], 1, before[t][expected + 1]) BY <3>1, <1>1, <1>3, <2>3, <2>4, Hears
      <4>2. heard' = [heard EXCEPT ![t] = heard[t] \o m.text] BY <3>1, <1>1, <1>3
      <4>3. DOMAIN heard = Stream BY <2>4 DEF StreamTypeOK
      <4>4. heard'[t] = heard[t] \o m.text
        <5> DEFINE x == heard[t] \o m.text
        <5>1. heard' = [heard EXCEPT ![t] = x] BY <4>2
        <5> HIDE DEF x
        <5>2. heard'[t] = x BY <4>3, <5>1
        <5> QED BY <5>2 DEF x
      <4> QED BY <4>1, <4>4, <1>1
    <3>2. CASE ~(m.kind = "delta" /\ m.stream = t)
      <4>1. heard[t] = SubSeq(written[t], 1, before[t][expected]) BY <2>3 DEF AddsUp
      <4>2. Carries(before, m) BY <2>3, <2>8 DEF AddsUp
      <4>3. before[t][expected + 1] = before[t][expected] BY <4>2, <3>2, <1>3 DEF Carries
      <4>4. heard'[t] = heard[t]
        <5>1. CASE m.kind = "delta" BY <5>1, <3>2, <1>1, <2>4 DEF StreamTypeOK
        <5>2. CASE m.kind # "delta" BY <5>2, <1>1
        <5> QED BY <5>1, <5>2
      <4> QED BY <4>1, <4>3, <4>4, <1>1
    <3> QED BY <3>1, <3>2
  <2> HIDE DEF m
  <2>11. (Hollow <=> Hollow') /\ (Numbering' <=> Numbering) BY <1>1 DEF Hollow, Numbering, Up
  <2>12. Bounded(before)' BY <1>1, <2>3 DEF AddsUp, Bounded
  <2>13. ASSUME NEW e \in Fresh(queue', wire') PROVE Carries(before, e)'
    <3>1. Carries(before, e) BY <2>3, <2>9 DEF AddsUp
    <3> QED BY <3>1, <2>11, <1>1 DEF Carries
  <2>14. ASSUME Numbering
         PROVE  /\ expected' <= number'
                /\ \A e \in Fresh(queue', wire') : e.nr < number'
                /\ \A t \in Stream : ReaderFits(before, t)'
    <3>1. /\ \A e \in Fresh(queue, wire) : e.nr < number
          /\ \A t \in Stream : ReaderFits(before, t)
      BY <2>14, <2>3 DEF AddsUp
    <3>2. expected < number BY <3>1, <2>8, <1>3
    <3>3. expected' <= number' BY <3>2, <2>7, <1>1
    <3>4. \A t \in Stream : ReaderFits(before, t)' BY <3>1, <2>11, <1>1 DEF ReaderFits, Unsent
    <3>5. \A e \in Fresh(queue', wire') : e.nr < number' BY <3>1, <2>9, <1>1
    <3> QED BY <3>3, <3>4, <3>5
  <2>15. waiter' = "done" => EndUnderway(queue', wire') BY <1>1, <2>3, <2>9 DEF AddsUp
  <2>16. AddsUp(before)' BY <2>10, <2>11, <2>12, <2>13, <2>14, <2>15 DEF AddsUp
  <2> QED BY <2>3, <2>6, <2>16
<1> QED
  <2>1. CASE m.nr # expected \/ m.kind = "failed"
    <3>1. HangUp("unknown") BY <2>1 DEF Consumes
    <3> QED BY <3>1, <1>2
  <2>2. CASE m.nr = expected /\ m.kind = "exited"
    <3>1. HangUp(IF expired THEN "timed_out" ELSE "exited") BY <2>2 DEF Consumes
    <3> QED BY <3>1, <1>2
  <2>3. CASE m.nr = expected /\ m.kind # "exited" /\ m.kind # "failed"
    <3>1. UNCHANGED <<user, result, waitsFor, inbox>> BY <2>3 DEF Consumes
    <3> QED BY <3>1, <2>3, <1>3 DEF Final
  <2> QED BY <2>1, <2>2, <2>3

-----------------------------------------------------------------------------
(* Nothing is lost, and the pipe the host and its client make. *)

LEMMA NothingLostInit ==
  ASSUME StreamInit
  PROVE  NothingLost
<1>1. user = "dialing" /\ result = "none" /\ app = "none" /\ inbox = <<"initialize">> /\ waiter = "none" /\ kin = FALSE
      /\ expected = 0 /\ queue = <<>> /\ wire = <<>>
  BY DEF StreamInit
<1>2. ASSUME NEW s \in Stream
      PROVE  written[s] = <<>> /\ pipe[s] = <<>> /\ carry[s] = <<>> /\ reader[s] = "none" /\ heard[s] = <<>>
  BY DEF StreamInit
<1>3. Len(inbox) = 1 /\ inbox[1] = "initialize" BY <1>1
<1>4. \A i \in 1..Len(inbox) : inbox[i] # "start" BY <1>3
<1>5. Len(wire) = 0 BY <1>1
<1>6. StartsOnce BY <1>1, <1>2, <1>4, <1>5 DEF StartsOnce
<1>7. PICK before \in Counts : \A s \in Stream, n \in Nat : before[s][n] = 0
  <2> DEFINE f == [s \in Stream |-> [n \in Nat |-> 0]]
  <2>1. f \in Counts /\ \A s \in Stream, n \in Nat : f[s][n] = 0 BY DEF Counts
  <2> HIDE DEF f
  <2> QED BY <2>1
<1>8. Bounded(before)
  <2>1. ASSUME NEW s \in Stream PROVE Len(written[s]) = 0 BY <1>2
  <2> QED BY <2>1, <1>7 DEF Bounded
<1>9. ASSUME NEW s \in Stream PROVE heard[s] = SubSeq(written[s], 1, before[s][expected])
  <2>1. before[s][expected] = 0 BY <1>1, <1>7
  <2>2. SubSeq(<<>>, 1, 0) = <<>> OBVIOUS
  <2> QED BY <2>1, <2>2, <1>2
<1>10. Fresh(queue, wire) = {}
  <2>1. Len(queue) = 0 /\ Len(wire) = 0 BY <1>1
  <2>2. 1..Len(queue) = {} /\ 1..Len(wire) = {} BY <2>1
  <2> QED BY <2>2 DEF Fresh
<1>11. AddsUp(before) BY <1>1, <1>8, <1>9, <1>10 DEF AddsUp, Numbering
<1> QED BY <1>1, <1>6, <1>11 DEF NothingLost

LEMMA NothingLostStep ==
  ASSUME StreamInv, [StreamNext]_streamVars
  PROVE  NothingLost'
<1>1. ASSUME NEW s \in Stream, NEW c \in Char, Prints(s, c) PROVE NothingLost' BY <1>1, PrintKeeps
<1>2. CASE Forks \/ Exits \/ SeesExit \/ Deadline BY <1>2, QuietKeeps
<1>3. ASSUME NEW s \in Stream, Reads(s) PROVE NothingLost' BY <1>3, ReadsKeeps
<1>4. ASSUME NEW s \in Stream, ReadsEnd(s) PROVE NothingLost' BY <1>4, ReadsEndKeeps
<1>5. CASE Reports \/ WaitFails BY <1>5, EndKeeps
<1>11. CASE TakesInitialize \/ TakesWrite \/ WriteEnds \/ TakesShutdown \/ HostDies BY <1>11, LoopKeeps
<1>6. CASE TakesStart
  <2>1. CASE Replies("start", FALSE) /\ UNCHANGED <<app, reader, waiter, table, number>> BY <2>1, <1>6, LoopKeeps
  <2>2. CASE /\ app' = "running" /\ reader' = [s \in Stream |-> "reading"] /\ waiter' = "polling" /\ number' = 1
             /\ wire' = wire \o <<Notice("started"), Reply("start", TRUE)>>
    <3> DEFINE n == Notice("started")
               r == Reply("start", TRUE)
    <3>1. n \in Lines /\ n.kind = "started" BY NoticeIs
    <3>2. n.nr = 0 BY DEF Notice, Event
    <3>3. r \in Lines /\ r.kind = "reply" BY ReplyIs DEF Requests
    <3>4. wire' = wire \o <<n, r>> BY <2>2
    <3> HIDE DEF n, r
    <3>5. app' = "running" /\ reader' = [s \in Stream |-> "reading"] /\ waiter' = "polling" /\ number' = 1 BY <2>2
    <3> QED BY <3>1, <3>2, <3>3, <3>4, <3>5, <1>6, StartKeeps
  <2> QED BY <2>1, <2>2, <1>6 DEF TakesStart
<1>7. CASE Pumps BY <1>7, PumpKeeps
<1>8. CASE EndOfFile \/ Connects \/ GivesUp \/ AsksWrite \/ Closes BY <1>8, TalkKeeps
<1>9. CASE Consumes BY <1>9, ConsumeKeeps
<1>10. CASE UNCHANGED streamVars
  <2>1. UNCHANGED <<app, kin, written, pipe, carry, reader, waiter, main, number, inbox, wire, queue, broken, user,
                    expected, heard, result>>
    BY <1>10 DEF streamVars, progVars, hostVars, clientVars, userVars
  <2>2. StartsOnce <=> StartsOnce' BY <2>1 DEF StartsOnce, Up
  <2>3. Attentive <=> Attentive' BY <2>1 DEF Attentive
  <2>4. ASSUME NEW before \in Counts, AddsUp(before) PROVE AddsUp(before)'
    <3>1. Numbering' => Numbering BY <2>1 DEF Numbering, Up
    <3>2. Hollow => Hollow' BY <2>1 DEF Hollow
    <3>3. Fresh(queue', wire') \subseteq Fresh(queue, wire) /\ (EndUnderway(queue, wire) => EndUnderway(queue', wire')) BY <2>1
    <3> QED BY <3>1, <3>2, <3>3, <2>1, <2>4, Stays
  <2>5. NothingLost BY DEF StreamInv
  <2> QED BY <2>1, <2>2, <2>3, <2>4, <2>5 DEF NothingLost
<1> QED BY <1>1, <1>2, <1>3, <1>4, <1>5, <1>6, <1>7, <1>8, <1>9, <1>10, <1>11 DEF StreamNext, PumpStep

LEMMA StreamHolds == StreamSpec => []StreamInv
<1>1. StreamInit => StreamInv BY StreamTypeInit, NothingLostInit DEF StreamInv
<1>2. StreamInv /\ [StreamNext]_streamVars => StreamInv'
  BY StreamTypeStep, NothingLostStep DEF StreamInv
<1> QED BY <1>1, <1>2, PTL DEF StreamSpec

Ended == result \in {"exited", "timed_out"}

\* What the consumer takes arrives in the pipe; its end is the end of what was sent.
LEMMA ConsumesRefines ==
  ASSUME StreamInv, Consumes
  PROVE  [CommandPipe!PipeNext]_<<written, heard, Ended>>
<1> DEFINE m == Head(queue)
<1>1. /\ user = "listening" /\ ~broken /\ queue # <<>> /\ written' = written
      /\ heard' = IF m.kind = "delta" /\ m.nr = expected THEN [heard EXCEPT ![m.stream] = @ \o m.text] ELSE heard
  BY DEF Consumes, progVars
<1>2. result = "none" BY <1>1 DEF StreamInv, NothingLost
<1>3. PICK before \in Counts : AddsUp(before) BY <1>1 DEF StreamInv, NothingLost, Attentive
<1>4. StreamTypeOK BY DEF StreamInv
<1>5. ~Ended BY <1>2 DEF Ended
<1>6. DOMAIN heard = Stream /\ heard = [s \in Stream |-> heard[s]] /\ written \in [Stream -> Seq(Char)] BY <1>4 DEF StreamTypeOK
<1>7. CASE m.kind = "delta" /\ m.nr = expected
  <2>1. UNCHANGED result BY <1>7 DEF Consumes
  <2>2. Ended' <=> Ended BY <2>1 DEF Ended
  <2> DEFINE s == m.stream
             b == before[s][expected]
             c == before[s][expected + 1]
  <2>3. /\ s \in Stream /\ b \in 0..c /\ c \in 0..Len(written[s])
        /\ heard[s] = SubSeq(written[s], 1, b) /\ heard[s] \o m.text = SubSeq(written[s], 1, c)
    BY <1>1, <1>3, <1>4, <1>7, Hears
  <2>4. heard' = [heard EXCEPT ![s] = SubSeq(written[s], 1, c)] BY <2>3, <1>1, <1>7
  <2> HIDE DEF s, b, c
  <2>5. written[s] \in Seq(Char) /\ Len(written[s]) \in Nat BY <1>6, <2>3
  <2>6. b \in 0..Len(written[s]) BY <2>3, <2>5
  <2>7. Len(heard[s]) = b BY <2>3, <2>5, <2>6, Parts
  <2>8. CASE b = c
    <3>1. heard' = [heard EXCEPT ![s] = heard[s]] BY <2>3, <2>4, <2>8
    <3>2. heard' = heard BY <3>1, <1>6
    <3> QED BY <3>2, <2>2, <1>1
  <2>9. CASE b # c
    <3>1. c \in (Len(heard[s]) + 1)..Len(written[s]) BY <2>3, <2>5, <2>7, <2>9
    <3>3. \E n \in (Len(heard[s]) + 1)..Len(written[s]) : heard' = [heard EXCEPT ![s] = SubSeq(written[s], 1, n)]
      BY <3>1, <2>4
    <3>4. ~Ended /\ UNCHANGED <<written, Ended>> BY <2>2, <1>1, <1>5 DEF Ended
    <3>5. CommandPipe!Receive(s) BY <3>3, <3>4 DEF CommandPipe!Receive, Ended
    <3> QED BY <3>5, <2>3 DEF CommandPipe!PipeNext
  <2> QED BY <2>8, <2>9
<1>8. CASE ~(m.kind = "delta" /\ m.nr = expected)
  <2>1. heard' = heard BY <1>1, <1>8
  <2>2. CASE m.nr # expected \/ m.kind = "failed"
    <3>1. HangUp("unknown") BY <2>2 DEF Consumes
    <3>2. ~Ended' BY <3>1 DEF HangUp, Ended
    <3>3. Ended' = Ended BY <3>2, <1>5 DEF Ended
    <3> QED BY <3>3, <2>1, <1>1
  <2>3. CASE m.nr = expected /\ m.kind = "exited"
    <3>1. HangUp(IF expired THEN "timed_out" ELSE "exited") BY <2>3 DEF Consumes
    <3>2. Ended' BY <3>1 DEF HangUp, Ended
    <3>3. expected \in Nat /\ queue \in Seq(Lines) /\ wire \in Seq(Lines) BY <1>4 DEF StreamTypeOK
    <3>4. m \in Fresh(queue, wire) BY <1>1, <3>3, FreshTaken
    <3>5. Carries(before, m) BY <3>4, <1>3 DEF AddsUp
    <3>6. ASSUME NEW s \in Stream PROVE heard[s] = written[s]
      <4>1. before[s][expected] = Len(written[s]) BY <3>5, <2>3 DEF Carries
      <4>2. heard[s] = SubSeq(written[s], 1, before[s][expected]) BY <1>3 DEF AddsUp
      <4>3. written[s] \in Seq(Char) BY <1>6
      <4>4. SubSeq(written[s], 1, Len(written[s])) = written[s] BY <4>3
      <4> QED BY <4>1, <4>2, <4>4
    <3>7. heard = written BY <3>6, <1>6
    <3>8. CommandPipe!End BY <3>2, <3>7, <2>1, <1>1, <1>5 DEF CommandPipe!End, Ended
    <3> QED BY <3>8 DEF CommandPipe!PipeNext
  <2>4. CASE m.nr = expected /\ m.kind # "exited" /\ m.kind # "failed"
    <3>1. UNCHANGED result BY <2>4 DEF Consumes
    <3>2. Ended' <=> Ended BY <3>1 DEF Ended
    <3> QED BY <3>2, <2>1, <1>1
  <2> QED BY <2>2, <2>3, <2>4
<1> QED BY <1>7, <1>8

LEMMA StreamStepRefines ==
  ASSUME StreamInv, [StreamNext]_streamVars
  PROVE  [CommandPipe!PipeNext]_<<written, heard, Ended>>
<1>1. ASSUME NEW s \in Stream, NEW c \in Char, Prints(s, c) PROVE [CommandPipe!PipeNext]_<<written, heard, Ended>>
  <2>1. written' = [written EXCEPT ![s] = Append(@, c)] /\ heard' = heard /\ result' = result BY <1>1 DEF Prints, userVars
  <2>2. Ended' <=> Ended BY <2>1 DEF Ended
  <2>3. CommandPipe!Send(s) BY <2>1, <2>2 DEF CommandPipe!Send, Ended
  <2> QED BY <2>3 DEF CommandPipe!PipeNext
<1>2. CASE Consumes BY <1>2, ConsumesRefines
<1>3. CASE UNCHANGED <<written, heard, result>>
  <2>1. Ended' <=> Ended BY <1>3 DEF Ended
  <2> QED BY <2>1, <1>3
<1>4. CASE UNCHANGED <<written, heard>> /\ ~Ended /\ ~Ended'
  <2>1. Ended' = Ended BY <1>4 DEF Ended
  <2> QED BY <2>1, <1>4
<1>5. ASSUME NEW how, user \in {"dialing", "starting", "listening"}, HangUp(how), how \notin {"exited", "timed_out"},
             UNCHANGED <<written, heard>>
      PROVE  [CommandPipe!PipeNext]_<<written, heard, Ended>>
  <2>1. result = "none" BY <1>5 DEF StreamInv, NothingLost
  <2>2. ~Ended /\ ~Ended' BY <2>1, <1>5 DEF Ended, HangUp
  <2> QED BY <2>2, <1>4, <1>5
<1>6. CASE Connects
  <2>1. user \in {"dialing", "starting"} /\ UNCHANGED <<written, heard>> BY <1>6 DEF Connects, progVars
  <2>2. CASE UNCHANGED result BY <2>1, <2>2, <1>3
  <2>3. CASE \E how \in {"refused", "unknown"} : HangUp(how)
    <3>1. PICK how \in {"refused", "unknown"} : HangUp(how) BY <2>3
    <3> QED BY <3>1, <2>1, <1>5
  <2>4. \A what : StartFailed(what) \in {"refused", "unknown"} BY DEF StartFailed
  <2>5. UNCHANGED result \/ \E how \in {"refused", "unknown"} : HangUp(how)
    <3>1. CASE waitsFor = "yes" /\ ~broken /\ UNCHANGED result BY <3>1
    <3>2. CASE HangUp(StartFailed(waitsFor)) BY <3>2, <2>4
    <3>3. CASE HangUp(StartFailed("late")) BY <3>3, <2>4
    <3>4. CASE HangUp(IF user = "dialing" THEN "refused" ELSE "unknown")
      <4>1. (IF user = "dialing" THEN "refused" ELSE "unknown") \in {"refused", "unknown"} OBVIOUS
      <4> QED BY <3>4, <4>1
    <3> QED BY <3>1, <3>2, <3>3, <3>4, <1>6 DEF Connects
  <2> QED BY <2>2, <2>3, <2>5
<1>7. CASE GivesUp
  <2>1. user = "listening" /\ UNCHANGED <<written, heard>> BY <1>7 DEF GivesUp, progVars
  <2>2. PICK how \in {"stopped", "unknown"} : HangUp(how) BY <1>7 DEF GivesUp
  <2> QED BY <2>1, <2>2, <1>5
<1>8. CASE PumpStep \/ Forks \/ Exits
  <2>1. UNCHANGED <<written, heard, result>>
    <3>1. CASE \E s \in Stream : Reads(s) \/ ReadsEnd(s) BY <3>1 DEF Reads, ReadsEnd, progVars, userVars
    <3>2. CASE SeesExit \/ Deadline \/ Reports \/ WaitFails \/ Forks \/ Exits
      BY <3>2 DEF SeesExit, Deadline, Reports, WaitFails, Forks, Exits, progVars, userVars
    <3>3. CASE TakesInitialize \/ TakesStart \/ TakesWrite \/ WriteEnds
      BY <3>3 DEF TakesInitialize, TakesStart, TakesWrite, WriteEnds, progVars, userVars
    <3>4. CASE TakesShutdown \/ HostDies BY <3>4 DEF TakesShutdown, HostDies, HostGone, userVars
    <3> QED BY <3>1, <3>2, <3>3, <3>4, <1>8 DEF PumpStep
  <2> QED BY <2>1, <1>3
<1>9. CASE Pumps \/ EndOfFile \/ AsksWrite \/ Closes
  <2>1. UNCHANGED <<written, heard, result>> BY <1>9 DEF Pumps, EndOfFile, AsksWrite, Closes, HostGone, progVars
  <2> QED BY <2>1, <1>3
<1>10. CASE UNCHANGED streamVars BY <1>10, <1>3 DEF streamVars, progVars, userVars
<1> QED BY <1>1, <1>2, <1>6, <1>7, <1>8, <1>9, <1>10 DEF StreamNext

\* Every variable of the host and its client holds what it is meant to.
THEOREM StreamTypeCorrect == StreamSpec => []StreamTypeOK
<1>1. StreamInv => StreamTypeOK BY DEF StreamInv
<1> QED BY <1>1, StreamHolds, PTL

\* As long as somebody takes the events, what he has heard, what is on its way and
\* what is in the pipes make up what the program has written.
THEOREM NoOutputLost == StreamSpec => []NothingLost
<1>1. StreamInv => NothingLost BY DEF StreamInv
<1> QED BY <1>1, StreamHolds, PTL

\* The host and its client are the pipe of OutputPipe: every character of each stream
\* arrives once, in order and intact, and the end only behind all of them.
THEOREM HostIsAPipe == StreamSpec => HostIsPipe
<1>1. StreamInit => CommandPipe!PipeInit BY DEF StreamInit, CommandPipe!PipeInit
<1>2. StreamInv /\ [StreamNext]_streamVars => [CommandPipe!PipeNext]_<<written, heard, Ended>> BY StreamStepRefines
<1>3. StreamInv /\ [StreamNext]_streamVars
        => [CommandPipe!PipeNext]_<<written, heard, result \in {"exited", "timed_out"}>>
  BY <1>2 DEF Ended
<1> QED BY <1>1, <1>3, StreamHolds, PTL DEF StreamSpec, HostIsPipe, CommandPipe!PipeSpec

===============================================================================
