----------------------- MODULE ExecutionSessionProofs -----------------------
(***************************************************************************)
(* The safety of managed executions, for any executions, runs, handlers    *)
(* and writers.                                                            *)
(***************************************************************************)
EXTENDS ExecutionSession, FiniteSetTheorems, TLAPS

(* The inductive invariant.  What a record says fits where the coroutines of
   its execution are. *)
Truthful(rec, e) ==
  /\ rec.stopped => host[e] = "gone"
  /\ rec.over /\ ~rec.stopped => rec.status = "unknown"
  /\ rec.over => rec.status \in Final

\* A start that is not over has no monitor and no result.
NotYet(e) ==
  /\ starter[e] # "done" => monitor[e] = "none" /\ ~record[e].over /\ ~stored[e].over
  /\ starter[e] = "idle" => record[e].status = "none" /\ stored[e].status = "none"

\* The monitor decides on the status once, and saves it once.
Following(e) ==
  /\ monitor[e] \in {"new", "loop", "closing", "dead"} => ~record[e].over /\ ~stored[e].over
  /\ monitor[e] = "closing" => record[e].status \in Final
  /\ monitor[e] = "evidence" => host[e] \in {"gone", "stuck"} /\ ~stored[e].over

\* A stored result is the one in memory.
Same(e) == stored[e].over =>
  record[e].over /\ record[e].status = stored[e].status /\ record[e].stopped = stored[e].stopped

RecordSound(e) == Truthful(record[e], e) /\ Truthful(stored[e], e) /\ NotYet(e) /\ Following(e) /\ Same(e)

\* A handler that ends what a monitor never began finds no other result there.
HandlerSound(h) == handler[h].pc \in {"waits", "closes"} =>
  LET e == handler[h].at
  IN  /\ e \in Execution
      /\ handler[h].on = "monitor" => monitor[e] # "none"
      /\ handler[h].pc = "closes" =>
           /\ handler[h].on = "monitor"
           /\ \/ monitor[e] = "dead"
              \/ monitor[e] = "over" /\ stored[e].over /\ stored[e].status = "cancelled" /\ stored[e].stopped

WriterSound(w) == writer[w].pc \in {"waits"} \cup InFlight => writer[w].at \in Execution

Sound == /\ \A e \in Execution : RecordSound(e)
         /\ \A h \in Handler : HandlerSound(h)
         /\ \A w \in Writer : WriterSound(w)

IInv == TypeOK /\ IsFiniteSet(slots) /\ SlotLimit /\ Sound

-----------------------------------------------------------------------------
(* Every action keeps the invariant. *)

\* The limits when no slot is taken, for executions that keep their place or
\* lose their slot.
LEMMA FewerSlots ==
  ASSUME IInv, slots' \subseteq slots, \A e \in slots' : starter'[e] \in InStart \/ monitor'[e] \notin {"none", "over"}
  PROVE  IsFiniteSet(slots)' /\ SlotLimit'
<1>1. IsFiniteSet(slots') /\ Cardinality(slots') <= Cardinality(slots) /\ Cardinality(slots) \in Nat /\ Cardinality(slots') \in Nat
  BY FS_Subset, FS_CardinalityType DEF IInv
<1>2. \A e \in slots' : Cardinality(InWorkspaceOf(e)') <= PerWorkspace
  <2> TAKE e \in slots'
  <2>1. InWorkspaceOf(e)' \subseteq InWorkspaceOf(e) /\ InWorkspaceOf(e) \subseteq slots BY DEF InWorkspaceOf
  <2>2. IsFiniteSet(InWorkspaceOf(e)) BY <2>1, FS_Subset DEF IInv
  <2>3. /\ Cardinality(InWorkspaceOf(e)') <= Cardinality(InWorkspaceOf(e))
        /\ Cardinality(InWorkspaceOf(e)) \in Nat /\ Cardinality(InWorkspaceOf(e)') \in Nat
    BY <2>1, <2>2, FS_Subset, FS_CardinalityType
  <2>4. Cardinality(InWorkspaceOf(e)) <= PerWorkspace BY DEF IInv, SlotLimit
  <2> QED BY <2>3, <2>4, BoundAssumption
<1>3. Cardinality(slots) <= Slots BY DEF IInv, SlotLimit
<1>4. Cardinality(slots') <= Slots BY <1>1, <1>3, BoundAssumption
<1> QED BY <1>1, <1>2, <1>4 DEF SlotLimit

\* A writer fails, or goes on with the execution that it has.
WritersGoOn == \E w \in Writer :
  \/ writer' = [writer EXCEPT ![w] = Failed]
  \/ /\ writer[w].pc \in {"waits"} \cup InFlight
     /\ \E p \in InFlight \cup {"answered"} : writer' = [writer EXCEPT ![w].pc = p]

LEMMA WritersTyped ==
  ASSUME IInv, WritersGoOn
  PROVE  writer' \in [Writer -> Writes] /\ \A w \in Writer : WriterSound(w)'
<1>1. Failed \in Writes /\ Failed.pc = "failed" BY DEF Failed, NoWrite, Writes
<1>2. PICK w \in Writer : \/ writer' = [writer EXCEPT ![w] = Failed]
                         \/ /\ writer[w].pc \in {"waits"} \cup InFlight
                            /\ \E p \in InFlight \cup {"answered"} : writer' = [writer EXCEPT ![w].pc = p]
  BY DEF WritersGoOn
<1>3. CASE writer' = [writer EXCEPT ![w] = Failed]
  <2>1. writer' \in [Writer -> Writes] BY <1>1, <1>3 DEF IInv, TypeOK
  <2>2. \A v \in Writer : v # w => writer'[v] = writer[v] BY <1>3 DEF IInv, TypeOK
  <2>3. writer'[w].pc = "failed" BY <1>1, <1>3 DEF IInv, TypeOK
  <2> QED BY <2>1, <2>2, <2>3 DEF IInv, Sound, WriterSound, InFlight
<1>4. ASSUME writer[w].pc \in {"waits"} \cup InFlight,
             NEW p \in InFlight \cup {"answered"}, writer' = [writer EXCEPT ![w].pc = p]
      PROVE  writer' \in [Writer -> Writes] /\ \A v \in Writer : WriterSound(v)'
  <2>1. [writer[w] EXCEPT !.pc = p] \in Writes BY DEF IInv, TypeOK, Writes
  <2>2. writer' \in [Writer -> Writes] BY <1>4, <2>1 DEF IInv, TypeOK
  <2>3. \A v \in Writer : writer'[v].at = writer[v].at /\ (v # w => writer'[v] = writer[v])
    BY <1>4 DEF IInv, TypeOK, Writes
  <2> QED BY <1>4, <2>2, <2>3 DEF IInv, Sound, WriterSound
<1> QED BY <1>2, <1>3, <1>4

LEMMA OnlyWriters ==
  ASSUME IInv, WritersGoOn, UNCHANGED <<authVars, slots, execVars, dataVars, handler, faults>>
  PROVE  IInv'
<1> USE DEF authVars, execVars, dataVars
<1>1. writer' \in [Writer -> Writes] /\ \A w \in Writer : WriterSound(w)' BY WritersTyped
<1>2. TypeOK' BY <1>1 DEF IInv, TypeOK
<1>3. SlotLimit' BY DEF IInv, SlotLimit, InWorkspaceOf
<1>4. (\A e \in Execution : RecordSound(e)') /\ (\A h \in Handler : HandlerSound(h)')
  BY DEF IInv, Sound, RecordSound, Truthful, NotYet, Following, Same, HandlerSound
<1> QED BY <1>1, <1>2, <1>3, <1>4 DEF IInv, Sound

LEMMA SendWriteKeeps == ASSUME IInv, NEW w \in Writer, SendWrite(w) PROVE IInv'
BY OnlyWriters DEF SendWrite, WritersGoOn, InFlight

LEMMA WriteFailsKeeps == ASSUME IInv, NEW w \in Writer, WriteFails(w) PROVE IInv'
BY OnlyWriters DEF WriteFails, WritersGoOn

LEMMA HostTakesWriteKeeps == ASSUME IInv, NEW w \in Writer, HostTakesWrite(w) PROVE IInv'
BY OnlyWriters DEF HostTakesWrite, WritersGoOn, InFlight

LEMMA WriteAnsweredKeeps == ASSUME IInv, NEW w \in Writer, WriteAnswered(w) PROVE IInv'
<1> DEFINE e == writer[w].at
<1> USE DEF authVars, execVars, dataVars
<1>1. writer' = [writer EXCEPT ![w].pc = "answered"] /\ writer[w].pc = "taken" BY DEF WriteAnswered
<1>2. e \in Execution BY <1>1 DEF IInv, Sound, WriterSound, InFlight
<1>3. writer' \in [Writer -> Writes] /\ \A v \in Writer : WriterSound(v)'
  BY <1>1, WritersTyped DEF WritersGoOn, InFlight
<1>4. PICK eof \in BOOLEAN : record' = [record EXCEPT ![e].ver = @ + 1, ![e].stdin = ~eof] BY DEF WriteAnswered
<1>5. /\ host[e] \in {"busy", "ended", "leaving"} /\ stored' = [stored EXCEPT ![e] = record'[e]]
      /\ UNCHANGED <<closed, lost, stale, revoked, slots, starter, cut, asked, monitor, host, handler, faults>>
  BY DEF WriteAnswered
<1> HIDE DEF e
<1>6. [record[e] EXCEPT !.ver = @ + 1, !.stdin = ~eof] \in Records
  <2>1. record[e] \in Records /\ record[e].ver + 1 \in Nat BY <1>2 DEF IInv, TypeOK, Records
  <2> QED BY <2>1 DEF Records
<1>7. record' \in [Execution -> Records] /\ stored' \in [Execution -> Records]
  <2>1. record' \in [Execution -> Records] BY <1>2, <1>4, <1>6 DEF IInv, TypeOK
  <2> QED BY <1>2, <1>5, <2>1 DEF IInv, TypeOK
<1>8. /\ \A x \in Execution : /\ x # e => stored'[x] = stored[x]
                             /\ record'[x].status = record[x].status /\ record'[x].over = record[x].over
                             /\ record'[x].stopped = record[x].stopped
      /\ stored'[e] = record'[e]
  BY <1>2, <1>4, <1>5, <1>6 DEF IInv, TypeOK, Records
<1>9. TypeOK' BY <1>3, <1>5, <1>7 DEF IInv, TypeOK
<1>10. SlotLimit' BY <1>5 DEF IInv, SlotLimit, InWorkspaceOf
<1>11. \A x \in Execution : RecordSound(x)'
  BY <1>2, <1>5, <1>8 DEF IInv, Sound, RecordSound, Truthful, NotYet, Following, Same
<1>12. \A h \in Handler : HandlerSound(h)'
  <2> SUFFICES ASSUME NEW h \in Handler PROVE HandlerSound(h)' OBVIOUS
  <2>1. HandlerSound(h) BY DEF IInv, Sound
  <2>2. RecordSound(handler[h].at) \/ handler[h].at \notin Execution BY DEF IInv, Sound
  <2> QED BY <1>5, <1>8, <2>1, <2>2 DEF HandlerSound, RecordSound, Same
<1> QED BY <1>3, <1>5, <1>9, <1>10, <1>11, <1>12 DEF IInv, Sound

LEMMA StartKeeps == ASSUME IInv, NEW e \in Execution, Start(e) PROVE IInv'
<1> USE DEF Start, authVars, execVars, dataVars
<1>1. TypeOK' BY BoundAssumption DEF IInv, TypeOK, CallPlaces, MonitorPlaces, InStart, Alive
<1>2. IsFiniteSet(slots)' /\ SlotLimit' BY FewerSlots DEF IInv, TypeOK, SlotLimit, InStart
<1>3. \A x \in Execution : RecordSound(x)'
  BY DEF IInv, TypeOK, Sound, RecordSound, Truthful, NotYet, Following, Same, Final, Active, InStart, CallPlaces, MonitorPlaces, Records
<1>4. \A h \in Handler : HandlerSound(h)'
  BY DEF IInv, TypeOK, Sound, HandlerSound, RecordSound, NotYet, Following, InStart
<1>5. \A w \in Writer : WriterSound(w)' BY DEF IInv, Sound, WriterSound
<1> QED BY <1>1, <1>2, <1>3, <1>4, <1>5 DEF IInv, Sound

\* A slot is taken within the limits.
LEMMA TakeSlotKeeps ==
  ASSUME IInv, NEW e \in Execution, starter[e] \in {"prepare", "queued"}, TakeSlot(e),
         UNCHANGED <<authVars, cut, asked, monitor, handler, writer, faults>>
  PROVE  IInv'
<1> USE DEF authVars, dataVars
<1>1. CASE ~HasRoom(e)
  <2>1. /\ starter' = [starter EXCEPT ![e] = "done"]
        /\ UNCHANGED <<slots, record, stored, host>>
    BY <1>1 DEF TakeSlot
  <2>2. starter' \in [Execution -> CallPlaces] BY <2>1 DEF IInv, TypeOK, CallPlaces
  <2>3. TypeOK' BY <2>1, <2>2 DEF IInv, TypeOK
  <2>4. IsFiniteSet(slots)' /\ SlotLimit' BY <2>1, FewerSlots DEF IInv, TypeOK, SlotLimit, InStart
  <2>5. \A x \in Execution : RecordSound(x)'
    BY <2>1 DEF IInv, TypeOK, Sound, RecordSound, Truthful, NotYet, Following, Same
  <2>6. (\A h \in Handler : HandlerSound(h)') /\ (\A w \in Writer : WriterSound(w)')
    BY <2>1 DEF IInv, Sound, HandlerSound, WriterSound
  <2> QED BY <2>3, <2>4, <2>5, <2>6 DEF IInv, Sound
<1>2. CASE HasRoom(e)
  <2>1. /\ slots' = slots \cup {e} /\ starter' = [starter EXCEPT ![e] = "handshake"]
        /\ record' = [record EXCEPT ![e] = NewRecord] /\ stored' = [stored EXCEPT ![e] = NewRecord]
        /\ host' = [host EXCEPT ![e] = "up"]
    BY <1>2 DEF TakeSlot
  <2>2. NewRecord \in Records BY DEF NewRecord, Records, Active
  <2>3. TypeOK'
    <3>1. record' \in [Execution -> Records] /\ stored' \in [Execution -> Records] BY <2>1, <2>2 DEF IInv, TypeOK
    <3> QED BY <2>1, <3>1 DEF IInv, TypeOK, CallPlaces, InStart, Alive
  <2>4. IsFiniteSet(slots)' BY <2>1, FS_AddElement DEF IInv
  <2>5. Cardinality(slots') <= Slots
    <3>1. Cardinality(slots) < Slots BY <1>2 DEF HasRoom
    <3>2. Cardinality(slots) \in Nat /\ Cardinality(slots') \in {Cardinality(slots), Cardinality(slots) + 1}
      BY <2>1, FS_AddElement, FS_CardinalityType DEF IInv
    <3> QED BY <3>1, <3>2, BoundAssumption
  <2>6. \A x \in slots' : Cardinality(InWorkspaceOf(x)') <= PerWorkspace
    <3> SUFFICES ASSUME NEW x \in slots' PROVE Cardinality(InWorkspaceOf(x)') <= PerWorkspace OBVIOUS
    <3> DEFINE S == {s \in slots : WorkspaceOf[RunOf[s]] = WorkspaceOf[RunOf[x]]}
    <3>1. IsFiniteSet(S) BY FS_Subset DEF IInv
    <3>2. CASE WorkspaceOf[RunOf[e]] = WorkspaceOf[RunOf[x]]
      <4>1. InWorkspaceOf(x)' = S \cup {e} BY <2>1, <3>2 DEF InWorkspaceOf
      <4>2. Cardinality(S) < PerWorkspace BY <1>2, <3>2 DEF HasRoom, InWorkspaceOf
      <4>3. Cardinality(S) \in Nat /\ Cardinality(S \cup {e}) \in {Cardinality(S), Cardinality(S) + 1}
        BY <3>1, FS_AddElement, FS_CardinalityType
      <4> QED BY <4>1, <4>2, <4>3, BoundAssumption
    <3>3. CASE WorkspaceOf[RunOf[e]] # WorkspaceOf[RunOf[x]]
      <4>1. InWorkspaceOf(x)' = S /\ S = InWorkspaceOf(x) /\ x \in slots BY <2>1, <3>3 DEF InWorkspaceOf
      <4> QED BY <4>1 DEF IInv, SlotLimit
    <3> QED BY <3>2, <3>3
  <2>7. \A x \in slots' : starter'[x] \in InStart \/ monitor'[x] \notin {"none", "over"}
    BY <2>1 DEF IInv, TypeOK, SlotLimit, InStart
  <2>8. monitor[e] = "none"
    BY DEF IInv, Sound, RecordSound, NotYet
  <2>9. \A x \in Execution : RecordSound(x)'
    <3> SUFFICES ASSUME NEW x \in Execution PROVE RecordSound(x)' OBVIOUS
    <3>1. CASE x = e
      BY <2>1, <2>8, <3>1 DEF IInv, TypeOK, RecordSound, Truthful, NotYet, Following, Same, NewRecord
    <3>2. CASE x # e
      BY <2>1, <3>2 DEF IInv, TypeOK, Sound, RecordSound, Truthful, NotYet, Following, Same
    <3> QED BY <3>1, <3>2
  <2>10. \A h \in Handler : HandlerSound(h)'
    BY <2>1, <2>8 DEF IInv, TypeOK, Sound, HandlerSound
  <2>11. \A w \in Writer : WriterSound(w)' BY DEF IInv, Sound, WriterSound
  <2> QED BY <2>3, <2>4, <2>5, <2>6, <2>7, <2>9, <2>10, <2>11 DEF IInv, Sound, SlotLimit
<1> QED BY <1>1, <1>2

LEMMA AdmitKeeps == ASSUME IInv, NEW e \in Execution, Admit(e) PROVE IInv'
BY TakeSlotKeeps DEF Admit

LEMMA ArriveKeeps == ASSUME IInv, NEW e \in Execution, Arrive(e) PROVE IInv'
<1>1. CASE TakeSlot(e) BY <1>1, TakeSlotKeeps DEF Arrive
<1>2. ASSUME NEW p \in {"done", "queued"}, starter' = [starter EXCEPT ![e] = p], UNCHANGED <<slots, dataVars>>
      PROVE  IInv'
  <2> USE DEF authVars, dataVars
  <2>1. starter[e] = "prepare" /\ UNCHANGED <<closed, lost, stale, revoked, cut, asked, monitor, handler, writer, faults>> BY DEF Arrive
  <2>2. TypeOK' BY <1>2, <2>1 DEF IInv, TypeOK, CallPlaces
  <2>3. IsFiniteSet(slots)' /\ SlotLimit' BY <1>2, <2>1, FewerSlots DEF IInv, TypeOK, SlotLimit, InStart
  <2>4. \A x \in Execution : RecordSound(x)'
    BY <1>2, <2>1 DEF IInv, TypeOK, Sound, RecordSound, Truthful, NotYet, Following, Same
  <2>5. (\A h \in Handler : HandlerSound(h)') /\ (\A w \in Writer : WriterSound(w)')
    BY <1>2, <2>1 DEF IInv, Sound, HandlerSound, WriterSound
  <2> QED BY <2>2, <2>3, <2>4, <2>5 DEF IInv, Sound
<1> QED BY <1>1, <1>2 DEF Arrive

LEMMA HandshakeKeeps == ASSUME IInv, NEW e \in Execution, Handshake(e) PROVE IInv'
<1> USE DEF Handshake, Leaving, authVars, execVars, dataVars
<1>1. TypeOK' BY BoundAssumption DEF IInv, TypeOK, CallPlaces, MonitorPlaces, InStart, Alive
<1>2. IsFiniteSet(slots)' /\ SlotLimit' BY FewerSlots DEF IInv, TypeOK, SlotLimit, InStart
<1>3. \A x \in Execution : RecordSound(x)'
  BY DEF IInv, TypeOK, Sound, RecordSound, Truthful, NotYet, Following, Same, Final, Active, InStart, CallPlaces, MonitorPlaces, Records
<1>4. \A h \in Handler : HandlerSound(h)'
  BY DEF IInv, TypeOK, Sound, HandlerSound, RecordSound, NotYet, Following, InStart
<1>5. \A w \in Writer : WriterSound(w)' BY DEF IInv, Sound, WriterSound
<1> QED BY <1>1, <1>2, <1>3, <1>4, <1>5 DEF IInv, Sound

LEMMA StartedKeeps == ASSUME IInv, NEW e \in Execution, Started(e) PROVE IInv'
<1> USE DEF Started, authVars, execVars, dataVars
<1>1. TypeOK'
  <2>1. record[e] \in Records /\ record[e].ver + 1 \in Nat BY DEF IInv, TypeOK, Records
  <2>2. [record[e] EXCEPT !.status = "running", !.ver = 2] \in Records BY <2>1 DEF Records, Active, Final
  <2>3. record' \in [Execution -> Records] BY <2>2 DEF IInv, TypeOK
  <2>4. stored' \in [Execution -> Records] BY <2>3 DEF IInv, TypeOK
  <2> QED BY <2>3, <2>4, BoundAssumption DEF IInv, TypeOK, CallPlaces, MonitorPlaces, Alive, InStart
<1>2. IsFiniteSet(slots)' /\ SlotLimit' BY FewerSlots DEF IInv, TypeOK, SlotLimit, InStart
<1>3. \A x \in Execution : RecordSound(x)'
  BY DEF IInv, TypeOK, Sound, RecordSound, Truthful, NotYet, Following, Same, Final, Active, InStart, CallPlaces, MonitorPlaces, Records
<1>4. \A h \in Handler : HandlerSound(h)'
  BY DEF IInv, TypeOK, Sound, HandlerSound, RecordSound, NotYet, Following, InStart
<1>5. \A w \in Writer : WriterSound(w)' BY DEF IInv, Sound, WriterSound
<1> QED BY <1>1, <1>2, <1>3, <1>4, <1>5 DEF IInv, Sound

LEMMA StartFailsKeeps == ASSUME IInv, NEW e \in Execution, StartFails(e) PROVE IInv'
<1> USE DEF StartFails, Leaving, Fault, authVars, execVars, dataVars
<1>1. TypeOK' BY BoundAssumption DEF IInv, TypeOK, CallPlaces, MonitorPlaces, InStart, Alive
<1>2. IsFiniteSet(slots)' /\ SlotLimit' BY FewerSlots DEF IInv, TypeOK, SlotLimit, InStart
<1>3. \A x \in Execution : RecordSound(x)'
  BY DEF IInv, TypeOK, Sound, RecordSound, Truthful, NotYet, Following, Same, Final, Active, InStart, CallPlaces, MonitorPlaces, Records
<1>4. \A h \in Handler : HandlerSound(h)'
  BY DEF IInv, TypeOK, Sound, HandlerSound, RecordSound, NotYet, Following, InStart
<1>5. \A w \in Writer : WriterSound(w)' BY DEF IInv, Sound, WriterSound
<1> QED BY <1>1, <1>2, <1>3, <1>4, <1>5 DEF IInv, Sound

LEMMA CleanedUpKeeps == ASSUME IInv, NEW e \in Execution, CleanedUp(e) PROVE IInv'
<1> USE DEF CleanedUp, LosesSlot, authVars, execVars, dataVars
<1>1. TypeOK'
  <2>1. record[e] \in Records /\ record[e].ver + 1 \in Nat BY DEF IInv, TypeOK, Records
  <2>2. [record[e] EXCEPT !.status = "failed", !.stopped = TRUE, !.over = TRUE, !.ver = 2] \in Records BY <2>1 DEF Records, Active, Final
  <2>3. record' \in [Execution -> Records] BY <2>2 DEF IInv, TypeOK
  <2>4. stored' \in [Execution -> Records] BY <2>3 DEF IInv, TypeOK
  <2> QED BY <2>3, <2>4, BoundAssumption DEF IInv, TypeOK, CallPlaces, MonitorPlaces, Alive, InStart
<1>2. IsFiniteSet(slots)' /\ SlotLimit' BY FewerSlots DEF IInv, TypeOK, SlotLimit, InStart
<1>3. \A x \in Execution : RecordSound(x)'
  BY DEF IInv, TypeOK, Sound, RecordSound, Truthful, NotYet, Following, Same, Final, Active, InStart, CallPlaces, MonitorPlaces, Records
<1>4. \A h \in Handler : HandlerSound(h)'
  BY DEF IInv, TypeOK, Sound, HandlerSound, RecordSound, NotYet, Following, InStart
<1>5. \A w \in Writer : WriterSound(w)' BY DEF IInv, Sound, WriterSound
<1> QED BY <1>1, <1>2, <1>3, <1>4, <1>5 DEF IInv, Sound

LEMMA CleanUpFailsKeeps == ASSUME IInv, NEW e \in Execution, CleanUpFails(e) PROVE IInv'
<1> USE DEF CleanUpFails, LosesSlot, Fault, authVars, execVars, dataVars
<1>1. TypeOK' BY BoundAssumption DEF IInv, TypeOK, CallPlaces, MonitorPlaces, InStart, Alive
<1>2. IsFiniteSet(slots)' /\ SlotLimit' BY FewerSlots DEF IInv, TypeOK, SlotLimit, InStart
<1>3. \A x \in Execution : RecordSound(x)'
  BY DEF IInv, TypeOK, Sound, RecordSound, Truthful, NotYet, Following, Same, Final, Active, InStart, CallPlaces, MonitorPlaces, Records
<1>4. \A h \in Handler : HandlerSound(h)'
  BY DEF IInv, TypeOK, Sound, HandlerSound, RecordSound, NotYet, Following, InStart
<1>5. \A w \in Writer : WriterSound(w)' BY DEF IInv, Sound, WriterSound
<1> QED BY <1>1, <1>2, <1>3, <1>4, <1>5 DEF IInv, Sound

LEMMA TakeCutKeeps == ASSUME IInv, NEW e \in Execution, TakeCut(e) PROVE IInv'
<1> USE DEF TakeCut, LosesSlot, Leaving, authVars, execVars, dataVars
<1>1. TypeOK' BY BoundAssumption DEF IInv, TypeOK, CallPlaces, MonitorPlaces, InStart, Alive
<1>2. IsFiniteSet(slots)' /\ SlotLimit' BY FewerSlots DEF IInv, TypeOK, SlotLimit, InStart
<1>3. \A x \in Execution : RecordSound(x)'
  BY DEF IInv, TypeOK, Sound, RecordSound, Truthful, NotYet, Following, Same, Final, Active, InStart, CallPlaces, MonitorPlaces, Records
<1>4. \A h \in Handler : HandlerSound(h)'
  BY DEF IInv, TypeOK, Sound, HandlerSound, RecordSound, NotYet, Following, InStart
<1>5. \A w \in Writer : WriterSound(w)' BY DEF IInv, Sound, WriterSound
<1> QED BY <1>1, <1>2, <1>3, <1>4, <1>5 DEF IInv, Sound

LEMMA MonitorBeginsKeeps == ASSUME IInv, NEW e \in Execution, MonitorBegins(e) PROVE IInv'
<1> USE DEF MonitorBegins, authVars, execVars, dataVars
<1>1. TypeOK' BY BoundAssumption DEF IInv, TypeOK, CallPlaces, MonitorPlaces, InStart, Alive
<1>2. IsFiniteSet(slots)' /\ SlotLimit' BY FewerSlots DEF IInv, TypeOK, SlotLimit, InStart
<1>3. \A x \in Execution : RecordSound(x)'
  BY DEF IInv, TypeOK, Sound, RecordSound, Truthful, NotYet, Following, Same, Final, Active, InStart, CallPlaces, MonitorPlaces, Records
<1>4. \A h \in Handler : HandlerSound(h)'
  BY DEF IInv, TypeOK, Sound, HandlerSound, RecordSound, NotYet, Following, InStart
<1>5. \A w \in Writer : WriterSound(w)' BY DEF IInv, Sound, WriterSound
<1> QED BY <1>1, <1>2, <1>3, <1>4, <1>5 DEF IInv, Sound

LEMMA SeesStopKeeps == ASSUME IInv, NEW e \in Execution, SeesStop(e) PROVE IInv'
<1> USE DEF SeesStop, Leave, Leaving, authVars, execVars, dataVars
<1>1. TypeOK'
  <2>1. record[e] \in Records /\ record[e].ver + 1 \in Nat BY DEF IInv, TypeOK, Records
  <2>2. [record[e] EXCEPT !.status = "cancelled"] \in Records BY <2>1 DEF Records, Active, Final
  <2>3. record' \in [Execution -> Records] BY <2>2 DEF IInv, TypeOK
  <2>4. stored' \in [Execution -> Records] BY <2>3 DEF IInv, TypeOK
  <2> QED BY <2>3, <2>4, BoundAssumption DEF IInv, TypeOK, CallPlaces, MonitorPlaces, Alive, InStart
<1>2. IsFiniteSet(slots)' /\ SlotLimit' BY FewerSlots DEF IInv, TypeOK, SlotLimit, InStart
<1>3. \A x \in Execution : RecordSound(x)'
  BY DEF IInv, TypeOK, Sound, RecordSound, Truthful, NotYet, Following, Same, Final, Active, InStart, CallPlaces, MonitorPlaces, Records
<1>4. \A h \in Handler : HandlerSound(h)'
  BY DEF IInv, TypeOK, Sound, HandlerSound, RecordSound, NotYet, Following, InStart
<1>5. \A w \in Writer : WriterSound(w)' BY DEF IInv, Sound, WriterSound
<1> QED BY <1>1, <1>2, <1>3, <1>4, <1>5 DEF IInv, Sound

LEMMA SeesFailureKeeps == ASSUME IInv, NEW e \in Execution, SeesFailure(e) PROVE IInv'
<1> USE DEF SeesFailure, Leave, Leaving, Fault, authVars, execVars, dataVars
<1>1. TypeOK'
  <2>1. record[e] \in Records /\ record[e].ver + 1 \in Nat BY DEF IInv, TypeOK, Records
  <2>2. [record[e] EXCEPT !.status = "unknown"] \in Records BY <2>1 DEF Records, Active, Final
  <2>3. record' \in [Execution -> Records] BY <2>2 DEF IInv, TypeOK
  <2>4. stored' \in [Execution -> Records] BY <2>3 DEF IInv, TypeOK
  <2> QED BY <2>3, <2>4, BoundAssumption DEF IInv, TypeOK, CallPlaces, MonitorPlaces, Alive, InStart
<1>2. IsFiniteSet(slots)' /\ SlotLimit' BY FewerSlots DEF IInv, TypeOK, SlotLimit, InStart
<1>3. \A x \in Execution : RecordSound(x)'
  BY DEF IInv, TypeOK, Sound, RecordSound, Truthful, NotYet, Following, Same, Final, Active, InStart, CallPlaces, MonitorPlaces, Records
<1>4. \A h \in Handler : HandlerSound(h)'
  BY DEF IInv, TypeOK, Sound, HandlerSound, RecordSound, NotYet, Following, InStart
<1>5. \A w \in Writer : WriterSound(w)' BY DEF IInv, Sound, WriterSound
<1> QED BY <1>1, <1>2, <1>3, <1>4, <1>5 DEF IInv, Sound

LEMMA SeesEndKeeps == ASSUME IInv, NEW e \in Execution, SeesEnd(e) PROVE IInv'
<1> USE DEF SeesEnd, Leave, Leaving, authVars, execVars, dataVars
<1>1. TypeOK'
  <2>1. record[e] \in Records /\ record[e].ver + 1 \in Nat BY DEF IInv, TypeOK, Records
  <2>2. [record[e] EXCEPT !.status = "exited"] \in Records BY <2>1 DEF Records, Active, Final
  <2>3. record' \in [Execution -> Records] BY <2>2 DEF IInv, TypeOK
  <2>4. stored' \in [Execution -> Records] BY <2>3 DEF IInv, TypeOK
  <2> QED BY <2>3, <2>4, BoundAssumption DEF IInv, TypeOK, CallPlaces, MonitorPlaces, Alive, InStart
<1>2. IsFiniteSet(slots)' /\ SlotLimit' BY FewerSlots DEF IInv, TypeOK, SlotLimit, InStart
<1>3. \A x \in Execution : RecordSound(x)'
  BY DEF IInv, TypeOK, Sound, RecordSound, Truthful, NotYet, Following, Same, Final, Active, InStart, CallPlaces, MonitorPlaces, Records
<1>4. \A h \in Handler : HandlerSound(h)'
  BY DEF IInv, TypeOK, Sound, HandlerSound, RecordSound, NotYet, Following, InStart
<1>5. \A w \in Writer : WriterSound(w)' BY DEF IInv, Sound, WriterSound
<1> QED BY <1>1, <1>2, <1>3, <1>4, <1>5 DEF IInv, Sound

LEMMA MonitorClosesKeeps == ASSUME IInv, NEW e \in Execution, MonitorCloses(e) PROVE IInv'
<1> USE DEF authVars, execVars, dataVars
<1>1. /\ monitor[e] = "closing" /\ monitor' = [monitor EXCEPT ![e] = "evidence"]
      /\ UNCHANGED <<closed, lost, stale, revoked, slots, starter, cut, asked, stored, handler, writer>>
  BY DEF MonitorCloses
<1>2. record[e] \in Records /\ record[e].ver + 1 \in Nat BY DEF IInv, TypeOK, Records
<1>3. PICK r \in Records, t \in {"gone", "stuck"} :
        /\ record' = [record EXCEPT ![e] = r] /\ host' = [host EXCEPT ![e] = t] /\ faults' \in 0..MaxFault
        /\ r.over
        /\ \/ t = "gone" /\ r.stopped /\ r.status = record[e].status
           \/ t = "stuck" /\ r.stopped = record[e].stopped /\ r.status = "unknown" /\ host[e] = "leaving"
  <2>1. CASE /\ host' = [host EXCEPT ![e] = "gone"]
             /\ record' = [record EXCEPT ![e].stopped = TRUE, ![e].over = TRUE, ![e].stdin = FALSE, ![e].ver = @ + 1]
             /\ UNCHANGED faults
    <3> DEFINE r == [record[e] EXCEPT !.stopped = TRUE, !.over = TRUE, !.stdin = FALSE, !.ver = @ + 1]
    <3>1. r \in Records /\ r.stopped /\ r.over /\ r.status = record[e].status BY <1>2 DEF Records
    <3>2. record' = [record EXCEPT ![e] = r] BY <2>1 DEF IInv, TypeOK
    <3> HIDE DEF r
    <3> QED BY <2>1, <3>1, <3>2 DEF IInv, TypeOK
  <2>2. CASE /\ host[e] = "leaving" /\ Fault /\ host' = [host EXCEPT ![e] = "stuck"]
             /\ record' = [record EXCEPT ![e].status = "unknown", ![e].over = TRUE, ![e].stdin = FALSE, ![e].ver = @ + 1]
    <3> DEFINE r == [record[e] EXCEPT !.status = "unknown", !.over = TRUE, !.stdin = FALSE, !.ver = @ + 1]
    <3>1. r \in Records /\ r.over /\ r.status = "unknown" /\ r.stopped = record[e].stopped BY <1>2 DEF Records, Final
    <3>2. record' = [record EXCEPT ![e] = r] BY <2>2 DEF IInv, TypeOK
    <3>3. faults' \in 0..MaxFault BY <2>2, BoundAssumption DEF Fault, IInv, TypeOK
    <3> HIDE DEF r
    <3> QED BY <2>2, <3>1, <3>2, <3>3
  <2> QED BY <2>1, <2>2 DEF MonitorCloses
<1>5. record' \in [Execution -> Records] BY <1>3 DEF IInv, TypeOK
<1>6. /\ \A x \in Execution : x # e => record'[x] = record[x] /\ host'[x] = host[x]
      /\ record'[e] = r /\ host'[e] = t
  BY <1>3 DEF IInv, TypeOK
<1>7. TypeOK' BY <1>1, <1>3, <1>5 DEF IInv, TypeOK, MonitorPlaces, Alive
<1>8. IsFiniteSet(slots)' /\ SlotLimit' BY <1>1, FewerSlots DEF IInv, TypeOK, SlotLimit
<1>9. \A x \in Execution : RecordSound(x)'
  <2> SUFFICES ASSUME NEW x \in Execution PROVE RecordSound(x)' OBVIOUS
  <2>1. RecordSound(x) BY DEF IInv, Sound
  <2>2. CASE x # e
    BY <1>1, <1>6, <2>1, <2>2 DEF IInv, TypeOK, RecordSound, Truthful, NotYet, Following, Same
  <2>3. CASE x = e
    BY <1>1, <1>3, <1>6, <2>1, <2>3 DEF IInv, TypeOK, RecordSound, Truthful, NotYet, Following, Same, Final
  <2> QED BY <2>2, <2>3
<1>10. (\A h \in Handler : HandlerSound(h)') /\ (\A w \in Writer : WriterSound(w)')
  BY <1>1 DEF IInv, TypeOK, Sound, HandlerSound, WriterSound
<1> QED BY <1>7, <1>8, <1>9, <1>10 DEF IInv, Sound

LEMMA MonitorSavesKeeps == ASSUME IInv, NEW e \in Execution, MonitorSaves(e) PROVE IInv'
<1> USE DEF authVars, execVars, dataVars
<1>1. /\ monitor[e] = "evidence" /\ monitor' = [monitor EXCEPT ![e] = "over"]
      /\ slots' = slots \ {e} /\ asked' = asked \ {e}
      /\ UNCHANGED <<lost, stale, revoked, starter, cut, host, handler, writer>>
  BY DEF MonitorSaves, LosesSlot
<1>2. /\ record' \in {record, [record EXCEPT ![e].status = "unknown"]}
      /\ stored' \in {stored, [stored EXCEPT ![e] = record'[e]]}
      /\ closed' \in BOOLEAN /\ faults' \in 0..MaxFault
  <2>1. faults \in 0..MaxFault /\ closed \in BOOLEAN BY DEF IInv, TypeOK
  <2>2. CASE stored' = [stored EXCEPT ![e] = record[e]] /\ UNCHANGED <<record, closed, faults>>
    BY <2>1, <2>2
  <2>3. CASE /\ Fault /\ record' = [record EXCEPT ![e].status = "unknown"]
             /\ \/ stored' = [stored EXCEPT ![e] = record'[e]] /\ UNCHANGED closed
                \/ closed' = TRUE /\ UNCHANGED stored
    <3>1. faults' \in 0..MaxFault BY <2>1, <2>3, BoundAssumption DEF Fault
    <3> QED BY <2>1, <2>3, <3>1
  <2> QED BY <2>2, <2>3 DEF MonitorSaves
<1>3. record' \in [Execution -> Records] /\ stored' \in [Execution -> Records]
  <2>1. record[e] \in Records /\ [record[e] EXCEPT !.status = "unknown"] \in Records
    BY DEF IInv, TypeOK, Records, Final
  <2>2. record' \in [Execution -> Records] BY <1>2, <2>1 DEF IInv, TypeOK
  <2> QED BY <1>2, <2>2 DEF IInv, TypeOK
<1>4. /\ \A x \in Execution : x # e => record'[x] = record[x] /\ stored'[x] = stored[x]
      /\ record'[e].status \in {record[e].status, "unknown"} /\ record'[e].stopped = record[e].stopped
      /\ record'[e].over = record[e].over /\ stored'[e] \in {stored[e], record'[e]}
  BY <1>2 DEF IInv, TypeOK, Records
<1>5. TypeOK' BY <1>1, <1>2, <1>3 DEF IInv, TypeOK, MonitorPlaces
<1>6. IsFiniteSet(slots)' /\ SlotLimit' BY <1>1, FewerSlots DEF IInv, TypeOK, SlotLimit
<1>7. \A x \in Execution : RecordSound(x)'
  <2> SUFFICES ASSUME NEW x \in Execution PROVE RecordSound(x)' OBVIOUS
  <2>1. RecordSound(x) BY DEF IInv, Sound
  <2>2. CASE x # e
    BY <1>1, <1>4, <2>1, <2>2 DEF IInv, TypeOK, RecordSound, Truthful, NotYet, Following, Same
  <2>3. CASE x = e
    BY <1>1, <1>4, <2>1, <2>3 DEF IInv, TypeOK, RecordSound, Truthful, NotYet, Following, Same, Final
  <2> QED BY <2>2, <2>3
<1>8. (\A h \in Handler : HandlerSound(h)') /\ (\A w \in Writer : WriterSound(w)')
  BY <1>1, <1>4 DEF IInv, TypeOK, Sound, HandlerSound, WriterSound
<1> QED BY <1>5, <1>6, <1>7, <1>8 DEF IInv, Sound

LEMMA HostTakesCommandKeeps == ASSUME IInv, NEW e \in Execution, HostTakesCommand(e) PROVE IInv'
<1> USE DEF HostTakesCommand, HostMoves, authVars, execVars, dataVars
<1>1. TypeOK' BY BoundAssumption DEF IInv, TypeOK, CallPlaces, MonitorPlaces, InStart, Alive
<1>2. IsFiniteSet(slots)' /\ SlotLimit' BY FewerSlots DEF IInv, TypeOK, SlotLimit, InStart
<1>3. \A x \in Execution : RecordSound(x)'
  BY DEF IInv, TypeOK, Sound, RecordSound, Truthful, NotYet, Following, Same, Final, Active, InStart, CallPlaces, MonitorPlaces, Records
<1>4. \A h \in Handler : HandlerSound(h)'
  BY DEF IInv, TypeOK, Sound, HandlerSound, RecordSound, NotYet, Following, InStart
<1>5. \A w \in Writer : WriterSound(w)' BY DEF IInv, Sound, WriterSound
<1> QED BY <1>1, <1>2, <1>3, <1>4, <1>5 DEF IInv, Sound

LEMMA CommandEndsKeeps == ASSUME IInv, NEW e \in Execution, CommandEnds(e) PROVE IInv'
<1> USE DEF CommandEnds, HostMoves, authVars, execVars, dataVars
<1>1. TypeOK' BY BoundAssumption DEF IInv, TypeOK, CallPlaces, MonitorPlaces, InStart, Alive
<1>2. IsFiniteSet(slots)' /\ SlotLimit' BY FewerSlots DEF IInv, TypeOK, SlotLimit, InStart
<1>3. \A x \in Execution : RecordSound(x)'
  BY DEF IInv, TypeOK, Sound, RecordSound, Truthful, NotYet, Following, Same, Final, Active, InStart, CallPlaces, MonitorPlaces, Records
<1>4. \A h \in Handler : HandlerSound(h)'
  BY DEF IInv, TypeOK, Sound, HandlerSound, RecordSound, NotYet, Following, InStart
<1>5. \A w \in Writer : WriterSound(w)' BY DEF IInv, Sound, WriterSound
<1> QED BY <1>1, <1>2, <1>3, <1>4, <1>5 DEF IInv, Sound

LEMMA HostCrashesKeeps == ASSUME IInv, NEW e \in Execution, HostCrashes(e) PROVE IInv'
<1> USE DEF HostCrashes, HostMoves, Fault, authVars, execVars, dataVars
<1>1. TypeOK' BY BoundAssumption DEF IInv, TypeOK, CallPlaces, MonitorPlaces, InStart, Alive
<1>2. IsFiniteSet(slots)' /\ SlotLimit' BY FewerSlots DEF IInv, TypeOK, SlotLimit, InStart
<1>3. \A x \in Execution : RecordSound(x)'
  BY DEF IInv, TypeOK, Sound, RecordSound, Truthful, NotYet, Following, Same, Final, Active, InStart, CallPlaces, MonitorPlaces, Records
<1>4. \A h \in Handler : HandlerSound(h)'
  BY DEF IInv, TypeOK, Sound, HandlerSound, RecordSound, NotYet, Following, InStart
<1>5. \A w \in Writer : WriterSound(w)' BY DEF IInv, Sound, WriterSound
<1> QED BY <1>1, <1>2, <1>3, <1>4, <1>5 DEF IInv, Sound

LEMMA HostLeavesKeeps == ASSUME IInv, NEW e \in Execution, HostLeaves(e) PROVE IInv'
<1> USE DEF HostLeaves, HostMoves, authVars, execVars, dataVars
<1>1. TypeOK' BY BoundAssumption DEF IInv, TypeOK, CallPlaces, MonitorPlaces, InStart, Alive
<1>2. IsFiniteSet(slots)' /\ SlotLimit' BY FewerSlots DEF IInv, TypeOK, SlotLimit, InStart
<1>3. \A x \in Execution : RecordSound(x)'
  BY DEF IInv, TypeOK, Sound, RecordSound, Truthful, NotYet, Following, Same, Final, Active, InStart, CallPlaces, MonitorPlaces, Records
<1>4. \A h \in Handler : HandlerSound(h)'
  BY DEF IInv, TypeOK, Sound, HandlerSound, RecordSound, NotYet, Following, InStart
<1>5. \A w \in Writer : WriterSound(w)' BY DEF IInv, Sound, WriterSound
<1> QED BY <1>1, <1>2, <1>3, <1>4, <1>5 DEF IInv, Sound

-----------------------------------------------------------------------------
(* Handlers. *)

\* What a handler may become while it does not close a host.
Waiting(hd) ==
  /\ hd \in Handles /\ hd.pc # "closes"
  /\ hd.pc = "waits" => hd.at \in Execution /\ (hd.on = "monitor" => monitor[hd.at] # "none")

CutTyped == cut' \in [Execution -> {"none", "sent", "taken"}]

LEMMA OnlyHandlers ==
  ASSUME IInv, NEW h \in Handler, NEW hd, Waiting(hd), handler' = [handler EXCEPT ![h] = hd],
         CutTyped, asked' \subseteq Execution, closed' \in BOOLEAN, lost' \subseteq Run, stale' \subseteq Execution, revoked' \subseteq Execution,
         UNCHANGED <<slots, starter, monitor, dataVars, writer, faults>>
  PROVE  IInv'
<1> USE DEF dataVars
<1>1. handler' \in [Handler -> Handles] BY DEF IInv, TypeOK, Waiting
<1>2. TypeOK' BY <1>1 DEF IInv, TypeOK, CutTyped
<1>3. SlotLimit' BY DEF IInv, SlotLimit, InWorkspaceOf
<1>4. (\A e \in Execution : RecordSound(e)') /\ (\A w \in Writer : WriterSound(w)')
  BY DEF IInv, Sound, RecordSound, Truthful, NotYet, Following, Same, WriterSound
<1>5. \A g \in Handler : HandlerSound(g)'
  <2> SUFFICES ASSUME NEW g \in Handler PROVE HandlerSound(g)' OBVIOUS
  <2>1. CASE g = h
    <3>1. handler'[g] = hd /\ hd.pc # "closes" BY <2>1 DEF IInv, TypeOK, Waiting
    <3> QED BY <3>1 DEF HandlerSound, Waiting
  <2>2. CASE g # h
    <3>1. handler'[g] = handler[g] /\ HandlerSound(g) BY <2>2 DEF IInv, TypeOK, Sound
    <3> QED BY <3>1 DEF HandlerSound
  <2> QED BY <2>1, <2>2
<1> QED BY <1>2, <1>3, <1>4, <1>5 DEF IInv, Sound

LEMMA Cuts ==
  ASSUME IInv
  PROVE  /\ \A S \in SUBSET Execution : Cut(S) \in [Execution -> {"none", "sent", "taken"}]
         /\ \A S \in SUBSET Execution : Published(S) \in [Execution -> {"none", "sent", "taken"}]
  BY DEF IInv, TypeOK, Cut, Published, Starting

LEMMA WaitsFor ==
  ASSUME IInv, NEW hd \in Handles, NEW e \in Execution, NEW rest \in SUBSET Execution
  PROVE  Waiting(WaitFor(hd, e, rest))
<1>1. WaitFor(hd, e, rest) \in Handles BY DEF WaitFor, Handles, HandlerPlaces
<1>2. /\ WaitFor(hd, e, rest).pc = "waits" /\ WaitFor(hd, e, rest).at = e
      /\ WaitFor(hd, e, rest).on = IF monitor[e] = "none" THEN "starter" ELSE "monitor"
  BY DEF WaitFor, Handles
<1> QED BY <1>1, <1>2 DEF Waiting

\* A handler ends its group, or waits for another execution.
Stops(h) == CutTyped /\ \E hd \in Handles : Waiting(hd) /\ handler' = [handler EXCEPT ![h] = hd]

LEMMA GroupEnding ==
  ASSUME IInv, NEW h \in Handler, NEW hd \in Handles, GroupEnds(h, hd)
  PROVE  Stops(h)
<1>1. CutTyped BY Cuts DEF IInv, TypeOK, GroupEnds, CutTools, CutTyped
<1> DEFINE p == IF hd.left = {} THEN "done" ELSE "between"
<1> DEFINE k == IF hd.kind \in {"leave", "close"} THEN hd.kind ELSE "none"
<1> DEFINE new == [Idle EXCEPT !.pc = p, !.left = hd.left, !.kind = k]
<1>2. p \in HandlerPlaces /\ k \in {"none", "one", "pause", "cancel", "leave", "close"} /\ hd.left \in SUBSET Run /\ p \notin {"closes", "waits"}
  BY DEF HandlerPlaces, Handles
<1>3. handler' = [handler EXCEPT ![h] = new] BY DEF GroupEnds
<1>4. new \in Handles /\ new.pc = p
  <2> HIDE DEF p, k
  <2> QED BY <1>2 DEF Idle, Handles
<1> HIDE DEF new, p, k
<1>5. Waiting(new) BY <1>2, <1>4 DEF Waiting
<1> QED BY <1>1, <1>3, <1>4, <1>5 DEF Stops

LEMMA GroupStopping ==
  ASSUME IInv, NEW h \in Handler, NEW hd \in Handles, StopGroup(h, hd)
  PROVE  Stops(h) /\ asked' \subseteq Execution
<1> DEFINE S == Selected(hd)
<1>1. S \subseteq Execution /\ S \subseteq slots /\ asked \subseteq Execution BY DEF IInv, TypeOK, Selected
<1>2. CASE S = {} BY <1>1, <1>2, GroupEnding DEF StopGroup
<1>3. CASE S # {}
  <2>1. PICK e \in S : /\ asked' = asked \cup S
                     /\ cut' = [Published(S) EXCEPT ![e] = IF monitor[e] = "none" THEN "sent" ELSE @]
                     /\ handler' = [handler EXCEPT ![h] = WaitFor(hd, e, S \ {e})]
    BY <1>3 DEF StopGroup
  <2>2. CutTyped BY <1>1, <2>1, Cuts DEF CutTyped
  <2>3. Waiting(WaitFor(hd, e, S \ {e})) BY <1>1, <2>1, WaitsFor
  <2> QED BY <1>1, <2>1, <2>2, <2>3 DEF Stops, Waiting
<1> QED BY <1>2, <1>3

LEMMA NextStopping ==
  ASSUME IInv, NEW h \in Handler, NEW live, live \subseteq slots, NextOf(h, live)
  PROVE  Stops(h) /\ asked' \subseteq Execution
<1> DEFINE S == handler[h].rest \cap live
<1>1. handler[h] \in Handles BY DEF IInv, TypeOK
<1>2. S \subseteq Execution /\ S \subseteq live /\ asked \subseteq Execution BY DEF IInv, TypeOK
<1>3. CASE S = {}
  <2>1. GroupEnds(h, handler[h]) /\ asked' = asked \cap live BY <1>3 DEF NextOf
  <2> QED BY <1>1, <1>2, <2>1, GroupEnding
<1>4. CASE S # {}
  <2>1. PICK e \in S : /\ asked' = (asked \cap live) \cup {e} /\ cut' = Cut(Starting({e}))
                     /\ handler' = [handler EXCEPT ![h] = WaitFor(handler[h], e, S \ {e})]
    BY <1>4 DEF NextOf
  <2>2. CutTyped
    <3>1. Starting({e}) \in SUBSET Execution BY <1>2 DEF Starting
    <3> QED BY <2>1, <3>1, Cuts DEF CutTyped
  <2>3. Waiting(WaitFor(handler[h], e, S \ {e})) BY <1>1, <1>2, <2>1, WaitsFor
  <2> QED BY <1>2, <2>1, <2>2, <2>3 DEF Stops, Waiting
<1> QED BY <1>3, <1>4

LEMMA OnlyStops ==
  ASSUME IInv, NEW h \in Handler, Stops(h), asked' \subseteq Execution,
         closed' \in BOOLEAN, lost' \subseteq Run, stale' \subseteq Execution, revoked' \subseteq Execution,
         UNCHANGED <<slots, starter, monitor, dataVars, writer, faults>>
  PROVE  IInv'
<1>1. PICK hd \in Handles : Waiting(hd) /\ handler' = [handler EXCEPT ![h] = hd] BY DEF Stops, Waiting, CutTyped
<1>2. CutTyped BY DEF Stops
<1> QED BY <1>1, <1>2, OnlyHandlers

LEMMA CancelOneKeeps == ASSUME IInv, NEW h \in Handler, NEW e \in Execution, CancelOne(h, e) PROVE IInv'
<1>1. [Idle EXCEPT !.kind = "one"] \in Handles BY DEF Idle, Handles, HandlerPlaces
<1>2. Waiting(WaitFor([Idle EXCEPT !.kind = "one"], e, {})) BY <1>1, WaitsFor
<1>3. CutTyped
  <2>1. Starting({e}) \in SUBSET Execution BY DEF Starting
  <2>2. cut' = Cut(Starting({e})) BY DEF CancelOne
  <2> QED BY <2>1, <2>2, Cuts DEF CutTyped
<1>4. /\ handler' = [handler EXCEPT ![h] = WaitFor([Idle EXCEPT !.kind = "one"], e, {})] /\ asked' = asked \cup {e}
      /\ UNCHANGED <<authVars, slots, starter, monitor, dataVars, writer, faults>>
  BY DEF CancelOne
<1>5. /\ asked' \subseteq Execution /\ closed' \in BOOLEAN /\ lost' \subseteq Run /\ stale' \subseteq Execution /\ revoked' \subseteq Execution
      /\ UNCHANGED <<slots, starter, monitor, dataVars, writer, faults>>
  BY <1>4 DEF IInv, TypeOK, authVars
<1> QED BY <1>2, <1>3, <1>4, <1>5, OnlyHandlers

LEMMA StopRunKeeps ==
  ASSUME IInv, NEW h \in Handler, NEW r \in Run, NEW kind \in {"pause", "cancel"}, StopRun(h, r, kind) PROVE IInv'
<1>1. [Idle EXCEPT !.kind = kind, !.runs = {r}] \in Handles BY DEF Idle, Handles, HandlerPlaces
<1>2. Stops(h) /\ asked' \subseteq Execution BY <1>1, GroupStopping DEF StopRun
<1>3. /\ closed' \in BOOLEAN /\ lost' \subseteq Run /\ stale' \subseteq Execution /\ revoked' \subseteq Execution
      /\ UNCHANGED <<slots, starter, monitor, dataVars, writer, faults>>
  BY DEF StopRun, StartedIn, IInv, TypeOK
<1> QED BY <1>2, <1>3, OnlyStops

LEMMA LeaveProjectKeeps == ASSUME IInv, NEW h \in Handler, NEW r \in Run, LeaveProject(h, r) PROVE IInv'
<1>1. [Idle EXCEPT !.kind = "leave", !.runs = {r}, !.left = Run \ {r}] \in Handles BY DEF Idle, Handles, HandlerPlaces
<1>2. Stops(h) /\ asked' \subseteq Execution BY <1>1, GroupStopping DEF LeaveProject
<1> QED BY <1>2, OnlyStops DEF LeaveProject, IInv, TypeOK

LEMMA NextGrantKeeps == ASSUME IInv, NEW h \in Handler, NEW r \in Run, NextGrant(h, r) PROVE IInv'
<1>0. handler[h] \in Handles BY DEF IInv, TypeOK
<1>1. [handler[h] EXCEPT !.runs = {r}, !.left = @ \ {r}] \in Handles
  BY <1>0 DEF Handles
<1>2. Stops(h) /\ asked' \subseteq Execution BY <1>1, GroupStopping DEF NextGrant
<1> QED BY <1>2, OnlyStops DEF NextGrant, IInv, TypeOK, authVars

LEMMA CloseAllKeeps == ASSUME IInv, NEW h \in Handler, CloseAll(h) PROVE IInv'
<1>1. [Idle EXCEPT !.kind = "close", !.runs = Run] \in Handles BY DEF Idle, Handles, HandlerPlaces
<1>2. Stops(h) /\ asked' \subseteq Execution BY <1>1, GroupStopping DEF CloseAll
<1> QED BY <1>2, OnlyStops DEF CloseAll, IInv, TypeOK

LEMMA GoesOnKeeps == ASSUME IInv, NEW h \in Handler, GoesOn(h) PROVE IInv'
<1>1. Stops(h) /\ asked' \subseteq Execution BY NextStopping DEF GoesOn
<1> QED BY <1>1, OnlyStops DEF GoesOn, IInv, TypeOK, authVars

LEMMA HandlerClosesKeeps == ASSUME IInv, NEW h \in Handler, HandlerCloses(h) PROVE IInv'
<1> DEFINE e == handler[h].at
<1> USE DEF authVars, execVars
<1>1. /\ handler[h].pc = "waits" /\ handler[h].on = "monitor" /\ e \in slots /\ monitor[e] \in {"over", "dead"}
      /\ handler' = [handler EXCEPT ![h].pc = "closes"] /\ host' = Leaving(e)
      /\ UNCHANGED <<closed, lost, stale, revoked, slots, starter, cut, asked, monitor, record, stored, writer, faults>>
  BY DEF HandlerCloses, Awaited, Orphaned
<1>2. e \in Execution /\ monitor[e] = "dead"
  <2>1. e \in Execution BY <1>1 DEF IInv, TypeOK
  <2>2. starter[e] \in InStart \/ monitor[e] \notin {"none", "over"} BY <1>1 DEF IInv, SlotLimit
  <2>3. NotYet(e) BY <2>1 DEF IInv, Sound, RecordSound
  <2> QED BY <1>1, <2>1, <2>2, <2>3 DEF NotYet, InStart
<1>3. handler' \in [Handler -> Handles]
  <2>1. [handler[h] EXCEPT !.pc = "closes"] \in Handles BY DEF IInv, TypeOK, Handles, HandlerPlaces
  <2> QED BY <1>1, <2>1 DEF IInv, TypeOK
<1>4. /\ handler'[h].pc = "closes" /\ handler'[h].on = "monitor" /\ handler'[h].at = e
      /\ \A g \in Handler : g # h => handler'[g] = handler[g]
  BY <1>1 DEF IInv, TypeOK, Handles
<1> HIDE DEF e
<1>5. TypeOK' BY <1>1, <1>2, <1>3 DEF IInv, TypeOK, Leaving, Alive
<1>6. SlotLimit' BY <1>1 DEF IInv, SlotLimit, InWorkspaceOf
<1>7. \A x \in Execution : RecordSound(x)'
  BY <1>1, <1>2 DEF IInv, TypeOK, Sound, RecordSound, Truthful, NotYet, Following, Same, Leaving
<1>8. \A g \in Handler : HandlerSound(g)'
  <2> SUFFICES ASSUME NEW g \in Handler PROVE HandlerSound(g)' OBVIOUS
  <2>1. CASE g = h BY <1>1, <1>2, <1>4, <2>1 DEF HandlerSound
  <2>2. CASE g # h
    <3>1. handler'[g] = handler[g] /\ HandlerSound(g) BY <1>4, <2>2 DEF IInv, Sound
    <3> QED BY <1>1, <3>1 DEF HandlerSound
  <2> QED BY <2>1, <2>2
<1>9. \A w \in Writer : WriterSound(w)' BY <1>1 DEF IInv, Sound, WriterSound
<1> QED BY <1>1, <1>5, <1>6, <1>7, <1>8, <1>9 DEF IInv, Sound

LEMMA HandlerClosedKeeps == ASSUME IInv, NEW h \in Handler, HandlerClosed(h) PROVE IInv'
<1> DEFINE e == handler[h].at
<1> DEFINE r == [record[e] EXCEPT !.status = "cancelled", !.stopped = TRUE, !.over = TRUE, !.stdin = FALSE, !.ver = @ + 1]
<1> USE DEF authVars
<1>1. /\ handler[h].pc = "closes" /\ host' = [host EXCEPT ![e] = "gone"]
      /\ record' = [record EXCEPT ![e].status = "cancelled", ![e].stopped = TRUE, ![e].over = TRUE,
                                  ![e].stdin = FALSE, ![e].ver = @ + 1]
      /\ stored' = [stored EXCEPT ![e] = record'[e]]
      /\ slots' = slots \ {e} /\ monitor' = [monitor EXCEPT ![e] = "over"]
      /\ NextOf(h, slots')
      /\ UNCHANGED <<closed, lost, stale, revoked, starter, writer, faults>>
  BY DEF HandlerClosed
<1>2. e \in Execution /\ monitor[e] # "none" BY <1>1 DEF IInv, Sound, HandlerSound
<1>3. r \in Records /\ r.over /\ r.stopped /\ r.status = "cancelled"
  <2>1. record[e] \in Records /\ record[e].ver + 1 \in Nat BY <1>2 DEF IInv, TypeOK, Records
  <2> QED BY <2>1 DEF Records, Final
<1>4. record' = [record EXCEPT ![e] = r] BY <1>1, <1>2 DEF IInv, TypeOK
<1>5. Stops(h) /\ asked' \subseteq Execution
  <2>1. slots \ {e} \subseteq slots /\ NextOf(h, slots \ {e}) BY <1>1
  <2> QED BY <2>1, NextStopping
<1>6. PICK hd \in Handles : Waiting(hd) /\ handler' = [handler EXCEPT ![h] = hd] BY <1>5 DEF Stops
<1> HIDE DEF e, r
<1>7. /\ \A x \in Execution : x # e => /\ record'[x] = record[x] /\ stored'[x] = stored[x]
                                     /\ host'[x] = host[x] /\ monitor'[x] = monitor[x]
      /\ record'[e] = r /\ stored'[e] = r /\ host'[e] = "gone" /\ monitor'[e] = "over"
      /\ handler'[h] = hd /\ \A g \in Handler : g # h => handler'[g] = handler[g]
  BY <1>1, <1>2, <1>4, <1>6 DEF IInv, TypeOK
<1>8. TypeOK'
  <2>1. record' \in [Execution -> Records] /\ stored' \in [Execution -> Records]
    BY <1>1, <1>2, <1>3, <1>4, <1>7 DEF IInv, TypeOK
  <2>2. handler' \in [Handler -> Handles] BY <1>6 DEF IInv, TypeOK
  <2>3. monitor' \in [Execution -> MonitorPlaces] /\ host' \in [Execution -> {"none", "gone"} \cup Alive]
    BY <1>1, <1>2 DEF IInv, TypeOK, MonitorPlaces
  <2> QED BY <1>1, <1>5, <2>1, <2>2, <2>3 DEF IInv, TypeOK, Stops, CutTyped
<1>9. IsFiniteSet(slots)' /\ SlotLimit' BY <1>1, <1>7, FewerSlots DEF IInv, TypeOK, SlotLimit
<1>10. \A x \in Execution : RecordSound(x)'
  <2> SUFFICES ASSUME NEW x \in Execution PROVE RecordSound(x)' OBVIOUS
  <2>1. RecordSound(x) BY DEF IInv, Sound
  <2>2. CASE x # e
    BY <1>1, <1>7, <2>1, <2>2 DEF RecordSound, Truthful, NotYet, Following, Same
  <2>3. CASE x = e
    <3>1. record'[x] = r /\ stored'[x] = r /\ host'[x] = "gone" /\ monitor'[x] = "over"
      BY <1>7, <2>3
    <3>2. starter'[x] = "done" BY <1>1, <1>2, <2>1, <2>3 DEF RecordSound, NotYet
    <3>3. Truthful(record[x], x)' /\ Truthful(stored[x], x)' BY <1>3, <3>1 DEF Truthful, Final
    <3>4. NotYet(x)' /\ Following(x)' /\ Same(x)' BY <1>3, <3>1, <3>2 DEF NotYet, Following, Same
    <3> QED BY <3>3, <3>4 DEF RecordSound
  <2> QED BY <2>2, <2>3
<1>11. \A g \in Handler : HandlerSound(g)'
  <2> SUFFICES ASSUME NEW g \in Handler PROVE HandlerSound(g)' OBVIOUS
  <2>1. \A x \in Execution : monitor[x] # "none" => monitor'[x] # "none" BY <1>2, <1>7
  <2>2. CASE g = h
    <3>1. handler'[g] = hd BY <1>7, <2>2
    <3> QED BY <2>1, <3>1, <1>6 DEF HandlerSound, Waiting
  <2>3. CASE g # h
    <3>1. handler'[g] = handler[g] /\ HandlerSound(g) BY <1>7, <2>3 DEF IInv, Sound
    <3> QED BY <1>3, <1>7, <2>1, <3>1 DEF HandlerSound
  <2> QED BY <2>2, <2>3
<1>12. \A w \in Writer : WriterSound(w)' BY <1>1 DEF IInv, Sound, WriterSound
<1> QED BY <1>8, <1>9, <1>10, <1>11, <1>12 DEF IInv, Sound

LEMMA HandlerFailsKeeps == ASSUME IInv, NEW h \in Handler, HandlerFails(h) PROVE IInv'
<1> DEFINE e == handler[h].at
<1> DEFINE hd == [Idle EXCEPT !.pc = "failed", !.kind = handler[h].kind, !.left = handler[h].left]
<1> USE DEF authVars, execVars
<1>1. /\ handler[h].pc = "closes" /\ host[e] = "leaving" /\ Fault
      /\ host' = [host EXCEPT ![e] = "stuck"] /\ handler' = [handler EXCEPT ![h] = hd]
      /\ UNCHANGED <<closed, lost, stale, revoked, slots, starter, cut, asked, monitor, record, stored, writer>>
  BY DEF HandlerFails
<1>2. hd \in Handles /\ hd.pc = "failed"
  <2>1. handler[h] \in Handles BY DEF IInv, TypeOK
  <2> QED BY <2>1 DEF Handles, HandlerPlaces, Idle
<1>3. e \in Execution BY <1>1 DEF IInv, Sound, HandlerSound
<1> HIDE DEF e, hd
<1>4. faults' \in 0..MaxFault BY <1>1, BoundAssumption DEF Fault, IInv, TypeOK
<1>5. handler' \in [Handler -> Handles] BY <1>1, <1>2 DEF IInv, TypeOK
<1>6. TypeOK' BY <1>1, <1>4, <1>5 DEF IInv, TypeOK, Alive
<1>7. SlotLimit' BY <1>1 DEF IInv, SlotLimit, InWorkspaceOf
<1>8. \A x \in Execution : RecordSound(x)'
  <2>1. \A x \in Execution : host[x] = "gone" => host'[x] = "gone" BY <1>1, <1>3 DEF IInv, TypeOK
  <2>2. \A x \in Execution : host[x] = "stuck" => host'[x] = "stuck" BY <1>1, <1>3 DEF IInv, TypeOK
  <2> QED BY <1>1, <2>1, <2>2 DEF IInv, Sound, RecordSound, Truthful, NotYet, Following, Same
<1>9. \A g \in Handler : HandlerSound(g)'
  <2> SUFFICES ASSUME NEW g \in Handler PROVE HandlerSound(g)' OBVIOUS
  <2>1. CASE g = h
    <3>1. handler'[g].pc = "failed" BY <1>1, <1>2, <2>1 DEF IInv, TypeOK
    <3> QED BY <3>1 DEF HandlerSound
  <2>2. CASE g # h
    <3>1. handler'[g] = handler[g] /\ HandlerSound(g) BY <1>1, <2>2 DEF IInv, TypeOK, Sound
    <3> QED BY <1>1, <3>1 DEF HandlerSound
  <2> QED BY <2>1, <2>2
<1>10. \A w \in Writer : WriterSound(w)' BY <1>1 DEF IInv, Sound, WriterSound
<1> QED BY <1>1, <1>6, <1>7, <1>8, <1>9, <1>10 DEF IInv, Sound

LEMMA AskWriteKeeps == ASSUME IInv, NEW w \in Writer, NEW e \in Execution, AskWrite(w, e) PROVE IInv'
<1> USE DEF AskWrite, authVars, execVars, dataVars
<1>1. writer' \in [Writer -> Writes]
  <2>1. stored[e].ver \in Nat BY DEF IInv, TypeOK, Records
  <2>2. [pc |-> "waits", at |-> e, ver |-> stored[e].ver] \in Writes BY <2>1 DEF Writes
  <2> QED BY <2>2 DEF IInv, TypeOK
<1>2. TypeOK' BY <1>1 DEF IInv, TypeOK
<1>3. SlotLimit' BY DEF IInv, SlotLimit, InWorkspaceOf
<1>4. (\A x \in Execution : RecordSound(x)') /\ (\A h \in Handler : HandlerSound(h)')
  BY DEF IInv, Sound, RecordSound, Truthful, NotYet, Following, Same, HandlerSound
<1>5. \A v \in Writer : WriterSound(v)' BY DEF IInv, TypeOK, Sound, WriterSound
<1> QED BY <1>2, <1>3, <1>4, <1>5 DEF IInv, Sound

LEMMA RestartKeeps == ASSUME IInv, Restart PROVE IInv'
<1>1. /\ faults' \in 0..MaxFault /\ closed' = FALSE /\ slots' = {} /\ asked' = {} /\ record' = stored'
      /\ UNCHANGED <<lost, stale, revoked>>
  <2>1. Fault BY DEF Restart
  <2>2. faults' \in 0..MaxFault BY <2>1, BoundAssumption DEF Fault, IInv, TypeOK
  <2>3. /\ closed' = FALSE /\ slots' = {} /\ asked' = {} /\ record' = stored'
        /\ UNCHANGED <<lost, stale, revoked>>
    BY DEF Restart
  <2> QED BY <2>2, <2>3
<1>2. \A e \in Execution :
        /\ stored'[e] \in Records
        /\ stored[e].status \notin Active => stored'[e] = stored[e]
        /\ stored[e].status \in Active => stored'[e].status = "unknown" /\ ~stored'[e].stopped /\ stored'[e].over
  <2> SUFFICES ASSUME NEW e \in Execution
               PROVE  /\ stored'[e] \in Records
                      /\ stored[e].status \notin Active => stored'[e] = stored[e]
                      /\ stored[e].status \in Active => stored'[e].status = "unknown" /\ ~stored'[e].stopped /\ stored'[e].over
    OBVIOUS
  <2> DEFINE r == [stored[e] EXCEPT !.status = "unknown", !.stopped = FALSE, !.over = TRUE, !.ver = @ + 1]
  <2>1. stored[e] \in Records /\ stored[e].ver + 1 \in Nat BY DEF IInv, TypeOK, Records
  <2>2. r \in Records /\ r.status = "unknown" /\ ~r.stopped /\ r.over BY <2>1 DEF Records, Final
  <2>3. stored'[e] = IF stored[e].status \in Active THEN r ELSE stored[e] BY DEF Restart
  <2> HIDE DEF r
  <2> QED BY <2>1, <2>2, <2>3
<1>3. stored' \in [Execution -> Records]
  <2>1. stored' = [e \in Execution |-> stored'[e]] BY DEF Restart
  <2> QED BY <1>2, <2>1
<1>4. /\ starter' = [e \in Execution |-> IF starter[e] = "idle" THEN "idle" ELSE "done"]
      /\ cut' = [e \in Execution |-> "none"]
      /\ monitor' = [e \in Execution |-> IF monitor[e] = "none" THEN "none" ELSE "over"]
      /\ host' = [e \in Execution |-> IF host[e] \in {"up", "busy", "ended"} THEN "leaving" ELSE host[e]]
  BY DEF Restart
<1>5. /\ handler' \in [Handler -> Handles]
      /\ \A h \in Handler : handler'[h].pc \in {"idle", "dropped"}
  <2>1. /\ Idle \in Handles /\ Idle.pc = "idle"
        /\ [Idle EXCEPT !.pc = "dropped"] \in Handles /\ [Idle EXCEPT !.pc = "dropped"].pc = "dropped"
    BY DEF Idle, Handles, HandlerPlaces
  <2>2. handler' = [h \in Handler |-> IF handler[h].pc = "idle" THEN Idle ELSE [Idle EXCEPT !.pc = "dropped"]]
    BY DEF Restart
  <2> QED BY <2>1, <2>2
<1>6. writer' \in [Writer -> Writes] /\ \A w \in Writer : WriterSound(w)'
  <2>1. Failed \in Writes /\ Failed.pc = "failed" BY DEF Failed, NoWrite, Writes
  <2>2. writer' = [w \in Writer |-> IF writer[w].pc \in {"waits"} \cup InFlight THEN Failed ELSE writer[w]]
    BY DEF Restart
  <2> QED BY <2>1, <2>2 DEF IInv, TypeOK, WriterSound, InFlight
<1>7. TypeOK'
  BY <1>1, <1>3, <1>4, <1>5, <1>6 DEF IInv, TypeOK, CallPlaces, MonitorPlaces, Alive
<1>8. IsFiniteSet(slots)' /\ SlotLimit' BY <1>1, FewerSlots
<1>9. \A e \in Execution : RecordSound(e)'
  <2> SUFFICES ASSUME NEW e \in Execution PROVE RecordSound(e)' OBVIOUS
  <2>1. RecordSound(e) BY DEF IInv, Sound
  <2>2. /\ starter'[e] # "done" => starter[e] = "idle" /\ starter'[e] = "idle"
        /\ monitor'[e] \in {"none", "over"} /\ (monitor[e] = "none" => monitor'[e] = "none")
        /\ host[e] = "gone" => host'[e] = "gone"
    BY <1>4
  <2>3. Truthful(stored[e], e)'
    BY <1>2, <2>1, <2>2 DEF RecordSound, Truthful, Final
  <2>4. NotYet(e)' BY <1>1, <1>2, <2>1, <2>2 DEF RecordSound, NotYet, Active
  <2>5. Following(e)' BY <2>2 DEF Following
  <2>6. Same(e)' BY <1>1 DEF Same
  <2>7. Truthful(record[e], e)' BY <1>1, <2>3 DEF Truthful
  <2> QED BY <2>3, <2>4, <2>5, <2>6, <2>7 DEF RecordSound
<1>10. \A h \in Handler : HandlerSound(h)' BY <1>5 DEF HandlerSound
<1> QED BY <1>6, <1>7, <1>8, <1>9, <1>10 DEF IInv, Sound

LEMMA InitHolds == Init => IInv
<1> SUFFICES ASSUME Init PROVE IInv OBVIOUS
<1>1. NoRecord \in Records BY DEF NoRecord, Records
<1>2. Idle \in Handles /\ Idle.pc = "idle" BY DEF Idle, Handles, HandlerPlaces
<1>3. NoWrite \in Writes /\ NoWrite.pc = "idle" BY DEF NoWrite, Writes
<1>4. TypeOK
  <2>1. record \in [Execution -> Records] /\ stored \in [Execution -> Records] BY <1>1 DEF Init
  <2>2. handler \in [Handler -> Handles] BY <1>2 DEF Init
  <2>3. writer \in [Writer -> Writes] BY <1>3 DEF Init
  <2>4. faults \in 0..MaxFault BY BoundAssumption DEF Init
  <2> QED BY <2>1, <2>2, <2>3, <2>4 DEF Init, TypeOK, CallPlaces, MonitorPlaces
<1>5. IsFiniteSet(slots) /\ SlotLimit
  <2>1. Cardinality({}) = 0 /\ IsFiniteSet({}) BY FS_EmptySet
  <2> QED BY <2>1, BoundAssumption DEF Init, SlotLimit
<1>6. \A e \in Execution : RecordSound(e)
  BY DEF Init, RecordSound, Truthful, NotYet, Following, Same, NoRecord
<1>7. (\A h \in Handler : HandlerSound(h)) /\ (\A w \in Writer : WriterSound(w))
  BY <1>2, <1>3 DEF Init, HandlerSound, WriterSound, InFlight
<1> QED BY <1>4, <1>5, <1>6, <1>7 DEF IInv, Sound

LEMMA StepKeeps == IInv /\ [Next]_vars => IInv'
<1> SUFFICES ASSUME IInv, [Next]_vars PROVE IInv' OBVIOUS
<1>1. ASSUME NEW e \in Execution, Start(e) PROVE IInv' BY <1>1, StartKeeps
<1>2. ASSUME NEW e \in Execution, CallStep(e) PROVE IInv'
  BY <1>2, ArriveKeeps, AdmitKeeps, HandshakeKeeps, StartedKeeps, StartFailsKeeps, CleanedUpKeeps,
     CleanUpFailsKeeps, TakeCutKeeps DEF CallStep
<1>3. ASSUME NEW e \in Execution, MonitorStep(e) PROVE IInv'
  BY <1>3, MonitorBeginsKeeps, SeesStopKeeps, SeesFailureKeeps, SeesEndKeeps, MonitorClosesKeeps,
     MonitorSavesKeeps DEF MonitorStep
<1>4. ASSUME NEW e \in Execution, HostStep(e) PROVE IInv'
  BY <1>4, HostTakesCommandKeeps, CommandEndsKeeps, HostCrashesKeeps, HostLeavesKeeps DEF HostStep
<1>5. ASSUME NEW h \in Handler, Ask(h) PROVE IInv'
  BY <1>5, CancelOneKeeps, StopRunKeeps, LeaveProjectKeeps, CloseAllKeeps DEF Ask
<1>6. ASSUME NEW h \in Handler, HandlerStep(h) PROVE IInv'
  BY <1>6, NextGrantKeeps, GoesOnKeeps, HandlerClosesKeeps, HandlerClosedKeeps, HandlerFailsKeeps DEF HandlerStep
<1>7. ASSUME NEW w \in Writer, WriteStep(w) PROVE IInv'
  BY <1>7, SendWriteKeeps, WriteAnsweredKeeps, WriteFailsKeeps DEF WriteStep
<1>8. ASSUME NEW w \in Writer, HostTakesWrite(w) PROVE IInv' BY <1>8, HostTakesWriteKeeps
<1>9. ASSUME NEW w \in Writer, NEW e \in Execution, AskWrite(w, e) PROVE IInv' BY <1>9, AskWriteKeeps
<1>10. CASE Restart BY <1>10, RestartKeeps
<1>11. CASE UNCHANGED vars
  <2>1. TypeOK' BY <1>11 DEF IInv, TypeOK, vars, authVars, execVars, dataVars
  <2>2. SlotLimit' BY <1>11 DEF IInv, SlotLimit, InWorkspaceOf, vars, authVars, execVars, dataVars
  <2>3. Sound'
    BY <1>11 DEF IInv, Sound, RecordSound, Truthful, NotYet, Following, Same, HandlerSound, WriterSound,
                 vars, authVars, execVars, dataVars
  <2>4. IsFiniteSet(slots)' BY <1>11 DEF IInv, vars
  <2> QED BY <2>1, <2>2, <2>3, <2>4 DEF IInv
<1> QED BY <1>1, <1>2, <1>3, <1>4, <1>5, <1>6, <1>7, <1>8, <1>9, <1>10, <1>11 DEF Next

LEMMA Invariance == Spec => []IInv
BY InitHolds, StepKeeps, PTL DEF Spec

-----------------------------------------------------------------------------
(* The properties. *)

\* The types of the state of ExecutionSessions, whatever the bounds are.
THEOREM TypeCorrect == Spec => []TypeOK
<1>1. IInv => TypeOK BY DEF IInv
<1> QED BY <1>1, Invariance, PTL

\* Every slot has a start or a monitor that will give it back, and there are
\* never more than start allows (start, _monitor, cancel).
THEOREM SlotsAreLimited == Spec => []SlotLimit
<1>1. IInv => SlotLimit BY DEF IInv
<1> QED BY <1>1, Invariance, PTL

\* Who is confirmed stopped is gone, and what is over without it is unknown
\* (start, _monitor, cancel, recover).
THEOREM ConfirmedAreDead == Spec => []ConfirmedIsDead
<1>1. IInv => ConfirmedIsDead BY DEF IInv, Sound, RecordSound, Truthful, ConfirmedIsDead
<1> QED BY <1>1, Invariance, PTL

-----------------------------------------------------------------------------
(* A stored result is final. *)

Kept(x) == stored[x].over => /\ stored'[x].over
                             /\ stored'[x].status = stored[x].status
                             /\ stored'[x].stopped = stored[x].stopped

\* What is stored of an execution that is not over may change.
LEMMA OneChanges ==
  ASSUME IInv, NEW e \in Execution, ~stored[e].over, \A x \in Execution \ {e} : stored'[x] = stored[x]
  PROVE  \A x \in Execution : Kept(x)
BY DEF Kept

LEMMA CallKeeps == ASSUME IInv, NEW e \in Execution, CallStep(e) PROVE \A x \in Execution : Kept(x)
<1>1. RecordSound(e) BY DEF IInv, Sound
<1>2. CASE UNCHANGED stored BY <1>2 DEF Kept
<1>3. ASSUME stored' # stored
      PROVE  starter[e] # "done" /\ \A x \in Execution \ {e} : stored'[x] = stored[x]
  <2>1. Arrive(e) \/ Admit(e) \/ Started(e) \/ CleanedUp(e)
    BY <1>3 DEF CallStep, Handshake, StartFails, CleanUpFails, TakeCut
  <2>2. CASE Arrive(e) \/ Admit(e)
    <3>1. starter[e] \in {"prepare", "queued"} /\ TakeSlot(e) BY <1>3, <2>2 DEF Arrive, Admit, dataVars
    <3> QED BY <1>3, <3>1 DEF TakeSlot, dataVars, IInv, TypeOK
  <2>3. CASE Started(e) BY <2>3 DEF Started, IInv, TypeOK
  <2>4. CASE CleanedUp(e) BY <2>4 DEF CleanedUp, IInv, TypeOK
  <2> QED BY <2>1, <2>2, <2>3, <2>4
<1>4. CASE stored' # stored
  <2>1. ~stored[e].over BY <1>1, <1>3, <1>4 DEF RecordSound, NotYet
  <2> QED BY <1>3, <1>4, <2>1, OneChanges
<1> QED BY <1>2, <1>4

LEMMA MonitorKeeps == ASSUME IInv, NEW e \in Execution, MonitorStep(e) PROVE \A x \in Execution : Kept(x)
<1>1. CASE MonitorSaves(e)
  <2>1. monitor[e] = "evidence" /\ \A x \in Execution \ {e} : stored'[x] = stored[x]
    BY <1>1 DEF MonitorSaves, IInv, TypeOK
  <2>2. ~stored[e].over BY <2>1 DEF IInv, Sound, RecordSound, Following
  <2> QED BY <2>1, <2>2, OneChanges
<1>2. CASE ~MonitorSaves(e)
  <2>1. UNCHANGED stored
    BY <1>2 DEF MonitorStep, MonitorBegins, SeesStop, SeesEnd, SeesFailure, Leave, MonitorCloses, dataVars
  <2> QED BY <2>1 DEF Kept
<1> QED BY <1>1, <1>2

LEMMA ClosedKeeps == ASSUME IInv, NEW h \in Handler, HandlerClosed(h) PROVE \A x \in Execution : Kept(x)
<1> DEFINE e == handler[h].at
<1>1. /\ handler[h].pc = "closes" /\ stored' = [stored EXCEPT ![e] = record'[e]]
      /\ record' = [record EXCEPT ![e].status = "cancelled", ![e].stopped = TRUE, ![e].over = TRUE,
                                  ![e].stdin = FALSE, ![e].ver = @ + 1]
  BY DEF HandlerClosed
<1>2. /\ e \in Execution
      /\ \/ monitor[e] = "dead"
         \/ monitor[e] = "over" /\ stored[e].over /\ stored[e].status = "cancelled" /\ stored[e].stopped
  BY <1>1 DEF IInv, Sound, HandlerSound
<1>3. RecordSound(e) BY <1>2 DEF IInv, Sound
<1>4. record[e] \in Records /\ stored[e] \in Records BY <1>2 DEF IInv, TypeOK
<1>5. record'[e].over /\ record'[e].status = "cancelled" /\ record'[e].stopped
  BY <1>1, <1>2, <1>4 DEF IInv, TypeOK, Records
<1> HIDE DEF e
<1>6. stored'[e] = record'[e] /\ \A x \in Execution \ {e} : stored'[x] = stored[x]
  BY <1>1, <1>2 DEF IInv, TypeOK
<1>7. CASE ~stored[e].over BY <1>2, <1>6, <1>7, OneChanges
<1>8. CASE stored[e].over
  <2>1. monitor[e] # "dead" BY <1>3, <1>8 DEF RecordSound, Following
  <2>2. stored[e].status = "cancelled" /\ stored[e].stopped BY <1>2, <2>1
  <2>3. stored[e].stopped \in BOOLEAN /\ stored'[e].stopped = TRUE /\ stored[e].stopped = TRUE
    <3>1. [record[e] EXCEPT !.status = "cancelled", !.stopped = TRUE, !.over = TRUE, !.stdin = FALSE, !.ver = @ + 1].stopped = TRUE
      BY <1>4 DEF Records
    <3>2. record'[e] = [record[e] EXCEPT !.status = "cancelled", !.stopped = TRUE, !.over = TRUE, !.stdin = FALSE, !.ver = @ + 1]
      BY <1>1, <1>2 DEF IInv, TypeOK
    <3> QED BY <1>4, <1>6, <2>2, <3>1, <3>2 DEF Records
  <2> QED BY <1>5, <1>6, <2>2, <2>3 DEF Kept
<1> QED BY <1>7, <1>8

LEMMA AnswerKeeps == ASSUME IInv, NEW w \in Writer, WriteAnswered(w) PROVE \A x \in Execution : Kept(x)
<1> DEFINE e == writer[w].at
<1>1. writer[w].pc = "taken" /\ stored' = [stored EXCEPT ![e] = record'[e]] BY DEF WriteAnswered
<1>2. e \in Execution BY <1>1 DEF IInv, Sound, WriterSound, InFlight
<1>3. PICK eof \in BOOLEAN : record' = [record EXCEPT ![e].ver = @ + 1, ![e].stdin = ~eof] BY DEF WriteAnswered
<1> HIDE DEF e
<1>4. /\ record'[e].status = record[e].status /\ record'[e].over = record[e].over
      /\ record'[e].stopped = record[e].stopped
  BY <1>2, <1>3 DEF IInv, TypeOK, Records
<1>5. stored'[e] = record'[e] /\ \A x \in Execution \ {e} : stored'[x] = stored[x]
  BY <1>1, <1>2 DEF IInv, TypeOK
<1>6. Same(e) BY <1>2 DEF IInv, Sound, RecordSound
<1>7. stored[e].over => /\ stored'[e].over /\ stored'[e].status = stored[e].status
                       /\ stored'[e].stopped = stored[e].stopped
  BY <1>4, <1>5, <1>6 DEF Same
<1> QED BY <1>5, <1>7 DEF Kept

LEMMA RecoverKeeps == ASSUME IInv, Restart PROVE \A x \in Execution : Kept(x)
<1> SUFFICES ASSUME NEW x \in Execution, stored[x].over PROVE stored'[x] = stored[x] BY DEF Kept
<1>1. stored[x].status \in Final BY DEF IInv, Sound, RecordSound, Truthful
<1>2. stored[x].status \notin Active BY <1>1 DEF Final, Active
<1> DEFINE r == [stored[x] EXCEPT !.status = "unknown", !.stopped = FALSE, !.over = TRUE, !.ver = @ + 1]
<1>3. stored'[x] = IF stored[x].status \in Active THEN r ELSE stored[x] BY DEF Restart
<1> HIDE DEF r
<1> QED BY <1>2, <1>3

LEMMA NextKeeps == ASSUME IInv, [Next]_vars PROVE \A x \in Execution : Kept(x)
<1>1. ASSUME NEW e \in Execution, CallStep(e) PROVE \A x \in Execution : Kept(x) BY <1>1, CallKeeps
<1>2. ASSUME NEW e \in Execution, MonitorStep(e) PROVE \A x \in Execution : Kept(x) BY <1>2, MonitorKeeps
<1>3. ASSUME NEW h \in Handler, HandlerClosed(h) PROVE \A x \in Execution : Kept(x) BY <1>3, ClosedKeeps
<1>4. ASSUME NEW w \in Writer, WriteAnswered(w) PROVE \A x \in Execution : Kept(x) BY <1>4, AnswerKeeps
<1>5. CASE Restart BY <1>5, RecoverKeeps
<1>6. CASE UNCHANGED stored BY <1>6 DEF Kept
<1>7. ASSUME NEW e \in Execution, Start(e) \/ HostStep(e) PROVE UNCHANGED stored
  BY <1>7 DEF Start, HostStep, HostMoves, HostTakesCommand, CommandEnds, HostCrashes, HostLeaves, dataVars
<1>8. ASSUME NEW h \in Handler, Ask(h) PROVE UNCHANGED stored
  BY <1>8 DEF Ask, CancelOne, LeaveProject, StopRun, CloseAll, dataVars
<1>9. ASSUME NEW h \in Handler, HandlerStep(h), ~HandlerClosed(h) PROVE UNCHANGED stored
  BY <1>9 DEF HandlerStep, NextGrant, GoesOn, HandlerCloses, HandlerFails, dataVars
<1>10. ASSUME NEW w \in Writer, SendWrite(w) \/ WriteFails(w) \/ HostTakesWrite(w) PROVE UNCHANGED stored
  BY <1>10 DEF SendWrite, WriteFails, HostTakesWrite, dataVars
<1>11. ASSUME NEW w \in Writer, NEW e \in Execution, AskWrite(w, e) PROVE UNCHANGED stored
  BY <1>11 DEF AskWrite, dataVars
<1>12. CASE UNCHANGED vars BY <1>6, <1>12 DEF vars, dataVars
<1> QED BY <1>1, <1>2, <1>3, <1>4, <1>5, <1>6, <1>7, <1>8, <1>9, <1>10, <1>11, <1>12 DEF Next, WriteStep

\* The stored result of an execution that is over never changes, whichever of
\* its start, its monitor, the handlers, the writers and recover comes last.
THEOREM ResultsAreFinal == Spec => FinalOnce
<1> DEFINE Stay == \A e \in Execution : stored[e].over =>
             /\ stored'[e].over
             /\ stored'[e].status = stored[e].status
             /\ stored'[e].stopped = stored[e].stopped
<1>1. IInv /\ [Next]_vars => [Stay]_vars BY NextKeeps DEF Kept
<1>2. Spec => [][Stay]_vars BY <1>1, Invariance, PTL DEF Spec
<1> QED BY <1>2 DEF FinalOnce

-----------------------------------------------------------------------------
(* Handlers that take away the right to run.  The invariant on top of IInv: an
   execution that may still have a running command is on the list of a handler
   that has not returned, or its grant is yet to be revoked. *)

\* Past the last check of start, and not given up.
Going(e) == e \in slots /\ starter[e] \in {"request", "done"}

\* A command runs only in an execution with a slot, as does a start under the
\* lock; a cancel that was sent is for a tool call that is not over.
CommandFits(e) ==
  /\ host[e] = "busy" => Going(e)
  /\ starter[e] \in InStart => e \in slots
  /\ cut[e] = "sent" => starter[e] \notin {"idle", "done"}

\* The handler still has to see the end of the execution.
Attends(hd, e) == hd.pc \in {"waits", "closes"} /\ e \in {hd.at} \cup hd.rest

\* A tool call that a handler waits for does not get past its cancel.
Caught(e) ==
  /\ monitor[e] = "none" /\ starter[e] \in InStart \cup {"done"}
  /\ starter[e] \in {"handshake", "request"} => cut[e] = "sent"
WaitFits(hd) == hd.pc = "waits" => hd.on # "none" /\ (hd.on = "starter" => Caught(hd.at))

\* A handler has returned only from its last group.
GroupsFit(hd) == hd.pc = "done" => hd.left = {}

\* Leaving the project and closing refuse every start from the beginning.
LeaveFits(hd) ==
  hd.pc \in {"waits", "closes", "between", "done"} =>
    /\ hd.kind = "leave" => lost = Run
    /\ hd.kind = "close" => closed
    /\ hd.kind \in {"leave", "close"} =>
         \A e \in Execution : Going(e) => RunOf[e] \in hd.left \/ Attends(hd, e)

\* What is revoked and past the checks is on the list of a handler.
RevokedFits(e) ==
  e \in revoked /\ Going(e) => \E h \in Handler : handler[h].pc = "failed" \/ Attends(handler[h], e)

HandlersFit == \A h \in Handler : WaitFits(handler[h]) /\ GroupsFit(handler[h]) /\ LeaveFits(handler[h])

Stopping == revoked \subseteq stale /\ (\A e \in Execution : CommandFits(e) /\ RevokedFits(e)) /\ HandlersFit

\* What no handler does: the lists stay as they are, and nothing gets past the
\* checks of start that is refused.
LEMMA HandlersRest ==
  ASSUME IInv, Stopping, UNCHANGED <<handler, lost, stale, revoked>>, closed => closed',
         \A e \in Execution : CommandFits(e)',
         \A e \in Execution : Going(e)' => Going(e) \/ ~Refused(e),
         \A e \in Execution : Caught(e) => Caught(e)'
  PROVE  Stopping'
<1>1. \A e \in Execution : RevokedFits(e)' BY DEF Stopping, RevokedFits, Attends, Refused
<1>2. ASSUME NEW h \in Handler PROVE WaitFits(handler[h])' /\ GroupsFit(handler[h])' /\ LeaveFits(handler[h])'
  <2>1. WaitFits(handler[h]) /\ GroupsFit(handler[h]) /\ LeaveFits(handler[h]) BY DEF Stopping, HandlersFit
  <2>2. handler[h].pc = "waits" => handler[h].at \in Execution BY DEF IInv, Sound, HandlerSound
  <2>3. WaitFits(handler[h])' BY <2>1, <2>2 DEF WaitFits
  <2>4. LeaveFits(handler[h])'
    <3>1. \A e \in Execution : RunOf[e] \in Run BY RunAssumption
    <3> QED BY <2>1, <3>1 DEF LeaveFits, Attends, Refused, Allowed
  <2> QED BY <2>1, <2>3, <2>4 DEF GroupsFit
<1> QED BY <1>1, <1>2 DEF Stopping, HandlersFit

\* Only a host, a record, a writer or the outcome of a monitor changes.
LEMMA PlacesRest ==
  ASSUME IInv, Stopping, UNCHANGED <<handler, lost, stale, revoked, slots, starter, cut>>, closed => closed',
         \A e \in Execution : host'[e] = "busy" => host[e] = "busy" \/ Going(e),
         \A e \in Execution : monitor[e] = "none" => monitor'[e] = "none"
  PROVE  Stopping'
<1>1. \A e \in Execution : CommandFits(e)' BY DEF Stopping, CommandFits, Going
<1>2. \A e \in Execution : (Going(e)' => Going(e)) /\ (Caught(e) => Caught(e)') BY DEF Going, Caught
<1> QED BY <1>1, <1>2, HandlersRest

LEMMA MonitorStops == ASSUME IInv, Stopping, NEW e \in Execution, MonitorStep(e) PROVE Stopping'
<1>1. CASE MonitorBegins(e) \/ SeesStop(e) \/ SeesEnd(e) \/ SeesFailure(e) \/ MonitorCloses(e)
  <2>1. UNCHANGED <<handler, lost, stale, revoked, slots, starter, cut, closed>>
    BY <1>1 DEF MonitorBegins, SeesStop, SeesEnd, SeesFailure, Leave, MonitorCloses, authVars
  <2>2. \A x \in Execution : host'[x] = "busy" => host[x] = "busy"
    BY <1>1 DEF MonitorBegins, SeesStop, SeesEnd, SeesFailure, Leave, MonitorCloses, dataVars, Leaving, IInv, TypeOK
  <2>3. \A x \in Execution : monitor[x] = "none" => monitor'[x] = "none"
    BY <1>1 DEF MonitorBegins, SeesStop, SeesEnd, SeesFailure, Leave, MonitorCloses, IInv, TypeOK
  <2> QED BY <2>1, <2>2, <2>3, PlacesRest
<1>2. CASE MonitorSaves(e)
  <2>1. /\ UNCHANGED <<handler, lost, stale, revoked, starter, cut, host>> /\ slots' = slots \ {e} /\ (closed => closed')
        /\ monitor[e] = "evidence" /\ monitor' = [monitor EXCEPT ![e] = "over"]
    BY <1>2 DEF MonitorSaves, LosesSlot
  <2>2. host[e] # "busy" BY <2>1 DEF IInv, Sound, RecordSound, Following
  <2>3. starter[e] \notin InStart BY <2>1 DEF IInv, Sound, RecordSound, NotYet, InStart
  <2>5. \A x \in Execution : CommandFits(x)' BY <2>1, <2>2, <2>3 DEF Stopping, CommandFits, Going
  <2>4. \A x \in Execution : (Going(x)' => Going(x)) /\ (Caught(x) => Caught(x)')
    BY <2>1 DEF Going, Caught, IInv, TypeOK
  <2> QED BY <2>1, <2>4, <2>5, HandlersRest
<1> QED BY <1>1, <1>2 DEF MonitorStep

LEMMA HostStops == ASSUME IInv, Stopping, NEW e \in Execution, HostStep(e) PROVE Stopping'
<1>1. UNCHANGED <<handler, lost, stale, revoked, slots, starter, cut, closed, monitor>>
  BY DEF HostStep, HostTakesCommand, CommandEnds, HostCrashes, HostLeaves, HostMoves, authVars, execVars
<1>2. \A x \in Execution : host'[x] = "busy" => host[x] = "busy" \/ Going(x)
  <2>1. CASE HostTakesCommand(e)
    <3>1. starter[e] = "request" /\ \A x \in Execution : host'[x] = "busy" => host[x] = "busy" \/ x = e
      BY <2>1 DEF HostTakesCommand, HostMoves, IInv, TypeOK
    <3>2. e \in slots BY <3>1 DEF Stopping, CommandFits, InStart
    <3> QED BY <3>1, <3>2 DEF Going
  <2>2. CASE CommandEnds(e) \/ HostCrashes(e) \/ HostLeaves(e)
    BY <2>2 DEF CommandEnds, HostCrashes, HostLeaves, HostMoves, IInv, TypeOK
  <2> QED BY <2>1, <2>2 DEF HostStep
<1> QED BY <1>1, <1>2, PlacesRest

LEMMA WriteStops ==
  ASSUME IInv, Stopping, NEW w \in Writer,
         WriteStep(w) \/ HostTakesWrite(w) \/ \E e \in Execution : AskWrite(w, e)
  PROVE  Stopping'
<1>1. UNCHANGED <<handler, lost, stale, revoked, slots, starter, cut, closed, monitor, host>>
  BY DEF WriteStep, SendWrite, WriteAnswered, WriteFails, HostTakesWrite, AskWrite, authVars, execVars, dataVars
<1> QED BY <1>1, PlacesRest

(* The tool call. *)
LEMMA CallStops == ASSUME IInv, Stopping, NEW e \in Execution, Start(e) \/ CallStep(e) PROVE Stopping'
<1>1. UNCHANGED <<handler, lost, stale, revoked, closed>>
  BY DEF Start, CallStep, Arrive, Admit, Handshake, Started, StartFails, CleanedUp, CleanUpFails, TakeCut, authVars
<1>2. ASSUME CommandFits(e)', Going(e)' => Going(e) \/ ~Refused(e), Caught(e) => Caught(e)',
             \A x \in Execution \ {e} : /\ (x \in slots' <=> x \in slots) /\ UNCHANGED <<starter[x], cut[x], monitor[x]>>
                                        /\ host'[x] = host[x]
      PROVE  Stopping'
  <2>1. \A x \in Execution : CommandFits(x)' BY <1>2 DEF Stopping, CommandFits, Going
  <2>2. \A x \in Execution : (Going(x)' => Going(x) \/ ~Refused(x)) /\ (Caught(x) => Caught(x)')
    BY <1>2 DEF Going, Caught
  <2> QED BY <1>1, <2>1, <2>2, HandlersRest
<1>3. CommandFits(e) /\ (starter[e] # "done" => monitor[e] = "none")
  BY DEF Stopping, IInv, Sound, RecordSound, NotYet
<1> USE DEF IInv, TypeOK, CommandFits, Going, Caught, InStart
<1>4. CASE Start(e)
  <2>1. /\ starter[e] = "idle" /\ starter'[e] = "prepare" /\ UNCHANGED <<slots, cut, monitor, host>>
        /\ \A x \in Execution \ {e} : starter'[x] = starter[x]
    BY <1>4 DEF Start, dataVars
  <2> QED BY <1>2, <1>3, <2>1
<1>5. CASE Arrive(e) \/ Admit(e)
  <2>1. /\ starter[e] \in {"prepare", "queued"} /\ starter'[e] \in {"done", "queued", "handshake"}
        /\ starter'[e] # "handshake" => UNCHANGED slots
        /\ starter'[e] = "handshake" => e \in slots'
        /\ cut[e] # "sent" /\ UNCHANGED <<cut, monitor>>
        /\ \A x \in Execution \ {e} : starter'[x] = starter[x] /\ host'[x] = host[x] /\ (x \in slots' <=> x \in slots)
        /\ host'[e] \in {host[e], "up"}
    BY <1>5 DEF Arrive, Admit, TakeSlot, dataVars
  <2>2. e \notin slots BY <1>3, <2>1 DEF SlotLimit
  <2> QED BY <1>2, <1>3, <2>1, <2>2
<1>6. CASE Handshake(e)
  <2>1. /\ starter[e] = "handshake" /\ cut[e] # "sent" /\ host[e] = "up" /\ UNCHANGED <<slots, cut, monitor>>
        /\ starter'[e] \in {"cleanup", "request"} /\ (starter'[e] = "request" => ~Refused(e))
        /\ host'[e] # "busy"
        /\ \A x \in Execution \ {e} : starter'[x] = starter[x] /\ host'[x] = host[x]
    BY <1>6 DEF Handshake, Leaving
  <2> HIDE DEF Handshake
  <2> QED BY <1>2, <1>3, <2>1
<1>7. CASE Started(e)
  <2>1. /\ starter[e] = "request" /\ cut[e] # "sent" /\ starter'[e] = "done" /\ UNCHANGED <<slots, cut, host>>
        /\ \A x \in Execution \ {e} : starter'[x] = starter[x] /\ monitor'[x] = monitor[x]
    BY <1>7 DEF Started
  <2> QED BY <1>2, <1>3, <2>1
<1>8. CASE StartFails(e)
  <2>1. /\ starter[e] \in {"handshake", "request"} /\ cut[e] # "sent" /\ starter'[e] = "cleanup" /\ UNCHANGED <<slots, cut, monitor>>
        /\ host'[e] # "busy"
        /\ \A x \in Execution \ {e} : starter'[x] = starter[x] /\ host'[x] = host[x]
    BY <1>8 DEF StartFails, Leaving
  <2> QED BY <1>2, <1>3, <2>1
<1>9. CASE CleanedUp(e) \/ CleanUpFails(e)
  <2>1. /\ starter[e] = "cleanup" /\ starter'[e] = "done" /\ cut'[e] = "none" /\ slots' = slots \ {e} /\ UNCHANGED monitor
        /\ host'[e] # "busy"
        /\ \A x \in Execution \ {e} : starter'[x] = starter[x] /\ host'[x] = host[x] /\ cut'[x] = cut[x]
    BY <1>9 DEF CleanedUp, CleanUpFails, LosesSlot
  <2> QED BY <1>2, <1>3, <2>1
<1>10. CASE TakeCut(e)
  <2>1. cut[e] = "sent" /\ starter[e] \notin {"idle", "done"} /\ UNCHANGED monitor BY <1>3, <1>10 DEF TakeCut
  <2>2. CASE starter[e] \in {"handshake", "request"}
    <3>1. /\ starter'[e] = "cleanup" /\ cut'[e] = "taken" /\ UNCHANGED slots /\ host'[e] # "busy"
          /\ \A x \in Execution \ {e} : starter'[x] = starter[x] /\ host'[x] = host[x] /\ cut'[x] = cut[x]
      BY <1>10, <2>2 DEF TakeCut, Leaving
    <3> QED BY <1>2, <1>3, <2>1, <2>2, <3>1
  <2>3. CASE starter[e] \notin {"handshake", "request"}
    <3>1. /\ starter'[e] = "done" /\ cut'[e] = "none" /\ slots' = slots \ {e} /\ UNCHANGED host
          /\ \A x \in Execution \ {e} : starter'[x] = starter[x] /\ cut'[x] = cut[x]
      BY <1>10, <2>3 DEF TakeCut, LosesSlot
    <3>2. Caught(e) => starter[e] = "cleanup" BY <2>1, <2>3
    <3> QED BY <1>2, <1>3, <2>1, <2>3, <3>1
  <2> QED BY <2>2, <2>3
<1> QED BY <1>4, <1>5, <1>6, <1>7, <1>8, <1>9, <1>10 DEF CallStep

(* The handlers.  What one that moves on leaves behind: it is on the list of
   the executions of E, and its own wait cannot be missed. *)
Lists(h, hd, E) == \E new \in Handles :
  /\ handler' = [handler EXCEPT ![h] = new]
  /\ new.pc \in {"waits", "between", "done"} /\ GroupsFit(new) /\ new.left = hd.left
  /\ new.kind \in {"leave", "close"} => new.kind = hd.kind
  /\ \A e \in E : Attends(new, e)
  /\ new.pc = "waits" =>
       /\ new.on # "none"
       /\ new.on = "starter" => new.at \in E /\ monitor[new.at] = "none" /\ cut'[new.at] = "sent"

\* Cancels are sent to tool calls that are not over, and none is taken back.
CutsOn == \A e \in Execution : cut'[e] = cut[e] \/ (cut'[e] = "sent" /\ starter[e] \notin {"idle", "done"})

LEMMA StartersLive ==
  ASSUME IInv, NEW e \in slots, monitor[e] = "none"
  PROVE  e \in Execution /\ starter[e] \in InStart
BY DEF IInv, TypeOK, SlotLimit

LEMMA GroupEndsFit ==
  ASSUME IInv, NEW h \in Handler, NEW hd \in Handles, GroupEnds(h, hd), NEW E, E = {}
  PROVE  CutsOn /\ Lists(h, hd, E)
<1>1. CutsOn BY DEF CutsOn, GroupEnds, CutTools, Cut
<1> DEFINE p == IF hd.left = {} THEN "done" ELSE "between"
<1> DEFINE k == IF hd.kind \in {"leave", "close"} THEN hd.kind ELSE "none"
<1> DEFINE new == [Idle EXCEPT !.pc = p, !.left = hd.left, !.kind = k]
<1>2. /\ p \in HandlerPlaces /\ k \in {"none", "one", "pause", "cancel", "leave", "close"} /\ hd.left \in SUBSET Run
      /\ p \in {"between", "done"} /\ (p = "done" => hd.left = {}) /\ (k \in {"leave", "close"} => k = hd.kind)
  BY DEF HandlerPlaces, Handles
<1>3. handler' = [handler EXCEPT ![h] = new] BY DEF GroupEnds
<1> HIDE DEF p, k
<1>4. new \in Handles /\ new.pc = p /\ new.kind = k /\ new.left = hd.left BY <1>2 DEF Idle, Handles
<1> HIDE DEF new
<1> QED BY <1>1, <1>2, <1>3, <1>4 DEF Lists, GroupsFit

LEMMA WaitForFits ==
  ASSUME NEW hd \in Handles, NEW e \in Execution, NEW rest \in SUBSET Execution
  PROVE  LET new == WaitFor(hd, e, rest)
         IN  /\ new \in Handles /\ new.pc = "waits" /\ new.at = e /\ new.rest = rest
             /\ new.left = hd.left /\ new.kind = hd.kind /\ new.on # "none" /\ (new.on = "starter" => monitor[e] = "none")
BY DEF WaitFor, Handles, HandlerPlaces

LEMMA StopGroupFits ==
  ASSUME IInv, NEW h \in Handler, NEW hd \in Handles, StopGroup(h, hd)
  PROVE  CutsOn /\ Lists(h, hd, Selected(hd))
<1> DEFINE S == Selected(hd)
<1>1. S \subseteq Execution /\ S \subseteq slots BY DEF IInv, TypeOK, Selected
<1>2. CASE S = {} BY <1>2, GroupEndsFit DEF StopGroup
<1>3. CASE S # {}
  <2>1. PICK e \in S : /\ cut' = [Published(S) EXCEPT ![e] = IF monitor[e] = "none" THEN "sent" ELSE @]
                     /\ handler' = [handler EXCEPT ![h] = WaitFor(hd, e, S \ {e})]
    BY <1>3 DEF StopGroup
  <2> DEFINE new == WaitFor(hd, e, S \ {e})
  <2>2. CutsOn
    <3>1. \A x \in Starting(S) : x \in S /\ starter[x] \in InStart BY <1>1, StartersLive DEF Starting
    <3>2. monitor[e] = "none" => starter[e] \in InStart BY <1>1, <2>1, StartersLive
    <3>3. \A x \in Execution : Published(S)[x] = cut[x] \/ (Published(S)[x] = "sent" /\ x \in Starting(S))
      BY DEF Published, Cut
    <3>4. Published(S) \in [Execution -> {"none", "sent", "taken"}] BY <1>1, Cuts
    <3> HIDE DEF S
    <3>5. \A x \in Execution : cut'[x] = IF x = e THEN IF monitor[e] = "none" THEN "sent" ELSE Published(S)[x] ELSE Published(S)[x]
      BY <2>1, <3>4
    <3> QED BY <3>1, <3>2, <3>3, <3>5 DEF CutsOn, InStart
  <2>3. new.on = "starter" => monitor[e] = "none" /\ cut'[e] = "sent"
    <3>1. Published(S) \in [Execution -> {"none", "sent", "taken"}] BY <1>1, Cuts
    <3>2. new.on = "starter" => monitor[e] = "none" BY <1>1, <2>1, WaitForFits
    <3> HIDE DEF S, new
    <3> QED BY <1>1, <2>1, <3>1, <3>2
  <2>4. /\ new \in Handles /\ new.pc = "waits" /\ new.at = e /\ new.rest = S \ {e} /\ new.left = hd.left
        /\ new.kind = hd.kind /\ new.on # "none"
    BY <1>1, <2>1, WaitForFits
  <2>5. Lists(h, hd, S)
    <3>1. handler' = [handler EXCEPT ![h] = new] BY <2>1
    <3> HIDE DEF new, S
    <3> QED BY <2>1, <2>3, <2>4, <3>1 DEF Lists, GroupsFit, Attends
  <2> QED BY <2>2, <2>5
<1> QED BY <1>2, <1>3

LEMMA NextOfFits ==
  ASSUME IInv, NEW h \in Handler, NEW live, live \subseteq slots, NextOf(h, live)
  PROVE  CutsOn /\ Lists(h, handler[h], handler[h].rest \cap live)
<1> DEFINE S == handler[h].rest \cap live
<1>1. S \subseteq Execution /\ S \subseteq slots /\ handler[h] \in Handles BY DEF IInv, TypeOK
<1>2. CASE S = {} BY <1>1, <1>2, GroupEndsFit DEF NextOf
<1>3. CASE S # {}
  <2>1. PICK e \in S : /\ cut' = Cut(Starting({e}))
                     /\ handler' = [handler EXCEPT ![h] = WaitFor(handler[h], e, S \ {e})]
    BY <1>3 DEF NextOf
  <2> DEFINE new == WaitFor(handler[h], e, S \ {e})
  <2>2. CutsOn
    <3>1. monitor[e] = "none" => starter[e] \in InStart BY <1>1, <2>1, StartersLive
    <3> QED BY <2>1, <3>1 DEF CutsOn, Cut, Starting, InStart
  <2>3. new.on = "starter" => monitor[e] = "none" /\ cut'[e] = "sent"
    <3>1. new.on = "starter" => monitor[e] = "none" BY <1>1, <2>1, WaitForFits
    <3> HIDE DEF S, new
    <3> QED BY <1>1, <2>1, <3>1 DEF Cut, Starting
  <2>4. /\ new \in Handles /\ new.pc = "waits" /\ new.at = e /\ new.rest = S \ {e}
        /\ new.left = handler[h].left /\ new.kind = handler[h].kind /\ new.on # "none"
    BY <1>1, <2>1, WaitForFits
  <2>5. Lists(h, handler[h], S)
    <3>1. handler' = [handler EXCEPT ![h] = new] BY <2>1
    <3> HIDE DEF new, S
    <3> QED BY <2>1, <2>3, <2>4, <3>1 DEF Lists, GroupsFit, Attends
  <2> QED BY <2>2, <2>5
<1> QED BY <1>2, <1>3

\* A handler becomes hd while the tool calls stay where they are.
LEMMA HandlerMoves ==
  ASSUME IInv, Stopping, NEW h \in Handler, NEW hd, handler' = [handler EXCEPT ![h] = hd],
         CutsOn, UNCHANGED starter, slots' \subseteq slots, lost \subseteq lost', lost' \subseteq Run, closed => closed',
         \A e \in Execution : host'[e] = "busy" => host[e] = "busy" /\ e \in slots',
         \A e \in Execution : starter[e] \in InStart => e \in slots',
         \A e \in Execution : monitor[e] = "none" => monitor'[e] = "none",
         handler[h].pc # "failed", stale \subseteq stale', revoked' \subseteq revoked \cup stale',
         \A e \in Execution : Going(e)' /\ e \in revoked' =>
            \/ Attends(hd, e) \/ hd.pc = "failed"
            \/ e \in revoked /\ ~Attends(handler[h], e),
         hd.pc = "waits" => hd.on # "none" /\ (hd.on = "starter" => Caught(hd.at)'), GroupsFit(hd), LeaveFits(hd)'
  PROVE  Stopping'
<1>1. ASSUME NEW e \in Execution PROVE CommandFits(e)' BY DEF Stopping, CommandFits, CutsOn, Going
<1>2. \A e \in Execution : Going(e)' => Going(e) BY DEF Going
<1>3. \A g \in Handler : handler'[g] = IF g = h THEN hd ELSE handler[g] BY DEF IInv, TypeOK
<1>4. ASSUME NEW e \in Execution PROVE RevokedFits(e)'
  <2> SUFFICES ASSUME e \in revoked', Going(e)'
               PROVE  \E g \in Handler : handler'[g].pc = "failed" \/ Attends(handler'[g], e)
    BY DEF RevokedFits, Attends
  <2>1. CASE Attends(hd, e) \/ hd.pc = "failed" BY <1>3, <2>1
  <2>2. CASE e \in revoked /\ ~Attends(handler[h], e)
    <3>1. PICK g \in Handler : handler[g].pc = "failed" \/ Attends(handler[g], e) BY <1>2, <2>2 DEF Stopping, RevokedFits
    <3>2. g # h BY <2>2, <3>1
    <3> QED BY <1>3, <3>1, <3>2
  <2> QED BY <2>1, <2>2
<1>5. ASSUME NEW g \in Handler, g # h
      PROVE WaitFits(handler[g])' /\ GroupsFit(handler[g])' /\ LeaveFits(handler[g])'
  <2>1. handler'[g] = handler[g] /\ WaitFits(handler[g]) /\ GroupsFit(handler[g]) /\ LeaveFits(handler[g])
    BY <1>3, <1>5 DEF Stopping, HandlersFit
  <2>2. handler[g].pc = "waits" => handler[g].at \in Execution BY DEF IInv, Sound, HandlerSound
  <2>3. \A e \in Execution : Caught(e) => Caught(e)' BY DEF Caught, CutsOn
  <2>4. WaitFits(handler[g])' BY <2>1, <2>2, <2>3 DEF WaitFits
  <2>5. LeaveFits(handler[g])' BY <1>2, <2>1 DEF LeaveFits, Attends
  <2> QED BY <2>1, <2>4, <2>5 DEF GroupsFit
<1>6. WaitFits(handler[h])' /\ GroupsFit(handler[h])' /\ LeaveFits(handler[h])'
  <2>1. handler'[h] = hd BY <1>3
  <2> QED BY <2>1 DEF WaitFits, GroupsFit, LeaveFits, Attends
<1> QED BY <1>1, <1>4, <1>5, <1>6 DEF Stopping, HandlersFit

\* The same for a handler that goes on to the next group or execution.
LEMMA ListsMove ==
  ASSUME IInv, Stopping, NEW h \in Handler, NEW hd \in Handles, NEW E \in SUBSET slots,
         CutsOn, Lists(h, hd, E), UNCHANGED starter, slots' \subseteq slots,
         lost \subseteq lost', lost' \subseteq Run, closed => closed',
         \A e \in Execution : host'[e] = "busy" => host[e] = "busy" /\ e \in slots',
         \A e \in Execution : starter[e] \in InStart => e \in slots',
         \A e \in Execution : monitor[e] = "none" => monitor'[e] = "none",
         handler[h].pc # "failed", stale \subseteq stale', revoked' \subseteq revoked \cup stale',
         \A e \in Execution : Going(e)' /\ e \in revoked' => e \in E \/ (e \in revoked /\ ~Attends(handler[h], e)),
         hd.kind = "leave" => lost' = Run, hd.kind = "close" => closed',
         hd.kind \in {"leave", "close"} => \A e \in Execution : Going(e)' => e \in E \/ RunOf[e] \in hd.left
  PROVE  Stopping'
<1>1. PICK new \in Handles :
        /\ handler' = [handler EXCEPT ![h] = new]
        /\ new.pc \in {"waits", "between", "done"} /\ GroupsFit(new) /\ new.left = hd.left
        /\ new.kind \in {"leave", "close"} => new.kind = hd.kind
        /\ \A e \in E : Attends(new, e)
        /\ new.pc = "waits" =>
             /\ new.on # "none"
             /\ new.on = "starter" => new.at \in E /\ monitor[new.at] = "none" /\ cut'[new.at] = "sent"
  BY DEF Lists
<1>2. ASSUME new.pc = "waits" /\ new.on = "starter" PROVE Caught(new.at)'
  <2>1. new.at \in Execution /\ monitor'[new.at] = "none" /\ cut'[new.at] = "sent" BY <1>1, <1>2, StartersLive
  <2>2. starter[new.at] \in InStart BY <1>1, <1>2, StartersLive
  <2> QED BY <2>1, <2>2 DEF Caught
<1>3. LeaveFits(new)' BY <1>1 DEF LeaveFits, Attends
<1>4. \A e \in Execution : Going(e)' /\ e \in revoked' => Attends(new, e) \/ (e \in revoked /\ ~Attends(handler[h], e)) BY <1>1
<1> QED BY <1>1, <1>2, <1>3, <1>4, HandlerMoves

LEMMA CancelOneStops == ASSUME IInv, Stopping, NEW h \in Handler, NEW e \in Execution, CancelOne(h, e) PROVE Stopping'
<1> DEFINE one == [Idle EXCEPT !.kind = "one"]
<1>0. PICK hd : hd = WaitFor(one, e, {}) OBVIOUS
<1>1. /\ handler[h].pc = "idle" /\ e \in slots /\ cut' = Cut(Starting({e})) /\ handler' = [handler EXCEPT ![h] = hd]
      /\ UNCHANGED <<closed, lost, stale, revoked, slots, starter, monitor, host>>
  BY <1>0 DEF CancelOne, authVars, dataVars
<1>2. one \in Handles /\ one.kind = "one" BY DEF Idle, Handles, HandlerPlaces
<1>3. hd.pc = "waits" /\ hd.at = e /\ hd.kind = "one" /\ hd.on # "none" /\ (hd.on = "starter" => monitor[e] = "none")
  <2> HIDE DEF one
  <2> QED BY <1>0, <1>2, WaitForFits
<1> HIDE DEF one
<1>4. monitor[e] = "none" => starter[e] \in InStart /\ cut'[e] = "sent"
  BY <1>1, StartersLive DEF Cut, Starting
<1>5. CutsOn BY <1>1, <1>4 DEF CutsOn, Cut, Starting, InStart
<1>6. hd.on = "starter" => Caught(hd.at)' BY <1>1, <1>3, <1>4 DEF Caught
<1>7. \A x \in Execution : ~Attends(handler[h], x) /\ (Going(x)' <=> Going(x)) BY <1>1 DEF Attends, Going
<1>8. (\A x \in Execution : CommandFits(x)) /\ GroupsFit(hd) /\ LeaveFits(hd)'
  BY <1>3 DEF Stopping, GroupsFit, LeaveFits
<1> QED BY <1>1, <1>3, <1>5, <1>6, <1>7, <1>8, HandlerMoves DEF CommandFits, Going, IInv, TypeOK

LEMMA StopRunStops ==
  ASSUME IInv, Stopping, NEW h \in Handler, NEW r \in Run, NEW kind \in {"pause", "cancel"}, StopRun(h, r, kind)
  PROVE  Stopping'
<1> DEFINE hd == [Idle EXCEPT !.kind = kind, !.runs = {r}]
<1> DEFINE E == Selected(hd)
<1>1. /\ handler[h].pc = "idle" /\ StopGroup(h, hd)
      /\ stale' = stale \cup StartedIn(r)
      /\ revoked' = revoked \cup {e \in StartedIn(r) : ~Outlives(e, kind)}
      /\ UNCHANGED <<closed, lost, slots, starter, monitor, host>>
  BY DEF StopRun, dataVars
<1>2. hd \in Handles /\ hd.kind = kind /\ hd.runs = {r} BY DEF Idle, Handles, HandlerPlaces
<1>3. CutsOn /\ Lists(h, hd, E) BY <1>1, <1>2, StopGroupFits
<1>4. E \in SUBSET slots /\ \A e \in slots : RunOf[e] = r /\ (kind = "pause" => e \notin Lasting) => e \in E
  BY <1>2 DEF Selected
<1> HIDE DEF hd, E
<1>5. \A e \in Execution : Going(e)' /\ e \in revoked' => e \in E \/ (e \in revoked /\ ~Attends(handler[h], e))
  BY <1>1, <1>4 DEF Going, Attends, StartedIn, Outlives
<1>7. stale \subseteq stale' /\ revoked' \subseteq revoked \cup stale' BY <1>1
<1>6. \A e \in Execution : CommandFits(e) BY DEF Stopping
<1> QED BY <1>1, <1>2, <1>3, <1>4, <1>5, <1>6, <1>7, ListsMove DEF CommandFits, Going, IInv, TypeOK

LEMMA LeaveProjectStops ==
  ASSUME IInv, Stopping, NEW h \in Handler, NEW r \in Run, LeaveProject(h, r) PROVE Stopping'
<1> DEFINE hd == [Idle EXCEPT !.kind = "leave", !.runs = {r}, !.left = Run \ {r}]
<1> DEFINE E == Selected(hd)
<1>1. /\ handler[h].pc = "idle" /\ StopGroup(h, hd) /\ lost' = Run
      /\ UNCHANGED <<closed, stale, revoked, slots, starter, monitor, host>>
  BY DEF LeaveProject, dataVars
<1>2. hd \in Handles /\ hd.kind = "leave" /\ hd.runs = {r} /\ hd.left = Run \ {r} BY DEF Idle, Handles, HandlerPlaces
<1>3. CutsOn /\ Lists(h, hd, E) BY <1>1, <1>2, StopGroupFits
<1>4. E \in SUBSET slots /\ \A e \in slots : RunOf[e] = r => e \in E BY <1>2 DEF Selected
<1> HIDE DEF hd, E
<1>5. \A e \in Execution : ~Attends(handler[h], e) BY <1>1 DEF Attends
<1>6. \A e \in Execution : Going(e)' => e \in E \/ RunOf[e] \in hd.left BY <1>1, <1>2, <1>4, RunAssumption DEF Going
<1>7. \A e \in Execution : CommandFits(e) BY DEF Stopping
<1>8. lost \subseteq lost' /\ slots \subseteq Execution BY <1>1 DEF IInv, TypeOK
<1> QED BY <1>1, <1>2, <1>3, <1>4, <1>5, <1>6, <1>7, <1>8, ListsMove DEF CommandFits, Going

LEMMA NextGrantStops ==
  ASSUME IInv, Stopping, NEW h \in Handler, NEW r \in Run, NextGrant(h, r) PROVE Stopping'
<1> DEFINE hd == [handler[h] EXCEPT !.runs = {r}, !.left = @ \ {r}]
<1> DEFINE E == Selected(hd)
<1>1. /\ handler[h].pc = "between" /\ StopGroup(h, hd)
      /\ UNCHANGED <<closed, lost, stale, revoked, slots, starter, monitor, host>>
  BY DEF NextGrant, dataVars, authVars
<1>2. handler[h] \in Handles /\ LeaveFits(handler[h]) BY DEF IInv, TypeOK, Stopping, HandlersFit
<1>3. hd \in Handles /\ hd.kind = handler[h].kind /\ hd.runs = {r} /\ hd.left = handler[h].left \ {r} BY <1>2 DEF Handles
<1>4. CutsOn /\ Lists(h, hd, E) BY <1>1, <1>3, StopGroupFits
<1>5. E \in SUBSET slots /\ (hd.kind # "pause" => \A e \in slots : RunOf[e] = r => e \in E) BY <1>3 DEF Selected
<1> HIDE DEF hd, E
<1>6. \A e \in Execution : ~Attends(handler[h], e) BY <1>1 DEF Attends
<1>7. hd.kind \in {"leave", "close"} => \A e \in Execution : Going(e)' => e \in E \/ RunOf[e] \in hd.left
  BY <1>1, <1>2, <1>3, <1>5, <1>6 DEF Going, LeaveFits
<1>8. (hd.kind = "leave" => lost' = Run) /\ (hd.kind = "close" => closed') BY <1>1, <1>2, <1>3 DEF LeaveFits
<1>9. (\A e \in Execution : CommandFits(e)) /\ lost' \subseteq Run BY <1>1 DEF Stopping, IInv, TypeOK
<1> QED BY <1>1, <1>3, <1>4, <1>5, <1>6, <1>7, <1>8, <1>9, ListsMove DEF CommandFits, Going

LEMMA CloseAllStops == ASSUME IInv, Stopping, NEW h \in Handler, CloseAll(h) PROVE Stopping'
<1> DEFINE hd == [Idle EXCEPT !.kind = "close", !.runs = Run]
<1> DEFINE E == Selected(hd)
<1>1. /\ handler[h].pc = "idle" /\ StopGroup(h, hd) /\ closed' = TRUE
      /\ UNCHANGED <<lost, stale, revoked, slots, starter, monitor, host>>
  BY DEF CloseAll, dataVars
<1>2. hd \in Handles /\ hd.kind = "close" /\ hd.runs = Run BY DEF Idle, Handles, HandlerPlaces
<1>3. CutsOn /\ Lists(h, hd, E) BY <1>1, <1>2, StopGroupFits
<1>4. slots \subseteq Execution /\ lost' \subseteq Run BY <1>1 DEF IInv, TypeOK
<1>5. E = slots BY <1>2, <1>4, RunAssumption DEF Selected
<1> HIDE DEF hd, E
<1>6. \A e \in Execution : ~Attends(handler[h], e) /\ (Going(e)' => e \in E) BY <1>1, <1>5 DEF Attends, Going
<1>7. \A e \in Execution : CommandFits(e) BY DEF Stopping
<1> QED BY <1>1, <1>2, <1>3, <1>4, <1>5, <1>6, <1>7, ListsMove DEF CommandFits, Going

\* When the wait of a handler is over and nothing is left to close, its
\* execution has no slot.
LEMMA AwaitedGone ==
  ASSUME IInv, Stopping, NEW h \in Handler, Awaited(h), ~Orphaned(h) PROVE handler[h].at \notin slots
<1> DEFINE e == handler[h].at
<1>1. handler[h].pc = "waits" /\ (IF handler[h].on = "starter" THEN starter[e] = "done" ELSE monitor[e] \in {"over", "dead"})
  BY DEF Awaited
<1>2. CASE handler[h].on = "starter"
  <2>1. WaitFits(handler[h]) BY DEF Stopping, HandlersFit
  <2>2. monitor[e] = "none" /\ starter[e] = "done" BY <1>1, <1>2, <2>1 DEF WaitFits, Caught
  <2> QED BY <2>2 DEF IInv, SlotLimit, InStart
<1>3. CASE handler[h].on = "monitor" BY <1>3 DEF Orphaned
<1>4. handler[h].on # "none" BY <1>1 DEF Stopping, HandlersFit, WaitFits
<1> QED BY <1>2, <1>3, <1>4 DEF IInv, TypeOK, Handles

LEMMA GoesOnStops == ASSUME IInv, Stopping, NEW h \in Handler, GoesOn(h) PROVE Stopping'
<1> DEFINE E == handler[h].rest \cap slots
<1>1. /\ handler[h].pc = "waits" /\ NextOf(h, slots) /\ handler[h].at \notin slots
      /\ UNCHANGED <<closed, lost, stale, revoked, slots, starter, monitor, host>>
  BY AwaitedGone DEF GoesOn, Awaited, dataVars, authVars
<1>2. handler[h] \in Handles /\ LeaveFits(handler[h]) BY DEF IInv, TypeOK, Stopping, HandlersFit
<1>3. CutsOn /\ Lists(h, handler[h], E) BY <1>1, NextOfFits
<1>4. E \in SUBSET slots /\ \A e \in Execution : Going(e)' /\ Attends(handler[h], e) => e \in E BY <1>1 DEF Attends, Going
<1> HIDE DEF E
<1>5. handler[h].kind \in {"leave", "close"} => \A e \in Execution : Going(e)' => e \in E \/ RunOf[e] \in handler[h].left
  BY <1>1, <1>2, <1>4 DEF Going, LeaveFits
<1>6. (handler[h].kind = "leave" => lost' = Run) /\ (handler[h].kind = "close" => closed') BY <1>1, <1>2 DEF LeaveFits
<1>7. (\A e \in Execution : CommandFits(e)) /\ lost' \subseteq Run BY <1>1 DEF Stopping, IInv, TypeOK
<1> QED BY <1>1, <1>2, <1>3, <1>4, <1>5, <1>6, <1>7, ListsMove DEF CommandFits, Going

LEMMA HandlerClosesStops == ASSUME IInv, Stopping, NEW h \in Handler, HandlerCloses(h) PROVE Stopping'
<1>0. PICK hd : hd = [handler[h] EXCEPT !.pc = "closes"] OBVIOUS
<1>1. /\ handler[h].pc = "waits" /\ handler' = [handler EXCEPT ![h] = hd] /\ host' = Leaving(handler[h].at)
      /\ UNCHANGED <<closed, lost, stale, revoked, slots, starter, cut, monitor>>
  BY <1>0 DEF HandlerCloses, Awaited, authVars, execVars
<1>2. handler[h] \in Handles /\ LeaveFits(handler[h]) BY DEF IInv, TypeOK, Stopping, HandlersFit
<1>3. /\ hd.pc = "closes" /\ hd.at = handler[h].at /\ hd.rest = handler[h].rest
      /\ hd.left = handler[h].left /\ hd.kind = handler[h].kind
  BY <1>0, <1>2 DEF Handles
<1>4. \A e \in Execution : /\ Going(e)' <=> Going(e)
                           /\ host'[e] = "busy" => host[e] = "busy"
                           /\ Attends(hd, e) <=> Attends(handler[h], e)
  BY <1>1, <1>3 DEF Going, Attends, Leaving, IInv, TypeOK
<1>5. LeaveFits(hd)' BY <1>1, <1>2, <1>3, <1>4 DEF LeaveFits, Attends
<1>6. (\A e \in Execution : CommandFits(e)) /\ lost' \subseteq Run BY <1>1 DEF Stopping, IInv, TypeOK
<1>7. CutsOn /\ GroupsFit(hd) BY <1>1, <1>3 DEF CutsOn, GroupsFit
<1> QED BY <1>1, <1>3, <1>4, <1>5, <1>6, <1>7, HandlerMoves DEF CommandFits, Going

LEMMA HandlerClosedStops == ASSUME IInv, Stopping, NEW h \in Handler, HandlerClosed(h) PROVE Stopping'
<1> DEFINE e == handler[h].at
<1> DEFINE E == handler[h].rest \cap (slots \ {e})
<1>1. /\ handler[h].pc = "closes" /\ host' = [host EXCEPT ![e] = "gone"] /\ slots' = slots \ {e}
      /\ monitor' = [monitor EXCEPT ![e] = "over"] /\ NextOf(h, slots \ {e})
      /\ UNCHANGED <<closed, lost, stale, revoked, starter>>
  BY DEF HandlerClosed, authVars
<1>2. handler[h] \in Handles /\ LeaveFits(handler[h]) BY DEF IInv, TypeOK, Stopping, HandlersFit
<1>3. e \in Execution /\ monitor[e] # "none" /\ starter[e] = "done"
  BY <1>1 DEF IInv, Sound, HandlerSound, RecordSound, NotYet
<1>4. CutsOn /\ Lists(h, handler[h], E) BY <1>1, NextOfFits
<1>5. E \in SUBSET slots /\ \A x \in Execution : Going(x)' /\ Attends(handler[h], x) => x \in E BY <1>1 DEF Attends, Going
<1> HIDE DEF e, E
<1>6. \A x \in Execution : Going(x)' => Going(x) BY <1>1 DEF Going
<1>7. handler[h].kind \in {"leave", "close"} => \A x \in Execution : Going(x)' => x \in E \/ RunOf[x] \in handler[h].left
  BY <1>1, <1>2, <1>5, <1>6 DEF LeaveFits
<1>8. (handler[h].kind = "leave" => lost' = Run) /\ (handler[h].kind = "close" => closed') BY <1>1, <1>2 DEF LeaveFits
<1>9. (\A x \in Execution : CommandFits(x)) /\ lost' \subseteq Run BY <1>1 DEF Stopping, IInv, TypeOK
<1>10. \A x \in Execution : /\ host'[x] = "busy" => host[x] = "busy" /\ x \in slots'
                            /\ starter[x] \in InStart => x \in slots'
                            /\ monitor[x] = "none" => monitor'[x] = "none"
  BY <1>1, <1>3, <1>9 DEF CommandFits, Going, IInv, TypeOK, InStart
<1> QED BY <1>1, <1>2, <1>4, <1>5, <1>7, <1>8, <1>9, <1>10, ListsMove

LEMMA HandlerFailsStops == ASSUME IInv, Stopping, NEW h \in Handler, HandlerFails(h) PROVE Stopping'
<1>0. PICK hd : hd = [Idle EXCEPT !.pc = "failed", !.kind = handler[h].kind, !.left = handler[h].left] OBVIOUS
<1>1. /\ handler[h].pc = "closes" /\ handler' = [handler EXCEPT ![h] = hd] /\ host' = [host EXCEPT ![handler[h].at] = "stuck"]
      /\ UNCHANGED <<closed, lost, stale, revoked, slots, starter, cut, monitor>>
  BY <1>0 DEF HandlerFails, authVars, execVars
<1>2. hd.pc = "failed" BY <1>0 DEF Idle
<1>3. \A e \in Execution : host'[e] = "busy" => host[e] = "busy" BY <1>1 DEF IInv, TypeOK
<1>4. (\A e \in Execution : CommandFits(e)) /\ lost' \subseteq Run BY <1>1 DEF Stopping, IInv, TypeOK
<1>5. CutsOn /\ GroupsFit(hd) /\ LeaveFits(hd)' BY <1>1, <1>2 DEF CutsOn, GroupsFit, LeaveFits
<1> QED BY <1>1, <1>2, <1>3, <1>4, <1>5, HandlerMoves DEF CommandFits, Going

\* A restart leaves nothing of all this.
LEMMA RestartStops == ASSUME IInv, Stopping, Restart PROVE Stopping'
<1>1. /\ slots' = {} /\ UNCHANGED <<lost, stale, revoked>>
      /\ starter' = [e \in Execution |-> IF starter[e] = "idle" THEN "idle" ELSE "done"]
      /\ cut' = [e \in Execution |-> "none"]
      /\ host' = [e \in Execution |-> IF host[e] \in {"up", "busy", "ended"} THEN "leaving" ELSE host[e]]
      /\ handler' = [h \in Handler |-> IF handler[h].pc = "idle" THEN Idle ELSE [Idle EXCEPT !.pc = "dropped"]]
  BY DEF Restart
<1>2. \A h \in Handler : handler'[h].pc \in {"idle", "dropped"} BY <1>1 DEF Idle
<1>3. \A e \in Execution : CommandFits(e)' /\ RevokedFits(e)' BY <1>1 DEF CommandFits, RevokedFits, Going, InStart
<1>4. revoked' \subseteq stale' BY <1>1 DEF Stopping
<1> QED BY <1>2, <1>3, <1>4 DEF Stopping, HandlersFit, WaitFits, GroupsFit, LeaveFits

LEMMA StoppingInit == Init => Stopping
  BY DEF Init, Idle, Stopping, HandlersFit, CommandFits, RevokedFits, Going, InStart, WaitFits, GroupsFit, LeaveFits

LEMMA StoppingKeeps == IInv /\ Stopping /\ [Next]_vars => Stopping'
<1> SUFFICES ASSUME IInv, Stopping, [Next]_vars PROVE Stopping' OBVIOUS
<1>1. ASSUME NEW e \in Execution, Start(e) \/ CallStep(e) \/ MonitorStep(e) \/ HostStep(e) PROVE Stopping'
  BY <1>1, CallStops, MonitorStops, HostStops
<1>2. ASSUME NEW h \in Handler, Ask(h) PROVE Stopping'
  BY <1>2, CancelOneStops, StopRunStops, LeaveProjectStops, CloseAllStops DEF Ask
<1>3. ASSUME NEW h \in Handler, HandlerStep(h) PROVE Stopping'
  BY <1>3, NextGrantStops, GoesOnStops, HandlerClosesStops, HandlerClosedStops, HandlerFailsStops DEF HandlerStep
<1>4. CASE UNCHANGED vars
  <2>1. UNCHANGED <<closed, lost, stale, revoked, slots, starter, cut, monitor, host, handler>>
    BY <1>4 DEF vars, authVars, execVars, dataVars
  <2> QED BY <2>1, PlacesRest
<1> QED BY <1>1, <1>2, <1>3, <1>4, WriteStops, RestartStops DEF Next

\* RevokedIsStopped: when the handlers that take away the right to run have
\* returned, nothing that they had to end goes on: it was on the list of one of
\* them until it had lost its slot, and no start gets past them. A pause lets a
\* retained command go on that its host had been asked for, and no other.
THEOREM RevokedAreStopped == Spec => []RevokedIsStopped
<1>1. IInv /\ Stopping => RevokedIsStopped
  <2> SUFFICES ASSUME IInv, Stopping, \A h \in Handler : ~InProgress(h) /\ handler[h].pc # "failed",
                      NEW e \in Execution, host[e] = "busy",
                      e \in revoked \/ \E h \in Handler : handler[h].pc = "done" /\ handler[h].kind \in {"leave", "close"}
               PROVE  FALSE
    BY DEF RevokedIsStopped
  <2>1. Going(e) /\ RevokedFits(e) BY DEF Stopping, CommandFits
  <2>2. \A h \in Handler : ~Attends(handler[h], e) BY DEF InProgress, Attends
  <2>3. e \notin revoked BY <2>1, <2>2 DEF RevokedFits
  <2>4. PICK h \in Handler : handler[h].pc = "done" /\ handler[h].kind \in {"leave", "close"} BY <2>3
  <2>5. GroupsFit(handler[h]) /\ LeaveFits(handler[h]) BY DEF Stopping, HandlersFit
  <2>6. handler[h].left = {} BY <2>4, <2>5 DEF GroupsFit
  <2> QED BY <2>1, <2>2, <2>4, <2>5, <2>6 DEF LeaveFits
<1> QED BY <1>1, StoppingInit, StoppingKeeps, InitHolds, StepKeeps, PTL DEF Spec

=============================================================================
