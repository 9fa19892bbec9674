------------------------ MODULE WorkspaceLeaseProofs ------------------------
(***************************************************************************)
(* The safety of the leases, for any accounts, workspaces and runs.        *)
(***************************************************************************)
EXTENDS WorkspaceLease, TLAPS

(* The inductive invariant.  A synchronous section belongs to its account; one
   that takes a lease has the lock and the name already. *)
Sectioned ==
  \A a \in Account : busy[a] # None =>
    LET r == busy[a] IN
    /\ up[a] /\ AccountOf[r] = a
    /\ r \notin held => at[r] = "waiting" /\ lock[WorkspaceOf[r]] = r /\ note[WorkspaceOf[r]] = r

\* A run that never held its workspace left nothing in it.
Unstarted ==
  \A r \in Run : at[r] \in {"new", "waiting", "parked", "dropped"} =>
    r \notin held /\ proc[r] = "none" /\ ~unsure[r]

\* Who works holds the lease and is not giving it back; what outlives its
\* executor is known as unverified.
TouchingHolds ==
  \A r \in Run :
    /\ at[r] \in {"working", "ending"} \/ proc[r] = "running" => r \in held /\ busy[AccountOf[r]] # r
    /\ proc[r] = "orphan" => unsure[r]

\* Unverified effects are noted in the lock file.
Marked == \A r \in Run : unsure[r] => note[WorkspaceOf[r]] = r

\* A change of the user finds no name there.
Clear == \A w \in Workspace : Changing(w) => note[w] = None

IInv == LeaseTypeOK /\ Sectioned /\ LeaseAgrees /\ Unstarted /\ TouchingHolds /\ Marked /\ Clear

-----------------------------------------------------------------------------
(* Every action keeps the invariant. *)
LEMMA GoTyped ==
  ASSUME LeaseTypeOK, NEW r \in Run, NEW p \in Stages, Go(r, p)
  PROVE  at' \in [Run -> Stages] /\ \A s \in Run : at'[s] = IF s = r THEN p ELSE at[s]
  BY DEF LeaseTypeOK, Go

\* The run of an open section that takes a lease.
LEMMA Taking ==
  ASSUME IInv, NEW r \in Run, up[AccountOf[r]], busy[AccountOf[r]] = r, r \notin held
  PROVE  /\ AccountOf[r] \in Account /\ WorkspaceOf[r] \in Workspace
         /\ lock[WorkspaceOf[r]] = r /\ note[WorkspaceOf[r]] = r
         /\ at[r] = "waiting" /\ proc[r] = "none" /\ ~unsure[r]
         /\ \A s \in held : WorkspaceOf[s] # WorkspaceOf[r]
  BY AccountAssumption, WorkspaceAssumption, NoneAssumption DEF IInv, LeaseTypeOK, Sectioned, Unstarted, LeaseAgrees

LEMMA TakeRowKeeps == ASSUME IInv, NEW r \in Run, TakeRow(r) PROVE IInv'
<1> DEFINE a == AccountOf[r]
<1> DEFINE w == WorkspaceOf[r]
<1> USE AccountAssumption, WorkspaceAssumption, NoneAssumption
<1>1. /\ up[a] /\ busy[a] = r /\ r \notin held
      /\ row' = [row EXCEPT ![a][w] = "held"] /\ held' = held \cup {r} /\ Go(r, "working")
      /\ busy' = [busy EXCEPT ![a] = None]
      /\ UNCHANGED <<up, undo, ahead, proc, calledOff, lock, note, unsure, broken>>
  BY DEF TakeRow, fileVars
<1>2. /\ a \in Account /\ w \in Workspace /\ lock[w] = r /\ note[w] = r
      /\ at[r] = "waiting" /\ proc[r] = "none" /\ ~unsure[r]
      /\ \A s \in held : WorkspaceOf[s] # w
  BY <1>1, Taking
<1>3. /\ at' \in [Run -> Stages] /\ \A s \in Run : at'[s] = IF s = r THEN "working" ELSE at[s]
  BY <1>1, GoTyped DEF IInv, Stages
<1>4. /\ row' \in [Account -> [Workspace -> {"none", "held", "released", "reconcile"}]]
      /\ \A b \in Account, v \in Workspace : row'[b][v] = IF b = a /\ v = w THEN "held" ELSE row[b][v]
  <2> HIDE DEF a, w
  <2> QED BY <1>1, <1>2 DEF IInv, LeaseTypeOK
<1>5. /\ busy' \in [Account -> Run \cup {None}]
      /\ \A b \in Account : busy'[b] = IF b = a THEN None ELSE busy[b]
  BY <1>1, <1>2 DEF IInv, LeaseTypeOK
<1> HIDE DEF a, w
<1>6. LeaseTypeOK' BY <1>1, <1>3, <1>4, <1>5 DEF IInv, LeaseTypeOK
<1>7. Sectioned' BY <1>1, <1>2, <1>3, <1>5 DEF IInv, LeaseTypeOK, Sectioned, a
<1>8. LeaseAgrees' BY <1>1, <1>2, <1>4, <1>5 DEF IInv, LeaseTypeOK, LeaseAgrees, a, w
<1>9. Unstarted' BY <1>1, <1>2, <1>3 DEF IInv, LeaseTypeOK, Unstarted
<1>10. TouchingHolds' BY <1>1, <1>2, <1>3, <1>5 DEF IInv, LeaseTypeOK, TouchingHolds, a
<1>11. Marked' BY <1>1 DEF IInv, Marked
<1>12. Clear' BY <1>1 DEF IInv, Clear, Changing
<1> QED BY <1>6, <1>7, <1>8, <1>9, <1>10, <1>11, <1>12 DEF IInv

LEMMA TakeFailsKeeps == ASSUME IInv, NEW r \in Run, TakeFails(r) PROVE IInv'
<1> DEFINE a == AccountOf[r]
<1> DEFINE w == WorkspaceOf[r]
<1> USE AccountAssumption, WorkspaceAssumption, NoneAssumption
<1>1. /\ up[a] /\ busy[a] = r /\ r \notin held
      /\ lock' = [lock EXCEPT ![w] = None] /\ Go(r, "dropped") /\ busy' = [busy EXCEPT ![a] = None]
      /\ UNCHANGED <<up, held, undo, ahead, proc, calledOff, note, row, unsure, broken>>
  BY DEF TakeFails, dbVars
<1>2. /\ a \in Account /\ w \in Workspace /\ lock[w] = r /\ note[w] = r
      /\ at[r] = "waiting" /\ proc[r] = "none" /\ ~unsure[r]
      /\ \A s \in held : WorkspaceOf[s] # w
  BY <1>1, Taking
<1>3. /\ at' \in [Run -> Stages] /\ \A s \in Run : at'[s] = IF s = r THEN "dropped" ELSE at[s]
  BY <1>1, GoTyped DEF IInv, Stages
<1>4. /\ lock' \in [Workspace -> Run \cup Account \cup {None}]
      /\ \A v \in Workspace : lock'[v] = IF v = w THEN None ELSE lock[v]
  BY <1>1, <1>2 DEF IInv, LeaseTypeOK
<1>5. /\ busy' \in [Account -> Run \cup {None}]
      /\ \A b \in Account : busy'[b] = IF b = a THEN None ELSE busy[b]
  BY <1>1, <1>2 DEF IInv, LeaseTypeOK
<1>6. \A b \in Account \ {a} : busy[b] # None /\ busy[b] \notin held => lock[WorkspaceOf[busy[b]]] = busy[b] /\ busy[b] # r
  BY <1>1, <1>2 DEF IInv, LeaseTypeOK, Sectioned
<1> HIDE DEF a, w
<1>7. LeaseTypeOK' BY <1>1, <1>3, <1>4, <1>5 DEF IInv, LeaseTypeOK
<1>8. Sectioned' BY <1>1, <1>2, <1>3, <1>4, <1>5, <1>6 DEF IInv, LeaseTypeOK, Sectioned
<1>9. LeaseAgrees' BY <1>1, <1>2, <1>4, <1>5 DEF IInv, LeaseTypeOK, LeaseAgrees, a, w
<1>10. Unstarted' BY <1>1, <1>2, <1>3 DEF IInv, LeaseTypeOK, Unstarted
<1>11. TouchingHolds' BY <1>1, <1>2, <1>3, <1>5 DEF IInv, LeaseTypeOK, TouchingHolds
<1>12. Marked' BY <1>1 DEF IInv, Marked
<1>13. Clear' BY <1>1, <1>4 DEF IInv, Clear, Changing, w
<1> QED BY <1>7, <1>8, <1>9, <1>10, <1>11, <1>12, <1>13 DEF IInv

\* The first write of a release, whoever calls it.
LEMMA FileReleased ==
  ASSUME IInv, NEW r \in Run, Free(AccountOf[r]), r \in held, ReleaseFile(r, unsure'[r]),
         unsure' \in [Run -> BOOLEAN], unsure[r] => unsure'[r],
         \A s \in Run \ {r} : unsure'[s] = unsure[s] /\ at'[s] = at[s],
         UNCHANGED <<up, held, row, lock>>
  PROVE  /\ busy' \in [Account -> Run \cup {None}] /\ note' \in [Workspace -> Run \cup {None}]
         /\ \A b \in Account : busy'[b] = IF b = AccountOf[r] THEN r ELSE busy[b]
         /\ Sectioned' /\ LeaseAgrees' /\ Marked' /\ Clear'
<1> DEFINE a == AccountOf[r]
<1> DEFINE w == WorkspaceOf[r]
<1> USE AccountAssumption, WorkspaceAssumption, NoneAssumption
<1>1. a \in Account /\ w \in Workspace /\ up[a] /\ busy[a] = None /\ lock[w] = r /\ note[w] = r
  BY DEF IInv, LeaseTypeOK, LeaseAgrees, Free
<1>2. /\ busy' \in [Account -> Run \cup {None}]
      /\ \A b \in Account : busy'[b] = IF b = a THEN r ELSE busy[b]
  BY <1>1 DEF IInv, LeaseTypeOK, ReleaseFile
<1>3. /\ note' \in [Workspace -> Run \cup {None}]
      /\ \A v \in Workspace : note'[v] = IF v = w /\ ~unsure'[r] THEN None ELSE note[v]
  BY <1>1 DEF IInv, LeaseTypeOK, ReleaseFile
<1> HIDE DEF a, w
<1>4. Sectioned' BY <1>1, <1>2, <1>3 DEF IInv, LeaseTypeOK, Sectioned, a
<1>5. LeaseAgrees' BY <1>1, <1>2, <1>3 DEF IInv, LeaseTypeOK, LeaseAgrees, a, w
<1>6. Marked' BY <1>1, <1>3 DEF IInv, LeaseTypeOK, Marked, w
<1>7. Clear' BY <1>1, <1>3 DEF IInv, LeaseTypeOK, Clear, Changing, w
<1> QED BY <1>2, <1>3, <1>4, <1>5, <1>6, <1>7 DEF a

\* A step that writes neither the lock file nor the row.
LEMMA NothingReleased ==
  ASSUME IInv, NEW r \in Run, Free(AccountOf[r]), KeepLease,
         \A s \in Run \ {r} : at'[s] = at[s], UNCHANGED <<up, held, row, lock, unsure>>
  PROVE  Sectioned' /\ LeaseAgrees' /\ Marked' /\ Clear'
<1> USE AccountAssumption, WorkspaceAssumption, NoneAssumption DEF KeepLease
<1>1. Sectioned' BY DEF IInv, LeaseTypeOK, Sectioned, Free
<1>2. LeaseAgrees' BY DEF IInv, LeaseTypeOK, LeaseAgrees
<1>3. Marked' BY DEF IInv, Marked
<1>4. Clear' BY DEF IInv, Clear, Changing
<1> QED BY <1>1, <1>2, <1>3, <1>4

LEMMA OverAndReleased ==
  ASSUME IInv, NEW r \in Run, Free(AccountOf[r]), r \in held, at[r] \in {"working", "ending"}, proc[r] = "none",
         Go(r, "over"), ReleaseFile(r, unsure[r]), calledOff' \subseteq Run,
         UNCHANGED <<up, held, undo, ahead, proc, lock, row, unsure, broken>>
  PROVE  IInv'
<1> USE AccountAssumption, WorkspaceAssumption, NoneAssumption
<1>1. at' \in [Run -> Stages] /\ \A s \in Run : at'[s] = IF s = r THEN "over" ELSE at[s]
  BY GoTyped DEF IInv, Stages
<1>2. /\ busy' \in [Account -> Run \cup {None}] /\ note' \in [Workspace -> Run \cup {None}]
      /\ \A b \in Account : busy'[b] = IF b = AccountOf[r] THEN r ELSE busy[b]
      /\ Sectioned' /\ LeaseAgrees' /\ Marked' /\ Clear'
  BY <1>1, FileReleased DEF IInv, LeaseTypeOK
<1>3. LeaseTypeOK' BY <1>1, <1>2 DEF IInv, LeaseTypeOK
<1>4. Unstarted' BY <1>1 DEF IInv, Unstarted
<1>5. TouchingHolds' BY <1>1, <1>2 DEF IInv, LeaseTypeOK, TouchingHolds
<1> QED BY <1>2, <1>3, <1>4, <1>5 DEF IInv

LEMMA LeftButHeld ==
  ASSUME IInv, NEW r \in Run, NEW p \in {"ending", "leaked", "over"}, Free(AccountOf[r]), r \in held,
         p # "ending" \/ at[r] \in {"working", "ending"},
         Go(r, p), KeepLease, calledOff' \subseteq Run,
         UNCHANGED <<up, held, undo, ahead, proc, lock, row, unsure, broken>>
  PROVE  IInv'
<1> USE AccountAssumption, WorkspaceAssumption, NoneAssumption
<1>1. at' \in [Run -> Stages] /\ \A s \in Run : at'[s] = IF s = r THEN p ELSE at[s]
  BY GoTyped DEF IInv, Stages
<1>2. Sectioned' /\ LeaseAgrees' /\ Marked' /\ Clear'
  BY <1>1, NothingReleased
<1>3. LeaseTypeOK' BY <1>1 DEF IInv, LeaseTypeOK, KeepLease
<1>4. Unstarted' BY <1>1 DEF IInv, Unstarted
<1>5. TouchingHolds' BY <1>1 DEF IInv, LeaseTypeOK, TouchingHolds, KeepLease
<1> QED BY <1>2, <1>3, <1>4, <1>5 DEF IInv

LEMMA EndKeeps == ASSUME IInv, NEW r \in Run, End(r) PROVE IInv'
<1>1. /\ Free(AccountOf[r]) /\ at[r] = "working" /\ r \in held
      /\ calledOff' \subseteq Run /\ UNCHANGED <<up, held, undo, ahead, proc, lock, row, unsure, broken>>
  BY DEF IInv, LeaseTypeOK, TouchingHolds, End, dbVars
<1>2. CASE proc[r] = "none" /\ Go(r, "over") /\ ReleaseFile(r, unsure[r])
  BY <1>1, <1>2, OverAndReleased
<1>3. CASE (Go(r, "ending") \/ Go(r, "over")) /\ KeepLease
  BY <1>1, <1>3, LeftButHeld
<1> QED BY <1>2, <1>3 DEF End

LEMMA EndingGoesOnKeeps == ASSUME IInv, NEW r \in Run, EndingGoesOn(r) PROVE IInv'
  BY OverAndReleased DEF IInv, LeaseTypeOK, TouchingHolds, EndingGoesOn, dbVars

LEMMA CancelGoesOnKeeps == ASSUME IInv, NEW r \in Run, CancelGoesOn(r) PROVE IInv'
<1>1. /\ Free(AccountOf[r]) /\ proc[r] = "none" /\ calledOff' \subseteq Run
      /\ UNCHANGED <<up, held, undo, ahead, proc, lock, row, unsure, broken>>
  BY DEF IInv, LeaseTypeOK, CancelGoesOn, dbVars
<1>2. CASE at[r] = "working" /\ Go(r, "over") /\ ReleaseFile(r, unsure[r])
  BY <1>1, <1>2, OverAndReleased DEF IInv, TouchingHolds
<1>3. CASE at[r] = "ending" /\ Go(r, "leaked") /\ KeepLease
  BY <1>1, <1>3, LeftButHeld DEF IInv, TouchingHolds
<1> QED BY <1>2, <1>3 DEF CancelGoesOn

LEMMA ProcessEndsKeeps == ASSUME IInv, NEW r \in Run, ProcessEnds(r) PROVE IInv'
<1> USE AccountAssumption, WorkspaceAssumption, NoneAssumption
<1>1. /\ Free(AccountOf[r]) /\ proc[r] = "running" /\ r \in held /\ AccountOf[r] \in Account
      /\ UNCHANGED <<up, held, undo, at, ahead, calledOff, lock, row, broken>>
  BY DEF IInv, TouchingHolds, ProcessEnds
<1>2. /\ proc' \in [Run -> {"none", "running", "orphan"}]
      /\ \A s \in Run : proc'[s] = IF s = r THEN "none" ELSE proc[s]
  BY DEF IInv, LeaseTypeOK, ProcessEnds
<1>3. /\ unsure' \in [Run -> BOOLEAN] /\ (unsure[r] => unsure'[r])
      /\ \A s \in Run \ {r} : unsure'[s] = unsure[s]
  BY DEF IInv, LeaseTypeOK, ProcessEnds, Outcome
<1>4. at[r] \notin {"new", "waiting", "parked", "dropped"}
  BY <1>1 DEF IInv, Unstarted
<1>5. Unstarted' BY <1>1, <1>2, <1>3, <1>4 DEF IInv, Unstarted
<1>6. /\ note[WorkspaceOf[r]] = r
  BY <1>1 DEF IInv, LeaseTypeOK, LeaseAgrees, Free
<1>7. CASE at[r] = "over"
  <2>1. /\ busy' \in [Account -> Run \cup {None}] /\ note' \in [Workspace -> Run \cup {None}]
        /\ \A b \in Account : busy'[b] = IF b = AccountOf[r] THEN r ELSE busy[b]
        /\ Sectioned' /\ LeaseAgrees' /\ Marked' /\ Clear'
    <3>1. ReleaseFile(r, unsure'[r]) BY <1>7 DEF ProcessEnds, MonitorReleases
    <3> QED BY <1>1, <1>3, <3>1, FileReleased
  <2>2. LeaseTypeOK' BY <1>1, <1>2, <1>3, <2>1 DEF IInv, LeaseTypeOK
  <2>3. TouchingHolds'
    <3>1. \A s \in Run : at[s] \in {"working", "ending"} \/ proc'[s] = "running" => s # r /\ s \in held /\ busy'[AccountOf[s]] # s
      BY <1>1, <1>2, <1>7, <2>1 DEF IInv, LeaseTypeOK, TouchingHolds
    <3>2. \A s \in Run : proc'[s] = "orphan" => unsure'[s]
      BY <1>2, <1>3 DEF IInv, TouchingHolds
    <3> QED BY <1>1, <3>1, <3>2 DEF TouchingHolds
  <2> QED BY <1>5, <2>1, <2>2, <2>3 DEF IInv
<1>8. CASE at[r] # "over"
  <2>1. UNCHANGED <<note, busy>> BY <1>8 DEF ProcessEnds, MonitorReleases, KeepLease
  <2>2. LeaseTypeOK' BY <1>1, <1>2, <1>3, <2>1 DEF IInv, LeaseTypeOK
  <2>3. Sectioned' BY <1>1, <2>1 DEF IInv, LeaseTypeOK, Sectioned
  <2>4. LeaseAgrees' BY <1>1, <2>1 DEF IInv, LeaseTypeOK, LeaseAgrees
  <2>5. TouchingHolds' BY <1>1, <1>2, <1>3, <2>1 DEF IInv, LeaseTypeOK, TouchingHolds
  <2>6. Marked' BY <1>3, <1>6, <2>1 DEF IInv, Marked
  <2>7. Clear' BY <1>1, <2>1 DEF IInv, Clear, Changing
  <2> QED BY <1>5, <2>2, <2>3, <2>4, <2>5, <2>6, <2>7 DEF IInv
<1> QED BY <1>7, <1>8

LEMMA ChangeEndsKeeps == ASSUME IInv, NEW a \in Account, NEW w \in Workspace, ChangeEnds(a, w) PROVE IInv'
<1> USE AccountAssumption, WorkspaceAssumption, NoneAssumption
<1>1. /\ lock[w] = a /\ UNCHANGED <<up, busy, held, at, ahead, proc, calledOff, note, row, unsure>>
  BY DEF ChangeEnds, runnerVars
<1>2. /\ lock' \in [Workspace -> Run \cup Account \cup {None}]
      /\ \A v \in Workspace : lock'[v] = IF v = w THEN None ELSE lock[v]
  BY DEF IInv, LeaseTypeOK, ChangeEnds
<1>3. undo' \in [Workspace -> Run \cup {None}]
  BY DEF IInv, LeaseTypeOK, ChangeEnds
<1>4. broken' \in [Run -> BOOLEAN]
  BY DEF IInv, LeaseTypeOK, ChangeEnds, Undone
<1>5. LeaseTypeOK' BY <1>1, <1>2, <1>3, <1>4 DEF IInv, LeaseTypeOK
<1>6. Sectioned' BY <1>1, <1>2 DEF IInv, LeaseTypeOK, Sectioned
<1>7. LeaseAgrees' BY <1>1, <1>2 DEF IInv, LeaseTypeOK, LeaseAgrees
<1>8. Unstarted' BY <1>1 DEF IInv, Unstarted
<1>9. TouchingHolds' BY <1>1 DEF IInv, TouchingHolds
<1>10. Marked' BY <1>1 DEF IInv, Marked
<1>11. Clear' BY <1>1, <1>2 DEF IInv, Clear, Changing
<1> QED BY <1>5, <1>6, <1>7, <1>8, <1>9, <1>10, <1>11 DEF IInv

LEMMA EnqueueKeeps == ASSUME IInv, NEW r \in Run, Enqueue(r) PROVE IInv'
<1> USE AccountAssumption, WorkspaceAssumption, NoneAssumption
<1> USE DEF IInv, LeaseTypeOK, Enqueue, Go, Free, Of, runnerVars, fileVars, dbVars
<1>1. LeaseTypeOK' BY DEF Stages
<1>2. Sectioned' BY DEF Sectioned, LeaseAgrees, Unstarted
<1>3. LeaseAgrees' BY DEF Sectioned, LeaseAgrees
<1>4. Unstarted' BY DEF Unstarted, TouchingHolds
<1>5. TouchingHolds' BY DEF Unstarted, TouchingHolds
<1>6. Marked' BY DEF Marked, LeaseAgrees, TouchingHolds, Unstarted, Clear, Changing, Sectioned
<1>7. Clear' BY DEF Clear, Changing, LeaseAgrees, Sectioned
<1> QED BY <1>1, <1>2, <1>3, <1>4, <1>5, <1>6, <1>7

LEMMA ParkKeeps == ASSUME IInv, NEW r \in Run, Queue(r) PROVE IInv'
<1> USE AccountAssumption, WorkspaceAssumption, NoneAssumption
<1> USE DEF IInv, LeaseTypeOK, Queue, Go, Free, Waiting, runnerVars, fileVars, dbVars
<1>1. LeaseTypeOK' BY DEF Stages
<1>2. Sectioned' BY DEF Sectioned, LeaseAgrees, Unstarted
<1>3. LeaseAgrees' BY DEF Sectioned, LeaseAgrees
<1>4. Unstarted' BY DEF Unstarted, TouchingHolds
<1>5. TouchingHolds' BY DEF Unstarted, TouchingHolds
<1>6. Marked' BY DEF Marked, LeaseAgrees, TouchingHolds, Unstarted, Clear, Changing, Sectioned
<1>7. Clear' BY DEF Clear, Changing, LeaseAgrees, Sectioned
<1> QED BY <1>1, <1>2, <1>3, <1>4, <1>5, <1>6, <1>7

LEMMA TakeFileKeeps == ASSUME IInv, NEW r \in Run, TakeFile(r) PROVE IInv'
<1> USE AccountAssumption, WorkspaceAssumption, NoneAssumption
<1> USE DEF IInv, LeaseTypeOK, TakeFile, Free, LockFile, Verifiable, Of, In, Waiting, runnerVars, fileVars, dbVars
<1>1. LeaseTypeOK' BY DEF Stages
<1>2. Sectioned' BY DEF Sectioned, LeaseAgrees, Unstarted
<1>3. LeaseAgrees' BY DEF Sectioned, LeaseAgrees
<1>4. Unstarted' BY DEF Unstarted, TouchingHolds
<1>5. TouchingHolds' BY DEF Unstarted, TouchingHolds
<1>6. Marked' BY DEF Marked, LeaseAgrees, TouchingHolds, Unstarted, Clear, Changing, Sectioned
<1>7. Clear' BY DEF Clear, Changing, LeaseAgrees, Sectioned
<1> QED BY <1>1, <1>2, <1>3, <1>4, <1>5, <1>6, <1>7

LEMMA LosesTrackKeeps == ASSUME IInv, NEW r \in Run, LosesTrack(r) PROVE IInv'
<1> USE AccountAssumption, WorkspaceAssumption, NoneAssumption
<1> USE DEF IInv, LeaseTypeOK, LosesTrack, Free, runnerVars, fileVars, dbVars
<1>1. LeaseTypeOK' BY DEF Stages
<1>2. Sectioned' BY DEF Sectioned, LeaseAgrees, Unstarted
<1>3. LeaseAgrees' BY DEF Sectioned, LeaseAgrees
<1>4. Unstarted' BY DEF Unstarted, TouchingHolds
<1>5. TouchingHolds' BY DEF Unstarted, TouchingHolds
<1>6. Marked' BY DEF Marked, LeaseAgrees, TouchingHolds, Unstarted, Clear, Changing, Sectioned
<1>7. Clear' BY DEF Clear, Changing, LeaseAgrees, Sectioned
<1> QED BY <1>1, <1>2, <1>3, <1>4, <1>5, <1>6, <1>7

LEMMA StartProcessKeeps == ASSUME IInv, NEW r \in Run, StartProcess(r) PROVE IInv'
<1> USE AccountAssumption, WorkspaceAssumption, NoneAssumption
<1> USE DEF IInv, LeaseTypeOK, StartProcess, Free, runnerVars, fileVars, dbVars
<1>1. LeaseTypeOK' BY DEF Stages
<1>2. Sectioned' BY DEF Sectioned, LeaseAgrees, Unstarted
<1>3. LeaseAgrees' BY DEF Sectioned, LeaseAgrees
<1>4. Unstarted' BY DEF Unstarted, TouchingHolds
<1>5. TouchingHolds' BY DEF Unstarted, TouchingHolds
<1>6. Marked' BY DEF Marked, LeaseAgrees, TouchingHolds, Unstarted, Clear, Changing, Sectioned
<1>7. Clear' BY DEF Clear, Changing, LeaseAgrees, Sectioned
<1> QED BY <1>1, <1>2, <1>3, <1>4, <1>5, <1>6, <1>7

LEMMA CancelKeeps == ASSUME IInv, NEW r \in Run, CancelTask(r) PROVE IInv'
<1> USE AccountAssumption, WorkspaceAssumption, NoneAssumption
<1> USE DEF IInv, LeaseTypeOK, CancelTask, Free, runnerVars, fileVars, dbVars
<1>1. LeaseTypeOK' BY DEF Stages
<1>2. Sectioned' BY DEF Sectioned, LeaseAgrees, Unstarted
<1>3. LeaseAgrees' BY DEF Sectioned, LeaseAgrees
<1>4. Unstarted' BY DEF Unstarted, TouchingHolds
<1>5. TouchingHolds' BY DEF Unstarted, TouchingHolds
<1>6. Marked' BY DEF Marked, LeaseAgrees, TouchingHolds, Unstarted, Clear, Changing, Sectioned
<1>7. Clear' BY DEF Clear, Changing, LeaseAgrees, Sectioned
<1> QED BY <1>1, <1>2, <1>3, <1>4, <1>5, <1>6, <1>7

LEMMA ReleaseRowKeeps == ASSUME IInv, NEW r \in Run, ReleaseRow(r) PROVE IInv'
<1> USE AccountAssumption, WorkspaceAssumption, NoneAssumption
<1> USE DEF IInv, LeaseTypeOK, ReleaseRow, runnerVars, fileVars, dbVars
<1>1. LeaseTypeOK' BY DEF Stages
<1>2. Sectioned' BY DEF Sectioned, LeaseAgrees, Unstarted
<1>3. LeaseAgrees' BY DEF Sectioned, LeaseAgrees
<1>4. Unstarted' BY DEF Unstarted, TouchingHolds
<1>5. TouchingHolds' BY DEF Unstarted, TouchingHolds
<1>6. Marked' BY DEF Marked, LeaseAgrees, TouchingHolds, Unstarted, Clear, Changing, Sectioned
<1>7. Clear' BY DEF Clear, Changing, LeaseAgrees, Sectioned
<1> QED BY <1>1, <1>2, <1>3, <1>4, <1>5, <1>6, <1>7

LEMMA OrphanEndsKeeps == ASSUME IInv, NEW r \in Run, OrphanEnds(r) PROVE IInv'
<1> USE AccountAssumption, WorkspaceAssumption, NoneAssumption
<1> USE DEF IInv, LeaseTypeOK, OrphanEnds, runnerVars, fileVars, dbVars
<1>1. LeaseTypeOK' BY DEF Stages
<1>2. Sectioned' BY DEF Sectioned, LeaseAgrees, Unstarted
<1>3. LeaseAgrees' BY DEF Sectioned, LeaseAgrees
<1>4. Unstarted' BY DEF Unstarted, TouchingHolds
<1>5. TouchingHolds' BY DEF Unstarted, TouchingHolds
<1>6. Marked' BY DEF Marked, LeaseAgrees, TouchingHolds, Unstarted, Clear, Changing, Sectioned
<1>7. Clear' BY DEF Clear, Changing, LeaseAgrees, Sectioned
<1> QED BY <1>1, <1>2, <1>3, <1>4, <1>5, <1>6, <1>7

LEMMA RollbackBeginsKeeps == ASSUME IInv, NEW r \in Run, RollbackBegins(r) PROVE IInv'
<1> USE AccountAssumption, WorkspaceAssumption, NoneAssumption
<1> USE DEF IInv, LeaseTypeOK, RollbackBegins, Open, Free, Idle, LockFile, runnerVars, fileVars, dbVars
<1>1. LeaseTypeOK' BY DEF Stages
<1>2. Sectioned' BY DEF Sectioned, LeaseAgrees, Unstarted
<1>3. LeaseAgrees' BY DEF Sectioned, LeaseAgrees
<1>4. Unstarted' BY DEF Unstarted, TouchingHolds
<1>5. TouchingHolds' BY DEF Unstarted, TouchingHolds
<1>6. Marked' BY DEF Marked, LeaseAgrees, TouchingHolds, Unstarted, Clear, Changing, Sectioned
<1>7. Clear' BY DEF Clear, Changing, LeaseAgrees, Sectioned
<1> QED BY <1>1, <1>2, <1>3, <1>4, <1>5, <1>6, <1>7

LEMMA ChangeBeginsKeeps == ASSUME IInv, NEW a \in Account, NEW w \in Workspace, ChangeBegins(a, w) PROVE IInv'
<1> USE AccountAssumption, WorkspaceAssumption, NoneAssumption
<1> USE DEF IInv, LeaseTypeOK, ChangeBegins, Open, Free, Idle, LockFile, runnerVars, fileVars, dbVars
<1>1. LeaseTypeOK' BY DEF Stages
<1>2. Sectioned' BY DEF Sectioned, LeaseAgrees, Unstarted
<1>3. LeaseAgrees' BY DEF Sectioned, LeaseAgrees
<1>4. Unstarted' BY DEF Unstarted, TouchingHolds
<1>5. TouchingHolds' BY DEF Unstarted, TouchingHolds
<1>6. Marked' BY DEF Marked, LeaseAgrees, TouchingHolds, Unstarted, Clear, Changing, Sectioned
<1>7. Clear' BY DEF Clear, Changing, LeaseAgrees, Sectioned
<1> QED BY <1>1, <1>2, <1>3, <1>4, <1>5, <1>6, <1>7

LEMMA DiesKeeps == ASSUME IInv, NEW a \in Account, Dies(a) PROVE IInv'
<1> USE AccountAssumption, WorkspaceAssumption, NoneAssumption
<1> USE DEF IInv, LeaseTypeOK, Dies, LeftInDoubt, Of, Waiting, runnerVars, fileVars, dbVars
<1>1. LeaseTypeOK' BY DEF Stages
<1>2. Sectioned' BY DEF Sectioned, LeaseAgrees, Unstarted
<1>3. LeaseAgrees' BY DEF Sectioned, LeaseAgrees
<1>4. Unstarted' BY DEF Unstarted, TouchingHolds
<1>5. TouchingHolds' BY DEF Unstarted, TouchingHolds
<1>6. Marked' BY DEF Marked, LeaseAgrees, TouchingHolds, Unstarted, Clear, Changing, Sectioned
<1>7. Clear' BY DEF Clear, Changing, LeaseAgrees, Sectioned
<1> QED BY <1>1, <1>2, <1>3, <1>4, <1>5, <1>6, <1>7

LEMMA StartsKeeps == ASSUME IInv, NEW a \in Account, Starts(a) PROVE IInv'
<1> USE AccountAssumption, WorkspaceAssumption, NoneAssumption
<1> USE DEF IInv, LeaseTypeOK, Starts, runnerVars, fileVars, dbVars
<1>1. LeaseTypeOK' BY DEF Stages
<1>2. Sectioned' BY DEF Sectioned, LeaseAgrees, Unstarted
<1>3. LeaseAgrees' BY DEF Sectioned, LeaseAgrees
<1>4. Unstarted' BY DEF Unstarted, TouchingHolds
<1>5. TouchingHolds' BY DEF Unstarted, TouchingHolds
<1>6. Marked' BY DEF Marked, LeaseAgrees, TouchingHolds, Unstarted, Clear, Changing, Sectioned
<1>7. Clear' BY DEF Clear, Changing, LeaseAgrees, Sectioned
<1> QED BY <1>1, <1>2, <1>3, <1>4, <1>5, <1>6, <1>7

-----------------------------------------------------------------------------
LEMMA InitHolds == LeaseInit => IInv
  BY NoneAssumption DEF LeaseInit, IInv, LeaseTypeOK, Stages, Sectioned, LeaseAgrees, Unstarted, TouchingHolds, Marked, Clear, Changing

LEMMA StepKeeps == IInv /\ [LeaseNext]_leaseVars => IInv'
<1> SUFFICES ASSUME IInv, [LeaseNext]_leaseVars PROVE IInv' OBVIOUS
<1>1. ASSUME NEW r \in Run, Acquire(r) PROVE IInv'
  BY <1>1, EnqueueKeeps, ParkKeeps, TakeFileKeeps, TakeRowKeeps, TakeFailsKeeps DEF Acquire
<1>2. ASSUME NEW r \in Run, Work(r) PROVE IInv'
  BY <1>2, LosesTrackKeeps, StartProcessKeeps, CancelKeeps, EndKeeps, ReleaseRowKeeps,
     ProcessEndsKeeps, EndingGoesOnKeeps, CancelGoesOnKeeps, OrphanEndsKeeps DEF Work
<1>3. CASE UNCHANGED leaseVars
  BY <1>3 DEF leaseVars, runnerVars, fileVars, dbVars, IInv, LeaseTypeOK, Sectioned, LeaseAgrees, Unstarted, TouchingHolds,
     Marked, Clear, Changing
<1> QED BY <1>1, <1>2, <1>3, RollbackBeginsKeeps, ChangeBeginsKeeps, ChangeEndsKeeps, DiesKeeps, StartsKeeps DEF LeaseNext

LEMMA Inductive == LeaseSpec => []IInv
  BY InitHolds, StepKeeps, PTL DEF LeaseSpec

LEMMA OneUser == ASSUME IInv PROVE NoTwoWriters
<1> USE WorkspaceAssumption, AccountAssumption, NoneAssumption
<1>1. ASSUME NEW r \in Run, Touches(r)
      PROVE  note[WorkspaceOf[r]] = r /\ ~Changing(WorkspaceOf[r])
  <2>1. CASE proc[r] = "orphan"
    BY <2>1 DEF IInv, TouchingHolds, Marked, Clear
  <2>2. CASE proc[r] # "orphan"
    BY <1>1, <2>2 DEF Touches, Changing, IInv, LeaseTypeOK, TouchingHolds, LeaseAgrees
  <2> QED BY <2>1, <2>2
<1> QED BY <1>1 DEF NoTwoWriters, Changing

\* A workspace has one user, whom UserOf names.
UserKnown ==
  \A w \in Workspace :
    /\ \A r \in In(w) : Touches(r) => UserOf(w) = r
    /\ (\A r \in In(w) : ~Touches(r)) => UserOf(w) = IF Changing(w) THEN lock[w] ELSE None

(* The state is of its type, for any accounts, workspaces and runs. *)
THEOREM TypeCorrect == LeaseSpec => []LeaseTypeOK
<1>1. IInv => LeaseTypeOK BY DEF IInv
<1> QED BY <1>1, Inductive, PTL

(* The lock, the name in the lock file and the row agree on every lease that is
   held and not being taken or returned. *)
THEOREM LeasesAgree == LeaseSpec => []LeaseAgrees
<1>1. IInv => LeaseAgrees BY DEF IInv
<1> QED BY <1>1, Inductive, PTL

(* A workspace has one writer: who works in it holds the lock, or has left its
   name in the lock file with effects that nobody verified. *)
THEOREM OneWriter == LeaseSpec => []NoTwoWriters
<1>1. IInv => NoTwoWriters BY OneUser
<1> QED BY <1>1, Inductive, PTL

(* Nobody enters a workspace with unverified effects. *)
THEOREM UnverifiedIsClosed == LeaseSpec => NoUnverifiedHandover
<1> DEFINE Entered == \A r \in Run, a \in Account, w \in Workspace :
             (TakeFile(r) /\ WorkspaceOf[r] = w) \/ Open(a, w) => \A s \in In(w) : ~unsure[s]
<1>1. IInv => Entered
  BY NoneAssumption DEF IInv, Marked, TakeFile, Verifiable, Open, In
<1>2. IInv /\ [LeaseNext]_leaseVars => [Entered]_leaseVars
  BY <1>1
<1>3. LeaseSpec => [][IInv /\ [LeaseNext]_leaseVars]_leaseVars BY Inductive, PTL DEF LeaseSpec
<1> QED BY <1>1, Inductive, PTL DEF NoUnverifiedHandover

-----------------------------------------------------------------------------
(* The refinement: what a step may do to the workspaces. *)

\* Who begins to work has just taken the lease, a change by the user begins in
\* a workspace that nobody holds or has left a name in, and only who works
\* leaves unverified effects.
Orderly ==
  /\ \A r \in Run : Touches(r)' /\ ~Touches(r) => up[AccountOf[r]] /\ busy[AccountOf[r]] = r /\ r \notin held
  /\ \A w \in Workspace : Changing(w)' => lock'[w] = lock[w] \/ (lock[w] = None /\ note[w] = None)
  /\ \A r \in Run : unsure'[r] # unsure[r] => unsure'[r] /\ Touches(r)

LEMMA StepsAreOrderly == ASSUME IInv, LeaseNext PROVE Orderly
<1> USE AccountAssumption, WorkspaceAssumption, NoneAssumption
<1> USE DEF Orderly, Touches, Changing, IInv, LeaseTypeOK, runnerVars, fileVars, dbVars
<1>1. ASSUME NEW r \in Run, Enqueue(r) PROVE Orderly
  BY <1>1 DEF Enqueue, Go, Free
<1>2. ASSUME NEW r \in Run, Queue(r) PROVE Orderly
  BY <1>2 DEF Queue, Go, Free, Waiting
<1>3. ASSUME NEW r \in Run, TakeFile(r) PROVE Orderly
  BY <1>3 DEF TakeFile, LockFile
<1>4. ASSUME NEW r \in Run, TakeRow(r) PROVE Orderly
  BY <1>4 DEF TakeRow, Go
<1>5. ASSUME NEW r \in Run, TakeFails(r) PROVE Orderly
  BY <1>5 DEF TakeFails, Go
<1>6. ASSUME NEW r \in Run, LosesTrack(r) PROVE Orderly
  BY <1>6 DEF LosesTrack
<1>7. ASSUME NEW r \in Run, StartProcess(r) PROVE Orderly
  BY <1>7 DEF StartProcess
<1>8. ASSUME NEW r \in Run, CancelTask(r) PROVE Orderly
  BY <1>8 DEF CancelTask
<1>9. ASSUME NEW r \in Run, End(r) PROVE Orderly
  BY <1>9 DEF End, Go
<1>10. ASSUME NEW r \in Run, ReleaseRow(r) PROVE Orderly
  BY <1>10 DEF ReleaseRow
<1>11. ASSUME NEW r \in Run, ProcessEnds(r) PROVE Orderly
  BY <1>11 DEF ProcessEnds, Outcome
<1>12. ASSUME NEW r \in Run, EndingGoesOn(r) PROVE Orderly
  BY <1>12 DEF EndingGoesOn, Go
<1>13. ASSUME NEW r \in Run, CancelGoesOn(r) PROVE Orderly
  BY <1>13 DEF CancelGoesOn, Go
<1>14. ASSUME NEW r \in Run, OrphanEnds(r) PROVE Orderly
  BY <1>14 DEF OrphanEnds
<1>15. ASSUME NEW r \in Run, RollbackBegins(r) PROVE Orderly
  BY <1>15 DEF RollbackBegins, Open, LockFile
<1>16. ASSUME NEW a \in Account, NEW w \in Workspace, ChangeBegins(a, w) PROVE Orderly
  BY <1>16 DEF ChangeBegins, Open, LockFile
<1>17. ASSUME NEW a \in Account, NEW w \in Workspace, ChangeEnds(a, w) PROVE Orderly
  BY <1>17 DEF ChangeEnds
<1>18. ASSUME NEW a \in Account, Dies(a) PROVE Orderly
  BY <1>18 DEF Dies, LeftInDoubt
<1>19. ASSUME NEW a \in Account, Starts(a) PROVE Orderly
  BY <1>19 DEF Starts
<1> QED BY <1>1, <1>2, <1>3, <1>4, <1>5, <1>6, <1>7, <1>8, <1>9, <1>10, <1>11, <1>12, <1>13, <1>14, <1>15, <1>16, <1>17, <1>18, <1>19 DEF LeaseNext, Acquire, Work

LEMMA UserIs == ASSUME NoTwoWriters PROVE UserKnown
<1>1. ASSUME NEW w \in Workspace, NEW r \in In(w), Touches(r) PROVE UserOf(w) = r
  <2> DEFINE c == CHOOSE s \in In(w) : Touches(s)
  <2>1. UserOf(w) = c BY <1>1 DEF UserOf
  <2>2. c \in In(w) /\ Touches(c) BY <1>1
  <2> HIDE DEF c
  <2> QED BY <1>1, <2>1, <2>2 DEF NoTwoWriters, In
<1> QED BY <1>1 DEF UserKnown, UserOf

LEMMA StepIsUse ==
  ASSUME IInv, NoTwoWriters, UserKnown, NoTwoWriters', UserKnown', Orderly, NEW w \in Workspace
  PROVE  /\ \/ UserOf(w) = None /\ (\A r \in In(w) : ~unsure[r]) /\ UserOf(w)' \in Run \cup Account
            \/ UserOf(w) # None /\ UserOf(w)' = None
            \/ UserOf(w)' = UserOf(w)
         /\ \A r \in In(w) : unsure'[r] # unsure[r] => unsure'[r] /\ UserOf(w) # None
<1> USE AccountAssumption, WorkspaceAssumption, NoneAssumption
<1>2. /\ \A r \in In(w) : Touches(r) => UserOf(w) = r
      /\ (\A r \in In(w) : ~Touches(r)) => UserOf(w) = IF Changing(w) THEN lock[w] ELSE None
  BY DEF UserKnown
<1>3. /\ \A r \in In(w) : Touches(r)' => UserOf(w)' = r
      /\ (\A r \in In(w) : ~Touches(r)') => UserOf(w)' = IF Changing(w)' THEN lock'[w] ELSE None
  BY DEF UserKnown
<1>4. ASSUME NEW r \in In(w), Touches(r)', ~Touches(r)
      PROVE  UserOf(w) = None /\ \A s \in In(w) : ~unsure[s]
  <2>1. lock[w] = r /\ note[w] = r /\ ~unsure[r]
    BY <1>4, Taking DEF Orderly, In
  <2>2. \A s \in In(w) : ~unsure[s]
    BY <2>1 DEF IInv, Marked, In
  <2>3. \A s \in In(w) : ~Touches(s)
    BY <1>4, <2>1, <2>2 DEF IInv, LeaseTypeOK, TouchingHolds, LeaseAgrees, Touches, In
  <2> QED BY <1>2, <2>1, <2>2, <2>3 DEF Changing, In
<1>5. ASSUME Changing(w)', lock'[w] # lock[w]
      PROVE  lock[w] = None /\ \A s \in In(w) : ~unsure[s] /\ ~Touches(s)
  <2>1. lock[w] = None /\ note[w] = None BY <1>5 DEF Orderly
  <2>2. \A s \in In(w) : ~unsure[s]
    BY <2>1 DEF IInv, Marked, In
  <2> QED BY <2>1, <2>2 DEF IInv, LeaseTypeOK, TouchingHolds, LeaseAgrees, Touches, In
<1>6. \A r \in In(w) : unsure'[r] # unsure[r] => unsure'[r] /\ UserOf(w) # None
  BY <1>2 DEF Orderly, In
<1>7. CASE \E r \in In(w) : Touches(r)'
  BY <1>2, <1>3, <1>4, <1>6, <1>7 DEF In
<1>8. CASE \A r \in In(w) : ~Touches(r)'
  <2>1. CASE Changing(w)'
    BY <1>2, <1>3, <1>5, <1>6, <1>8, <2>1 DEF Orderly, Changing, NoTwoWriters, In
  <2>2. CASE ~Changing(w)'
    BY <1>3, <1>6, <1>8, <2>2
  <2> QED BY <2>1, <2>2
<1> QED BY <1>7, <1>8

(* The leases implement WorkspaceUse: a workspace has one user at a time, and
   nobody enters one that is closed. *)
THEOREM LeasesKeepPromise == LeaseSpec => PromiseKept
<1> DEFINE u == [w \in Workspace |-> UserOf(w)]
<1> DEFINE c == [w \in Workspace |-> Closed(w)]
<1>1. LeaseInit => Promise!Init
  <2> SUFFICES ASSUME LeaseInit PROVE Promise!Init OBVIOUS
  <2>1. \A w \in Workspace : UserOf(w) = None /\ Closed(w) = FALSE
    BY NoneAssumption DEF LeaseInit, UserOf, Closed, Touches, Changing, In
  <2> QED BY <2>1 DEF Promise!Init
<1>2. IInv => NoTwoWriters /\ UserKnown
  BY OneUser, UserIs
<1>3. ASSUME IInv, NoTwoWriters, UserKnown, NoTwoWriters', UserKnown', [LeaseNext]_leaseVars PROVE [Promise!Next]_<<u, c>>
  <2>1. CASE UNCHANGED leaseVars
    BY <2>1 DEF leaseVars, runnerVars, fileVars, dbVars, UserOf, Closed, Touches, Changing
  <2>2. CASE LeaseNext
    <3>1. Orderly BY <1>3, <2>2, StepsAreOrderly
    <3>2. \A w \in Workspace :
            /\ \/ UserOf(w) = None /\ (\A r \in In(w) : ~unsure[r]) /\ UserOf(w)' \in Run \cup Account
               \/ UserOf(w) # None /\ UserOf(w)' = None
               \/ UserOf(w)' = UserOf(w)
            /\ \A r \in In(w) : unsure'[r] # unsure[r] => unsure'[r] /\ UserOf(w) # None
      BY <1>3, <3>1, StepIsUse
    <3>3. \A w \in Workspace : (Closed(w))' # Closed(w) => (Closed(w))' /\ UserOf(w) # None
      BY <3>2 DEF Closed, In
    <3>4. \A w \in Workspace : Promise!Enter(w) \/ Promise!Leave(w) \/ Promise!Stay(w)
      BY <3>2 DEF Promise!Enter, Promise!Leave, Promise!Stay, Closed
    <3>5. \A w \in Workspace : Promise!Doubt(w)
      BY <3>3 DEF Promise!Doubt
    <3>6. u' \in [Workspace -> (Run \cup Account) \cup {None}] /\ c' \in [Workspace -> BOOLEAN]
      <4>1. \A w \in Workspace : (UserOf(w))' \in Run \cup Account \cup {None}
        BY <1>3 DEF UserKnown, Changing, In
      <4>2. \A w \in Workspace : (Closed(w))' \in BOOLEAN BY DEF Closed
      <4> QED BY <4>1, <4>2
    <3> QED BY <3>4, <3>5, <3>6 DEF Promise!Next
  <2> QED BY <1>3, <2>1, <2>2
<1> QED BY <1>1, <1>2, <1>3, Inductive, PTL DEF LeaseSpec, PromiseKept, Promise!Spec
=============================================================================
