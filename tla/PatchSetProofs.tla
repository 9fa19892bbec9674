--------------------------- MODULE PatchSetProofs ---------------------------
(***************************************************************************)
(* Proofs about the patches of a run, for every set of paths and texts,    *)
(* every list of proposals and every bound.                                *)
(***************************************************************************)
EXTENDS PatchSet, SequenceTheorems, FiniteSetTheorems, WellFoundedInduction, TLAPS

Entry(P, i) == journal[P][i].status
Todo(P) == patches[P].todo
Final == {"applied", "partially_applied", "failed", "interrupted"}

(* The journal of a patch: its intents are written in order, each after the
   confirmation of the one before, and its status agrees with them. *)
KnownAt(P, i) ==
  /\ <<P, i>> \in made => Entry(P, i) # "none"
  /\ Entry(P, i) # "none" => i \in Todo(P) /\ \A k \in Todo(P) : k < i => Entry(P, k) = "applied"
  /\ Entry(P, i) = "applied" => <<P, i>> \in made
  /\ Status(P) \in {"none", "validated", "conflicted"} => Entry(P, i) = "none"
  /\ Status(P) = "applied" /\ i \in Todo(P) => Entry(P, i) = "applied"
  /\ Status(P) = "failed" => Entry(P, i) # "applied"
Known == \A P \in Patch, i \in Index : KnownAt(P, i)

(* What is confirmed is what the change was to leave. *)
ConfirmedAt(P, i) ==
  Entry(P, i) = "applied" =>
    Formed(journal[P][i].after) /\ Matches(journal[P][i].after, Change(P, i).after, FALSE)
Confirmed == \A P \in Patch, i \in Index : ConfirmedAt(P, i)

(* The disk: identities, and what its last writers have left on it. *)
WrittenAt(p, P, i) ==
  wrote[p] = <<P, i>> =>
    /\ <<P, i>> \in made /\ Change(P, i).path = p
    /\ Entry(P, i) = "applied" => disk[p] = journal[P][i].after
Written == \A p \in Path, P \in Patch, i \in Index : WrittenAt(p, P, i)
DiskFormed == \A p \in Path : Formed(disk[p])

(* The application under way. *)
Making == {"guard", "check", "write", "unlink", "confirm"}
JobSound ==
  job # Idle =>
    /\ job.patch \in Patch /\ Status(job.patch) = "applying" /\ job.pc # "idle"
    /\ job.pc = "save" => \A k \in Todo(job.patch) : Entry(job.patch, k) = "applied"
    /\ job.pc \in Making =>
         /\ job.i \in Todo(job.patch)
         /\ \A k \in Todo(job.patch) :
              /\ k < job.i => Entry(job.patch, k) = "applied"
              /\ k > job.i => Entry(job.patch, k) = "none"
         /\ Entry(job.patch, job.i) = IF job.pc = "guard" THEN "none" ELSE "applying"
    /\ job.pc \in {"check", "write"} => <<job.patch, job.i>> \notin made
    /\ job.pc \in {"unlink", "confirm"} => <<job.patch, job.i>> \in made
    /\ job.pc = "unlink" => wrote[Here.path] \in {None, <<job.patch, job.i>>}
    /\ job.pc = "write" /\ ~job.slipped => Matches(disk[Here.path], Here.before, TRUE)

(* The halves of a move in a list of changes. *)
Halves(c, i, j) ==
  i \in DOMAIN c /\ j \in DOMAIN c /\ c[i].mate = c[j].path /\ c[i].before.kind = "missing"

ProposalSound(P) ==
  patches[P].of = 0 =>
    LET c == patches[P].changes IN
    /\ Todo(P) = DOMAIN c
    /\ \A i, j \in DOMAIN c : c[i].path = c[j].path => i = j
    /\ \A i, j \in Index :
         Halves(c, i, j) =>
           i < j /\ c[j].mate = c[i].path /\ c[i].after.kind = "file" /\ c[j].after.kind = "missing"
Proposed == \A P \in Patch : ProposalSound(P)

(* A rollback undoes confirmed changes of a patch that will not change again. *)
RollbackAt(R, A) ==
  patches[R].of = A =>
    /\ patches[A].of = 0 /\ Status(A) \in Final
    /\ \A k \in Todo(R) :
         LET m == Mirror(A, k) IN
         /\ m \in Todo(A) /\ Entry(A, m) = "applied"
         /\ Change(R, k).path = Change(A, m).path
         /\ Change(R, k).before = journal[A][m].after
         /\ Change(R, k).after = [Change(A, m).before EXCEPT !.id = None]
    /\ \A i, j \in Index :
         Halves(patches[A].changes, i, j) => (Mirror(A, i) \in Todo(R) <=> Mirror(A, j) \in Todo(R))
RollbackSound == \A R, A \in Patch : RollbackAt(R, A)

IInv == TypeOK /\ Known /\ Confirmed /\ Written /\ DiskFormed /\ JobSound /\ Proposed /\ RollbackSound

-----------------------------------------------------------------------------
(* The types of the parts of a state. *)
PatchRecords ==
  [status : Statuses, of : 0 .. MaxPatch, todo : SUBSET Index, changes : Seq(ChangeRecords)]
Records == [status : {"none", "applying", "applied"}, after : Entries]

\* A patch and its changes.
LEMMA PatchTyped ==
  ASSUME TypeOK, NEW P \in Patch
  PROVE  /\ patches[P] \in PatchRecords
         /\ Len(patches[P].changes) \in 0 .. MaxChange
         /\ DOMAIN patches[P].changes = 1 .. Len(patches[P].changes)
         /\ patches[P].todo \subseteq 1 .. Len(patches[P].changes) /\ patches[P].todo \subseteq Index
         /\ \A i \in 1 .. Len(patches[P].changes) : Change(P, i) \in ChangeRecords
<1>1. patches[P] \in PatchRecords /\ patches[P].todo \subseteq DOMAIN patches[P].changes
      /\ Len(patches[P].changes) <= MaxChange
  BY DEF TypeOK, PatchRecords
<1>2. patches[P].changes \in Seq(ChangeRecords) /\ patches[P].todo \subseteq Index
  BY <1>1 DEF PatchRecords
<1>3. Len(patches[P].changes) \in Nat /\ DOMAIN patches[P].changes = 1 .. Len(patches[P].changes)
      /\ patches[P].changes \in [1 .. Len(patches[P].changes) -> ChangeRecords]
  BY <1>2, LenProperties
<1> QED
  BY <1>1, <1>2, <1>3, BoundAssumption DEF Change

\* A list of at most MaxChange changes.
LEMMA ListTyped ==
  ASSUME NEW n \in 0 .. MaxChange, NEW c \in [1 .. n -> ChangeRecords]
  PROVE  c \in Seq(ChangeRecords) /\ Len(c) = n /\ DOMAIN c = 1 .. n
<1>1. n \in Nat
  BY BoundAssumption
<1>2. c \in Seq(ChangeRecords)
  BY <1>1, SeqDef
<1>3. Len(c) \in Nat /\ DOMAIN c = 1 .. Len(c) /\ DOMAIN c = 1 .. n
  BY <1>2, LenProperties
<1> QED
  BY <1>1, <1>2, <1>3

\* What the program and the user put on the disk.
LEMMA EntriesTyped ==
  ASSUME NEW t \in Text \cup {None}, NEW i \in Nat \cup {None}
  PROVE  Gone \in Entries /\ Folder(i) \in Entries /\ File(t, i) \in Entries /\ Linked(t, i) \in Entries
  BY DEF Gone, Folder, File, Linked, Entries

\* A new status for one patch.
LEMMA SetPatchTyped ==
  ASSUME TypeOK, NEW P \in Patch, NEW s \in Statuses, SetPatch(P, s)
  PROVE  \A Q \in Patch :
           /\ patches'[Q] \in PatchRecords
           /\ patches'[Q].status = IF Q = P THEN s ELSE Status(Q)
           /\ patches'[Q].of = patches[Q].of /\ patches'[Q].todo = patches[Q].todo
           /\ patches'[Q].changes = patches[Q].changes
  BY DEF TypeOK, PatchRecords, SetPatch, Status

-----------------------------------------------------------------------------
(* A new patch or rollback; nothing is known of it yet. *)
LEMMA NewKeeps ==
  ASSUME IInv, NEW P \in Patch, NEW A \in 0 .. MaxPatch, NEW n \in 0 .. MaxChange,
         NEW S \in SUBSET (1 .. n), NEW c \in [1 .. n -> ChangeRecords],
         New(P, A, S, c), UNCHANGED <<disk, fresh, journal, job, phase, edits, made, wrote>>,
         ProposalSound(P)', \A B \in Patch : RollbackAt(P, B)'
  PROVE  IInv'
<1> USE BoundAssumption
<1>1. Len(c) = n /\ c \in Seq(ChangeRecords) /\ DOMAIN c = 1 .. n
  BY ListTyped
<1>2. /\ Status(P) = "none"
      /\ patches' = [patches EXCEPT ![P] = [status |-> "validated", of |-> A, todo |-> S, changes |-> c]]
  BY DEF New
<1>3. patches \in [Patch -> PatchRecords]
  BY DEF IInv, TypeOK, PatchRecords
<1>4. S \in SUBSET Index
  BY DEF Index
<1>5. patches' \in [Patch -> PatchRecords]
  BY <1>1, <1>2, <1>3, <1>4 DEF PatchRecords, Statuses
<1>6. \A Q \in Patch : Q # P => patches'[Q] = patches[Q]
  BY <1>2, <1>3
<1>7. patches'[P] = [status |-> "validated", of |-> A, todo |-> S, changes |-> c]
  BY <1>2, <1>3
<1>8. TypeOK'
  <2>1. \A Q \in Patch : patches'[Q].todo \subseteq DOMAIN patches'[Q].changes /\ Len(patches'[Q].changes) <= MaxChange
    <3>1. patches'[P].todo \subseteq DOMAIN patches'[P].changes /\ Len(patches'[P].changes) <= MaxChange
      BY <1>1, <1>7
    <3>2. \A Q \in Patch : patches[Q].todo \subseteq DOMAIN patches[Q].changes /\ Len(patches[Q].changes) <= MaxChange
      BY DEF IInv, TypeOK
    <3> QED
      BY <1>6, <3>1, <3>2
  <2> QED
    BY <2>1, <1>5 DEF IInv, TypeOK, PatchRecords
<1>9. \A i \in Index : Entry(P, i) = "none" /\ <<P, i>> \notin made
  BY <1>2 DEF IInv, Known, KnownAt
<1>10. Known'
  <2>1. ASSUME NEW i \in Index PROVE KnownAt(P, i)'
    BY <1>7, <1>9 DEF KnownAt, Entry, Todo, Status
  <2>2. ASSUME NEW Q \in Patch, NEW i \in Index, Q # P PROVE KnownAt(Q, i)'
    BY <1>6, <2>2 DEF IInv, Known, KnownAt, Entry, Todo, Status
  <2> QED
    BY <2>1, <2>2 DEF Known
<1>11. Confirmed' /\ DiskFormed'
  BY <1>6, <1>9 DEF IInv, Confirmed, ConfirmedAt, Entry, Change, DiskFormed
<1>12. Written'
  BY <1>6, <1>9 DEF IInv, Written, WrittenAt, Entry, Change
<1>13. JobSound'
  BY <1>2, <1>6 DEF IInv, JobSound, Entry, Todo, Status, Here, Change
<1>14. Proposed'
  BY <1>6 DEF IInv, Proposed, ProposalSound, Todo
<1>15. ASSUME NEW R \in Patch, NEW B \in Patch, R # P
       PROVE  RollbackAt(R, B)'
  <2>1. CASE B = P
    BY <2>1, <1>2, <1>6, <1>15 DEF IInv, RollbackSound, RollbackAt, Final
  <2>2. CASE B # P
    <3>1. RollbackAt(R, B)
      BY DEF IInv, RollbackSound
    <3>2. patches'[R] = patches[R] /\ patches'[B] = patches[B]
      BY <2>2, <1>6, <1>15
    <3> QED
      BY <3>1, <3>2 DEF RollbackAt, Todo, Status, Entry, Mirror, Change
  <2> QED
    BY <2>1, <2>2
<1> QED
  BY <1>8, <1>10, <1>11, <1>12, <1>13, <1>14, <1>15 DEF IInv, RollbackSound

(* A new status for a patch that no rollback refers to, or that has ended. *)
LEMMA SetPatchKeeps ==
  ASSUME IInv, NEW P \in Patch, NEW s \in Statuses, SetPatch(P, s),
         Status(P) \notin Final, UNCHANGED journal
  PROVE  Proposed' /\ RollbackSound' /\ Confirmed'
<1>1. \A Q \in Patch :
           /\ patches'[Q].status = IF Q = P THEN s ELSE Status(Q)
           /\ patches'[Q].of = patches[Q].of /\ patches'[Q].todo = patches[Q].todo
           /\ patches'[Q].changes = patches[Q].changes
  BY SetPatchTyped DEF IInv
<1>2. Proposed'
  BY <1>1 DEF IInv, Proposed, ProposalSound, Todo
<1>3. RollbackSound'
  <2> SUFFICES ASSUME NEW R \in Patch, NEW A \in Patch PROVE RollbackAt(R, A)'
    BY DEF RollbackSound
  <2>1. RollbackAt(R, A)
    BY DEF IInv, RollbackSound
  <2>2. Status(A) \in Final => Status(A)' \in Final
    BY <1>1 DEF Status
  <2> QED
    BY <1>1, <2>1, <2>2 DEF RollbackAt, Todo, Entry, Mirror, Change
<1>4. Confirmed'
  BY <1>1 DEF IInv, Confirmed, ConfirmedAt, Entry, Change
<1> QED
  BY <1>2, <1>3, <1>4

\* The same for the patch that is being applied, or is not yet begun.
LEMMA SetPatchTypes ==
  ASSUME IInv, NEW P \in Patch, NEW s \in Statuses, SetPatch(P, s)
  PROVE  /\ patches' \in [Patch -> PatchRecords]
         /\ \A Q \in Patch : patches'[Q].todo \subseteq DOMAIN patches'[Q].changes /\ Len(patches'[Q].changes) <= MaxChange
  BY SetPatchTyped DEF IInv, TypeOK, PatchRecords, SetPatch

(* What a proposed operation becomes. *)
LEMMA ProposedTyped ==
  ASSUME TypeOK, NEW t \in Proposal, NEW i \in 1 .. Len(t)
  PROVE  [path |-> t[i].path, mate |-> t[i].mate, before |-> disk[t[i].path], after |-> Result(t[i])] \in ChangeRecords
<1>1. t[i] \in Operation
  BY ProposalAssumption, ElementOfSeq
<1>2. t[i].path \in Path /\ t[i].mate \in Path \cup {None} /\ t[i].text \in Text \cup {None} /\ disk[t[i].path] \in Entries
  BY <1>1 DEF TypeOK, Operation
<1>3. CASE t[i].op = "arrive"
  <2>1. t[i].mate \in Path
    <3>1. \E j \in (i + 1) .. Len(t) : t[j].path = t[i].mate
      BY <1>3, ProposalAssumption
    <3>2. PICK j \in (i + 1) .. Len(t) : t[j].path = t[i].mate
      BY <3>1
    <3>3. t \in Seq(Operation) /\ Len(t) \in Nat
      BY ProposalAssumption, LenProperties
    <3>4. j \in 1 .. Len(t)
      BY <3>3
    <3>5. t[j] \in Operation
      BY <3>3, <3>4, ElementOfSeq
    <3> QED
      BY <3>2, <3>5 DEF Operation
  <2>2. disk[t[i].mate].text \in Text \cup {None}
    BY <2>1 DEF TypeOK, Entries
  <2>3. Result(t[i]) = File(disk[t[i].mate].text, None)
    BY <1>3 DEF Result
  <2>4. Result(t[i]) \in Entries
    BY <2>2, <2>3, EntriesTyped
  <2> QED
    BY <1>2, <2>4 DEF ChangeRecords
<1>4. CASE t[i].op # "arrive"
  <2>1. Result(t[i]) \in {Folder(None), Gone, File(t[i].text, None)}
    BY <1>4 DEF Result
  <2>2. Result(t[i]) \in Entries
    BY <1>2, <2>1, EntriesTyped
  <2> QED
    BY <1>2, <2>2 DEF ChangeRecords
<1> QED
  BY <1>3, <1>4

LEMMA ProposeKeeps ==
  ASSUME IInv, NEW P \in Patch, NEW t \in Proposal, Propose(P, t)
  PROVE  IInv'
<1> DEFINE n == Len(t)
<1> DEFINE c == [i \in 1 .. n |->
                  [path |-> t[i].path, mate |-> t[i].mate, before |-> disk[t[i].path], after |-> Result(t[i])]]
<1>1. /\ \A i \in 1 .. n : Expected(t[i])
      /\ New(P, 0, 1 .. n, c)
      /\ UNCHANGED <<disk, fresh, journal, job, phase, edits, made, wrote>>
  BY DEF Propose
<1>2. n \in 1 .. MaxChange /\ n \in Nat /\ n \in 0 .. MaxChange /\ MaxChange \in Nat
  BY ProposalAssumption, BoundAssumption
<1>3. c \in [1 .. n -> ChangeRecords]
  BY ProposedTyped DEF IInv
<1>4. /\ \A i \in 1 .. n : /\ c[i].path = t[i].path /\ c[i].mate = t[i].mate
                           /\ c[i].before = disk[t[i].path] /\ c[i].after = Result(t[i])
      /\ DOMAIN c = 1 .. n
  OBVIOUS
<1> HIDE DEF c
<1>5. patches \in [Patch -> PatchRecords]
  BY DEF IInv, TypeOK, PatchRecords
<1>6. patches'[P] = [status |-> "validated", of |-> 0, todo |-> 1 .. n, changes |-> c]
  BY <1>1, <1>5 DEF New
<1>7. \A i, j \in 1 .. n : c[i].path = c[j].path => i = j
  BY <1>4, ProposalAssumption
<1>8. ASSUME NEW i \in 1 .. n, NEW j \in 1 .. n, c[i].mate = c[j].path, c[i].before.kind = "missing"
      PROVE  i < j /\ c[j].mate = c[i].path /\ c[i].after.kind = "file" /\ c[j].after.kind = "missing"
  <2>1. t[i] \in Operation /\ t[j] \in Operation
    BY <1>2, ProposalAssumption, ElementOfSeq
  <2>2. t[i].mate # None
    BY <1>4, <1>8, <2>1, NoneAssumption DEF Operation
  <2>3. t[i].op \in {"arrive", "depart"}
    BY <2>2, ProposalAssumption
  <2>4. t[i].op # "depart"
    <3>1. t[i].op = "depart" => disk[t[i].path].kind = "file"
      BY <1>1 DEF Expected
    <3> QED
      BY <3>1, <1>4, <1>8
  <2>5. t[i].op = "arrive"
    BY <2>3, <2>4
  <2>6. \E k \in (i + 1) .. Len(t) : t[k].op = "depart" /\ t[k].path = t[i].mate /\ t[k].mate = t[i].path
    BY <2>5, ProposalAssumption
  <2>7. PICK k \in (i + 1) .. Len(t) : t[k].op = "depart" /\ t[k].path = t[i].mate /\ t[k].mate = t[i].path
    BY <2>6
  <2>8. k \in 1 .. n /\ i < k
    BY <1>2
  <2>9. k = j
    BY <2>7, <2>8, <1>4, <1>8, ProposalAssumption
  <2>10. Result(t[i]).kind = "file" /\ Result(t[j]).kind = "missing"
    BY <2>5, <2>7, <2>9 DEF Result, File, Gone
  <2> QED
    BY <2>7, <2>8, <2>9, <2>10, <1>4
<1>9. ProposalSound(P)'
  BY <1>4, <1>6, <1>7, <1>8 DEF ProposalSound, Todo, Halves
<1>10. \A B \in Patch : RollbackAt(P, B)'
  BY <1>6 DEF RollbackAt, Patch
<1>11. 0 \in 0 .. MaxPatch /\ 1 .. n \in SUBSET (1 .. n)
  BY BoundAssumption
<1> QED
  BY <1>1, <1>2, <1>3, <1>9, <1>10, <1>11, NewKeeps

(* What a rollback takes is what was confirmed, with its identity. *)
LEMMA SameEntry ==
  ASSUME NEW e \in Entries, NEW g \in Entries, Formed(e), Formed(g), Matches(e, g, TRUE)
  PROVE  e = g
<1>1. e.kind = g.kind /\ e.text = g.text /\ e.id = g.id
  BY DEF Formed, Matches
<1> QED
  BY <1>1 DEF Entries

(* The halves of a move are undone together. *)
LEMMA HalvesTogether ==
  ASSUME IInv, NEW A \in Patch, patches[A].of = 0, NEW i \in Index, NEW j \in Index,
         Halves(patches[A].changes, i, j)
  PROVE  Undoable(A, i) <=> Undoable(A, j)
<1> DEFINE c == patches[A].changes
<1>1. /\ Todo(A) = DOMAIN c /\ i \in DOMAIN c /\ j \in DOMAIN c
      /\ \A k, m \in DOMAIN c : c[k].path = c[m].path => k = m
      /\ c[i].mate = c[j].path /\ c[j].mate = c[i].path
      /\ c[i].after.kind = "file" /\ c[j].after.kind = "missing"
  BY DEF IInv, Proposed, ProposalSound, Halves
<1>2. Whole(A, i) <=> Intact(A, i) /\ Intact(A, j)
  BY <1>1 DEF Whole, Change, Todo
<1>3. Whole(A, j) <=> Intact(A, i) /\ Intact(A, j)
  BY <1>1 DEF Whole, Change, Todo
<1>4. Intact(A, i) => disk[c[i].path].kind = "file"
  BY <1>1 DEF IInv, Confirmed, ConfirmedAt, Intact, Entry, Matches, Change
<1>5. Intact(A, j) => disk[c[j].path].kind = "missing"
  BY <1>1 DEF IInv, Confirmed, ConfirmedAt, Intact, Entry, Matches, Change
<1>6. Intact(A, i) /\ Intact(A, j) => Emptied(A, i) /\ Emptied(A, j)
  BY <1>4, <1>5 DEF Emptied, Change
<1> QED
  BY <1>2, <1>3, <1>6 DEF Undoable

LEMMA RollbackPreviewKeeps ==
  ASSUME IInv, NEW P \in Patch, NEW A \in Patch, RollbackPreview(P, A)
  PROVE  IInv'
<1> DEFINE n == Len(patches[A].changes)
<1> DEFINE S == {k \in 1 .. n : Undoable(A, Mirror(A, k))}
<1> DEFINE c == [k \in 1 .. n |-> IF k \in S THEN Undo(A, Mirror(A, k)) ELSE Change(A, Mirror(A, k))]
<1>1. /\ patches[A].of = 0 /\ Status(A) \in Final
      /\ New(P, A, S, c)
      /\ UNCHANGED <<disk, fresh, journal, job, phase, edits, made, wrote>>
  BY DEF RollbackPreview, Final
<1>2. /\ n \in 0 .. MaxChange /\ n \in Nat /\ MaxChange \in Nat
      /\ DOMAIN patches[A].changes = 1 .. n
      /\ \A i \in 1 .. n : Change(A, i) \in ChangeRecords
  BY PatchTyped, BoundAssumption DEF IInv
<1>3. \A k \in 1 .. n : Mirror(A, k) \in 1 .. n /\ Mirror(A, k) \in Index
  BY <1>2 DEF Mirror, Index
<1>4. \A i \in 1 .. n : Mirror(A, i) \in 1 .. n /\ Mirror(A, Mirror(A, i)) = i
  BY <1>2 DEF Mirror
<1>5. disk \in [Path -> Entries] /\ patches \in [Patch -> PatchRecords] /\ journal \in [Patch -> [Index -> Records]]
  BY DEF IInv, TypeOK, PatchRecords, Records
<1>6. ASSUME NEW k \in 1 .. n PROVE Undo(A, Mirror(A, k)) \in ChangeRecords
  <2>1. Change(A, Mirror(A, k)) \in ChangeRecords
    BY <1>2, <1>3
  <2>2. [Change(A, Mirror(A, k)).before EXCEPT !.id = None] \in Entries
    BY <2>1 DEF ChangeRecords, Entries
  <2> QED
    BY <2>1, <2>2, <1>5 DEF Undo, ChangeRecords
<1>7. c \in [1 .. n -> ChangeRecords]
  BY <1>2, <1>3, <1>6
<1>8. /\ DOMAIN c = 1 .. n /\ S \in SUBSET (1 .. n)
      /\ \A k \in S : c[k] = Undo(A, Mirror(A, k)) /\ Undoable(A, Mirror(A, k))
      /\ \A k \in 1 .. n : k \in S <=> Undoable(A, Mirror(A, k))
  OBVIOUS
<1> HIDE DEF c, S
<1>9. patches'[P] = [status |-> "validated", of |-> A, todo |-> S, changes |-> c]
  BY <1>1, <1>5 DEF New
<1>10. A # P /\ patches'[A] = patches[A] /\ journal' = journal
  BY <1>1, <1>5 DEF New, Final
<1>11. ProposalSound(P)'
  BY <1>9 DEF ProposalSound, Patch
<1>12. ASSUME NEW k \in S
       PROVE  LET m == Mirror(A, k) IN
              /\ m \in Todo(A) /\ Entry(A, m) = "applied"
              /\ c[k].path = Change(A, m).path /\ c[k].before = journal[A][m].after
              /\ c[k].after = [Change(A, m).before EXCEPT !.id = None]
  <2> DEFINE m == Mirror(A, k)
  <2>1. m \in Index /\ m \in 1 .. n /\ Intact(A, m) /\ c[k] = Undo(A, m)
    BY <1>3, <1>8 DEF Undoable, Whole
  <2>2. Entry(A, m) = "applied" /\ Matches(disk[Change(A, m).path], journal[A][m].after, TRUE)
    BY <2>1 DEF Intact, Entry
  <2>3. m \in Todo(A)
    BY <2>1, <2>2 DEF IInv, Known, KnownAt
  <2>4. Change(A, m).path \in Path /\ journal[A][m].after \in Entries
    BY <1>2, <1>5, <2>1 DEF ChangeRecords, Records
  <2>5. Formed(disk[Change(A, m).path]) /\ Formed(journal[A][m].after)
    BY <2>1, <2>2, <2>4 DEF IInv, DiskFormed, Confirmed, ConfirmedAt
  <2>6. disk[Change(A, m).path] = journal[A][m].after
    BY <2>2, <2>4, <2>5, <1>5, SameEntry
  <2> QED
    BY <2>1, <2>2, <2>3, <2>6 DEF Undo
<1>13. ASSUME NEW i \in Index, NEW j \in Index, Halves(patches[A].changes, i, j)
       PROVE  Mirror(A, i) \in S <=> Mirror(A, j) \in S
  BY <1>1, <1>2, <1>4, <1>8, <1>13, HalvesTogether DEF Halves
<1>14. RollbackAt(P, A)'
  BY <1>1, <1>9, <1>10, <1>12, <1>13 DEF RollbackAt, Todo, Entry, Change, Mirror, Status
<1>15. \A B \in Patch : RollbackAt(P, B)'
  BY <1>9, <1>14 DEF RollbackAt
<1>16. A \in 0 .. MaxPatch
  BY DEF Patch
<1> QED
  BY <1>1, <1>2, <1>7, <1>8, <1>11, <1>15, <1>16, NewKeeps

-----------------------------------------------------------------------------
(* apply. *)
LEMMA BeginKeeps ==
  ASSUME IInv, NEW P \in Patch, Begin(P)
  PROVE  IInv'
<1>1. /\ job = Idle /\ Status(P) = "validated" /\ SetPatch(P, "applying")
      /\ UNCHANGED <<disk, fresh, journal, phase, edits, made, wrote>>
  BY DEF Begin, Beginnable
<1>2. PICK i \in Index : Follows(P, 0, i) /\ job' = [patch |-> P, i |-> i, pc |-> "guard", slipped |-> FALSE]
  BY DEF Begin
<1>3. /\ Proposed' /\ RollbackSound' /\ Confirmed'
      /\ patches' \in [Patch -> PatchRecords]
      /\ \A Q \in Patch : patches'[Q].todo \subseteq DOMAIN patches'[Q].changes /\ Len(patches'[Q].changes) <= MaxChange
  BY <1>1, SetPatchKeeps, SetPatchTypes DEF Statuses, Final
<1>4. \A Q \in Patch :
           /\ patches'[Q].status = IF Q = P THEN "applying" ELSE Status(Q)
           /\ patches'[Q].of = patches[Q].of /\ patches'[Q].todo = patches[Q].todo
           /\ patches'[Q].changes = patches[Q].changes
  BY <1>1, SetPatchTyped DEF IInv, Statuses
<1>5. TypeOK'
  <2>1. P \in 0 .. MaxPatch /\ i \in 0 .. MaxChange
    BY DEF Patch, Index
  <2>2. job' \in [patch : 0 .. MaxPatch, i : 0 .. MaxChange, slipped : BOOLEAN,
                 pc : {"idle", "guard", "check", "write", "unlink", "confirm", "save"}]
    BY <1>2, <2>1
  <2> QED
    BY <1>1, <1>3, <2>2 DEF IInv, TypeOK, PatchRecords
<1>6. Known'
  <2>1. ASSUME NEW Q \in Patch, NEW k \in Index PROVE KnownAt(Q, k)'
    <3>1. KnownAt(Q, k)
      BY DEF IInv, Known
    <3> QED
      BY <1>1, <1>4, <3>1 DEF KnownAt, Entry, Todo, Status
  <2> QED
    BY <2>1 DEF Known
<1>7. Written' /\ DiskFormed'
  BY <1>1, <1>4 DEF IInv, Written, WrittenAt, DiskFormed, Entry, Change
<1>8. \A k \in Index : Entry(P, k) = "none"
  BY <1>1 DEF IInv, Known, KnownAt
<1>9. Todo(P) \subseteq Index /\ i \in Todo(P) /\ \A k \in Todo(P) : ~(k < i)
  BY <1>2, PatchTyped, BoundAssumption DEF IInv, Follows, Todo, Index
<1>10. JobSound'
  BY <1>1, <1>2, <1>4, <1>8, <1>9 DEF JobSound, Entry, Todo, Status, Making
<1> QED
  BY <1>3, <1>5, <1>6, <1>7, <1>10 DEF IInv

LEMMA BeginRefusedKeeps ==
  ASSUME IInv, NEW P \in Patch, BeginRefused(P)
  PROVE  IInv'
<1>1. /\ job = Idle /\ Status(P) = "validated"
      /\ UNCHANGED <<disk, fresh, journal, job, phase, edits, made, wrote>>
  BY DEF BeginRefused, Beginnable
<1>2. PICK s \in {"conflicted", "failed"} : SetPatch(P, s)
  BY DEF BeginRefused
<1>3. /\ Proposed' /\ RollbackSound' /\ Confirmed'
      /\ patches' \in [Patch -> PatchRecords]
      /\ \A Q \in Patch : patches'[Q].todo \subseteq DOMAIN patches'[Q].changes /\ Len(patches'[Q].changes) <= MaxChange
  BY <1>1, <1>2, SetPatchKeeps, SetPatchTypes DEF Statuses, Final
<1>4. \A Q \in Patch :
           /\ patches'[Q].status = IF Q = P THEN s ELSE Status(Q)
           /\ patches'[Q].of = patches[Q].of /\ patches'[Q].todo = patches[Q].todo
           /\ patches'[Q].changes = patches[Q].changes
  BY <1>1, <1>2, SetPatchTyped DEF IInv, Statuses
<1>5. TypeOK'
  BY <1>1, <1>3 DEF IInv, TypeOK, PatchRecords
<1>6. \A k \in Index : Entry(P, k) = "none"
  BY <1>1 DEF IInv, Known, KnownAt
<1>7. Known'
  <2>1. ASSUME NEW Q \in Patch, NEW k \in Index PROVE KnownAt(Q, k)'
    <3>1. KnownAt(Q, k)
      BY DEF IInv, Known
    <3> QED
      BY <1>1, <1>2, <1>4, <1>6, <3>1 DEF KnownAt, Entry, Todo, Status
  <2> QED
    BY <2>1 DEF Known
<1>8. Written' /\ DiskFormed'
  BY <1>1, <1>4 DEF IInv, Written, WrittenAt, DiskFormed, Entry, Change
<1>9. JobSound'
  BY <1>1 DEF JobSound
<1> QED
  BY <1>3, <1>5, <1>7, <1>8, <1>9 DEF IInv

(* The change that is being made. *)
LEMMA HereTyped ==
  ASSUME IInv, job.pc \in Making
  PROVE  /\ job # Idle /\ job.patch \in Patch /\ job.i \in Index /\ job.i \in Todo(job.patch)
         /\ Status(job.patch) = "applying"
         /\ Here \in ChangeRecords /\ Here.path \in Path
<1>1. job # Idle
  BY DEF Idle, Making
<1>2. job.patch \in Patch /\ job.i \in Todo(job.patch) /\ Status(job.patch) = "applying"
  BY <1>1 DEF IInv, JobSound
<1>3. job.i \in Index /\ Here \in ChangeRecords
  BY <1>2, PatchTyped DEF IInv, Todo, Here
<1> QED
  BY <1>1, <1>2, <1>3 DEF ChangeRecords

JobRecords ==
  [patch : 0 .. MaxPatch, i : 0 .. MaxChange, slipped : BOOLEAN,
   pc : {"idle", "guard", "check", "write", "unlink", "confirm", "save"}]

LEMMA GoToTyped ==
  ASSUME IInv, NEW i \in 0 .. MaxChange, NEW p \in Making \cup {"save"}, GoTo(i, p)
  PROVE  /\ job' \in JobRecords
         /\ job'.patch = job.patch /\ job'.i = i /\ job'.pc = p /\ job'.slipped = FALSE
<1>1. job \in JobRecords
  BY DEF IInv, TypeOK, JobRecords
<1> QED
  BY <1>1 DEF GoTo, Making, JobRecords

(* An entry of the journal. *)
LEMMA RecordKeeps ==
  ASSUME IInv, job.pc \in Making, NEW e \in Records, Record(e), UNCHANGED patches
  PROVE  /\ journal' \in [Patch -> [Index -> Records]]
         /\ journal'[job.patch][job.i] = e
         /\ \A Q \in Patch, k \in Index : Q # job.patch \/ k # job.i => journal'[Q][k] = journal[Q][k]
         /\ Proposed' /\ RollbackSound'
<1>1. job.patch \in Patch /\ job.i \in Index /\ Status(job.patch) = "applying"
  BY HereTyped
<1>2. journal \in [Patch -> [Index -> Records]]
  BY DEF IInv, TypeOK, Records
<1>3. /\ journal' \in [Patch -> [Index -> Records]]
      /\ journal'[job.patch][job.i] = e
      /\ \A Q \in Patch, k \in Index : Q # job.patch \/ k # job.i => journal'[Q][k] = journal[Q][k]
  BY <1>1, <1>2 DEF Record
<1>4. Proposed'
  BY DEF IInv, Proposed, ProposalSound, Todo
<1>5. ASSUME NEW R \in Patch, NEW A \in Patch PROVE RollbackAt(R, A)'
  <2>1. RollbackAt(R, A)
    BY DEF IInv, RollbackSound
  <2>2. Status(A) \in Final => journal'[A] = journal[A]
    BY <1>1, <1>2 DEF Final, Record
  <2> QED
    BY <2>1, <2>2 DEF RollbackAt, Todo, Entry, Mirror, Change, Status
<1> QED
  BY <1>3, <1>4, <1>5 DEF RollbackSound

(* What depends on the patches and the journal alone. *)
LEMMA JournalStands ==
  ASSUME IInv, UNCHANGED <<patches, journal>>
  PROVE  Confirmed' /\ Proposed' /\ RollbackSound'
<1>1. Confirmed'
  BY DEF IInv, Confirmed, ConfirmedAt, Entry, Change
<1>2. Proposed'
  BY DEF IInv, Proposed, ProposalSound, Todo
<1>3. ASSUME NEW R \in Patch, NEW A \in Patch PROVE RollbackAt(R, A)'
  <2>1. RollbackAt(R, A)
    BY DEF IInv, RollbackSound
  <2> QED
    BY <2>1 DEF RollbackAt, Entry, Todo, Status, Change, Mirror
<1> QED
  BY <1>1, <1>2, <1>3 DEF RollbackSound

LEMMA IntendKeeps ==
  ASSUME IInv, Intend
  PROVE  IInv'
<1> DEFINE P == job.patch
<1> DEFINE e == [status |-> "applying", after |-> Gone]
<1>1. /\ job.pc = "guard" /\ job.pc \in Making /\ Record(e) /\ GoTo(job.i, "check")
      /\ UNCHANGED <<disk, fresh, patches, phase, edits, made, wrote>>
  BY DEF Intend, Making
<1>2. /\ job # Idle /\ P \in Patch /\ job.i \in Index /\ job.i \in Todo(P) /\ Status(P) = "applying"
      /\ Entry(P, job.i) = "none"
      /\ \A k \in Todo(P) : (k < job.i => Entry(P, k) = "applied") /\ (k > job.i => Entry(P, k) = "none")
  BY <1>1, HereTyped DEF IInv, JobSound
<1>3. e \in Records
  BY EntriesTyped DEF Records
<1>4. /\ journal' \in [Patch -> [Index -> Records]]
      /\ journal'[P][job.i] = e
      /\ \A Q \in Patch, k \in Index : Q # P \/ k # job.i => journal'[Q][k] = journal[Q][k]
      /\ Proposed' /\ RollbackSound'
  BY <1>1, <1>3, RecordKeeps
<1>5. job.i \in 0 .. MaxChange
  BY <1>2 DEF Index
<1>6. job' \in JobRecords /\ job'.patch = P /\ job'.i = job.i /\ job'.pc = "check"
  BY <1>1, <1>5, GoToTyped DEF Making
<1>7. TypeOK'
  BY <1>1, <1>4, <1>6 DEF IInv, TypeOK, Records, JobRecords
<1>8. Known'
  <2>1. ASSUME NEW Q \in Patch, NEW k \in Index PROVE KnownAt(Q, k)'
    <3>1. KnownAt(Q, k)
      BY DEF IInv, Known
    <3> QED
      BY <1>1, <1>2, <1>4, <3>1, PatchTyped DEF IInv, KnownAt, Entry, Todo, Status
  <2> QED
    BY <2>1 DEF Known
<1>9. Confirmed'
  <2>1. ASSUME NEW Q \in Patch, NEW k \in Index PROVE ConfirmedAt(Q, k)'
    <3>1. ConfirmedAt(Q, k)
      BY DEF IInv, Confirmed
    <3>2. CASE Q = P /\ k = job.i
      BY <1>4, <3>2 DEF ConfirmedAt, Entry
    <3>3. CASE Q # P \/ k # job.i
      <4>1. journal'[Q][k] = journal[Q][k] /\ Change(Q, k)' = Change(Q, k)
        BY <1>1, <1>4, <3>3 DEF Change
      <4> QED
        BY <3>1, <4>1 DEF ConfirmedAt, Entry
    <3> QED
      BY <3>2, <3>3
  <2> QED
    BY <2>1 DEF Confirmed
<1>10. Written' /\ DiskFormed'
  <2>1. ASSUME NEW p \in Path, NEW Q \in Patch, NEW k \in Index PROVE WrittenAt(p, Q, k)'
    <3>1. WrittenAt(p, Q, k)
      BY DEF IInv, Written
    <3> QED
      BY <1>1, <1>4, <3>1 DEF WrittenAt, Entry, Change
  <2>2. DiskFormed'
    BY <1>1 DEF IInv, DiskFormed
  <2> QED
    BY <2>1, <2>2 DEF Written
<1>11. <<P, job.i>> \notin made
  BY <1>2 DEF IInv, Known, KnownAt
<1>12. JobSound'
  BY <1>1, <1>2, <1>4, <1>6, <1>11, PatchTyped DEF IInv, JobSound, Entry, Todo, Status, Making
<1> QED
  BY <1>4, <1>7, <1>8, <1>9, <1>10, <1>12 DEF IInv

LEMMA CheckKeeps ==
  ASSUME IInv, Check
  PROVE  IInv'
<1>1. /\ job.pc = "check" /\ job.pc \in Making /\ GoTo(job.i, "write")
      /\ Matches(disk[Here.path], Here.before, TRUE)
      /\ UNCHANGED <<disk, fresh, patches, journal, phase, edits, made, wrote>>
  BY DEF Check, Making
<1>2. job # Idle /\ job.i \in Index /\ job.i \in 0 .. MaxChange
  BY <1>1, HereTyped DEF Index
<1>3. job' \in JobRecords /\ job'.patch = job.patch /\ job'.i = job.i /\ job'.pc = "write"
  BY <1>1, <1>2, GoToTyped DEF Making
<1>4. TypeOK'
  BY <1>1, <1>3 DEF IInv, TypeOK, JobRecords
<1>5. JobSound'
  BY <1>1, <1>2, <1>3 DEF IInv, JobSound, Entry, Todo, Status, Here, Change, Making
<1>6. Known'
  BY <1>1 DEF IInv, Known, KnownAt, Entry, Todo, Status
<1>7. Confirmed' /\ Proposed' /\ RollbackSound'
  BY <1>1, JournalStands
<1>8. Written' /\ DiskFormed'
  BY <1>1 DEF IInv, Written, WrittenAt, DiskFormed, Entry, Change
<1> QED
  BY <1>4, <1>5, <1>6, <1>7, <1>8 DEF IInv

\* What is put on the disk has an identity.
LEMMA PutTyped ==
  ASSUME IInv, NEW p \in Path, NEW e \in Entries, Formed(e), Put(p, e)
  PROVE  /\ disk' \in [Path -> Entries] /\ fresh' \in Nat /\ DiskFormed'
         /\ disk'[p] = e /\ \A q \in Path : q # p => disk'[q] = disk[q]
  BY DEF IInv, TypeOK, DiskFormed, Put, Formed

LEMMA WriteKeeps ==
  ASSUME IInv, NEW p \in Path, NEW e \in Writable, Write(p, e)
  PROVE  IInv'
<1> DEFINE P == job.patch
<1> DEFINE x == <<P, job.i>>
<1>1. /\ job.pc = "write" /\ job.pc \in Making /\ p = Here.path /\ Put(p, e)
      /\ made' = made \cup {x} /\ wrote' = [wrote EXCEPT ![p] = x]
      /\ GoTo(job.i, IF e.kind = "linked" THEN "unlink" ELSE "confirm")
      /\ UNCHANGED <<patches, journal, phase, edits>>
  BY DEF Write, Making
<1>2. /\ job # Idle /\ P \in Patch /\ job.i \in Index /\ job.i \in Todo(P) /\ Status(P) = "applying"
      /\ Entry(P, job.i) = "applying" /\ x \notin made
      /\ \A k \in Todo(P) : (k < job.i => Entry(P, k) = "applied") /\ (k > job.i => Entry(P, k) = "none")
      /\ job.i \in 0 .. MaxChange
  <2>1. job # Idle /\ P \in Patch /\ job.i \in Index /\ job.i \in Todo(P) /\ Status(P) = "applying"
    BY <1>1, HereTyped
  <2>2. JobSound
    BY DEF IInv
  <2> QED
    BY <1>1, <2>1, <2>2 DEF JobSound, Index
<1>3. e \in Entries /\ Formed(e)
  <2>1. fresh \in Nat /\ fresh # None
    BY NoneAssumption DEF IInv, TypeOK
  <2>2. CASE e = Gone \/ e = Folder(fresh)
    BY <2>1, <2>2 DEF Entries, Formed, Gone, Folder
  <2>3. ASSUME NEW t \in Text, e = File(t, fresh) \/ e = Linked(t, fresh)
        PROVE  e \in Entries /\ Formed(e)
    BY <2>1, <2>3 DEF Entries, Formed, File, Linked
  <2> QED
    BY <2>2, <2>3 DEF Writable
<1>4. /\ disk' \in [Path -> Entries] /\ fresh' \in Nat /\ DiskFormed'
      /\ disk'[p] = e /\ \A q \in Path : q # p => disk'[q] = disk[q]
  BY <1>1, <1>3, PutTyped
<1>5. /\ job' \in JobRecords /\ job'.patch = P /\ job'.i = job.i
      /\ job'.pc \in {"unlink", "confirm"}
  <2>1. PICK s \in {"unlink", "confirm"} : GoTo(job.i, s)
    BY <1>1
  <2> QED
    BY <1>2, <2>1, GoToTyped DEF Making
<1>6. wrote \in [Path -> (Patch \X Index) \cup {None}] /\ made \subseteq Patch \X Index /\ x \in Patch \X Index
  BY <1>2 DEF IInv, TypeOK
<1>7. /\ wrote' \in [Path -> (Patch \X Index) \cup {None}]
      /\ wrote'[p] = x /\ \A q \in Path : q # p => wrote'[q] = wrote[q]
  BY <1>1, <1>6
<1>8. TypeOK'
  BY <1>1, <1>4, <1>5, <1>6, <1>7 DEF IInv, TypeOK, JobRecords
<1>9. Known'
  <2>1. ASSUME NEW Q \in Patch, NEW k \in Index PROVE KnownAt(Q, k)'
    <3>1. KnownAt(Q, k)
      BY DEF IInv, Known
    <3> QED
      BY <1>1, <1>2, <3>1 DEF KnownAt, Entry, Todo, Status
  <2> QED
    BY <2>1 DEF Known
<1>10. Confirmed' /\ Proposed' /\ RollbackSound'
  BY <1>1, JournalStands
<1>11. ASSUME NEW q \in Path, NEW Q \in Patch, NEW k \in Index PROVE WrittenAt(q, Q, k)'
  <2>1. CASE q # p
    <3>1. WrittenAt(q, Q, k)
      BY DEF IInv, Written
    <3> QED
      BY <1>1, <1>4, <1>7, <2>1, <3>1 DEF WrittenAt, Entry, Change
  <2>2. CASE q = p /\ Q = P /\ k = job.i
    BY <1>1, <1>2, <2>2 DEF WrittenAt, Entry, Change, Here
  <2>3. CASE q = p /\ ~(Q = P /\ k = job.i)
    BY <1>7, <2>3 DEF WrittenAt
  <2> QED
    BY <2>1, <2>2, <2>3
<1>12. JobSound'
  <2>1. x \in made' /\ wrote'[p] = x
    BY <1>1, <1>7
  <2> QED
    BY <1>1, <1>2, <1>5, <2>1 DEF IInv, JobSound, Entry, Todo, Status, Here, Change, Making
<1> QED
  BY <1>4, <1>8, <1>9, <1>10, <1>11, <1>12 DEF IInv, Written

LEMMA UnlinkKeeps ==
  ASSUME IInv, Unlink
  PROVE  IInv'
<1> DEFINE P == job.patch
<1> DEFINE x == <<P, job.i>>
<1> DEFINE p == Here.path
<1>1. /\ job.pc = "unlink" /\ job.pc \in Making /\ GoTo(job.i, "confirm")
      /\ disk' = [disk EXCEPT ![p].kind = IF @ = "linked" THEN "file" ELSE @]
      /\ UNCHANGED <<fresh, patches, journal, phase, edits, made, wrote>>
  BY DEF Unlink, Making
<1>2. /\ job # Idle /\ P \in Patch /\ job.i \in Index /\ p \in Path /\ job.i \in 0 .. MaxChange
      /\ Entry(P, job.i) = "applying" /\ wrote[p] \in {None, x}
  <2>1. job # Idle /\ P \in Patch /\ job.i \in Index /\ p \in Path
    BY <1>1, HereTyped
  <2>2. JobSound
    BY DEF IInv
  <2> QED
    BY <1>1, <2>1, <2>2 DEF JobSound, Index
<1>3. job' \in JobRecords /\ job'.patch = P /\ job'.i = job.i /\ job'.pc = "confirm"
  BY <1>1, <1>2, GoToTyped DEF Making
<1>4. disk \in [Path -> Entries]
  BY DEF IInv, TypeOK
<1>5. /\ disk' \in [Path -> Entries]
      /\ disk'[p].id = disk[p].id /\ (disk'[p].kind = "missing" <=> disk[p].kind = "missing")
      /\ \A q \in Path : q # p => disk'[q] = disk[q]
  <2>1. /\ disk'[p] = [disk[p] EXCEPT !.kind = IF @ = "linked" THEN "file" ELSE @]
        /\ disk' \in [Path -> Entries]
        /\ \A q \in Path : q # p => disk'[q] = disk[q]
    BY <1>1, <1>2, <1>4 DEF Entries
  <2>2. disk[p] \in Entries
    BY <1>2, <1>4
  <2> QED
    BY <2>1, <2>2 DEF Entries
<1>6. TypeOK'
  BY <1>1, <1>3, <1>5 DEF IInv, TypeOK, JobRecords
<1>7. DiskFormed'
  BY <1>2, <1>5 DEF IInv, DiskFormed, Formed
<1>8. Known'
  BY <1>1 DEF IInv, Known, KnownAt, Entry, Todo, Status
<1>9. Confirmed' /\ Proposed' /\ RollbackSound'
  BY <1>1, JournalStands
<1>10. ASSUME NEW q \in Path, NEW Q \in Patch, NEW k \in Index PROVE WrittenAt(q, Q, k)'
  <2>1. WrittenAt(q, Q, k)
    BY DEF IInv, Written
  <2>2. CASE q # p
    BY <1>1, <1>5, <2>1, <2>2 DEF WrittenAt, Entry, Change
  <2>3. CASE q = p
    <3>1. <<Q, k>> # None
      BY NoneAssumption DEF Patch, Index
    <3> QED
      BY <1>1, <1>2, <2>1, <2>3, <3>1 DEF WrittenAt, Entry, Change
  <2> QED
    BY <2>2, <2>3
<1>11. JobSound'
  BY <1>1, <1>2, <1>3 DEF IInv, JobSound, Entry, Todo, Status, Making
<1> QED
  BY <1>6, <1>7, <1>8, <1>9, <1>10, <1>11 DEF IInv, Written

LEMMA ConfirmKeeps ==
  ASSUME IInv, Confirm
  PROVE  IInv'
<1>0. /\ job.pc = "confirm" /\ job.pc \in Making
      /\ job # Idle /\ job.patch \in Patch /\ job.i \in Index /\ Here.path \in Path
  BY HereTyped DEF Confirm, Making
<1> PICK P \in Patch, n \in Index, p \in Path : P = job.patch /\ n = job.i /\ p = Here.path
  BY <1>0
<1> DEFINE x == <<P, n>>
<1> DEFINE e == [status |-> "applied", after |-> disk[p]]
<1>1. /\ Record(e) /\ Matches(disk[p], Change(P, n).after, FALSE)
      /\ UNCHANGED <<disk, fresh, patches, phase, edits, made, wrote>>
  BY DEF Confirm, Here
<1>2. /\ n \in Todo(P) /\ Status(P) = "applying" /\ x \in made /\ p = Change(P, n).path
      /\ \A k \in Todo(P) : (k < n => Entry(P, k) = "applied") /\ (k > n => Entry(P, k) = "none")
  BY <1>0 DEF IInv, JobSound, Here
<1>3. disk[p] \in Entries /\ Formed(disk[p])
  BY DEF IInv, TypeOK, DiskFormed
<1>4. e \in Records
  BY <1>3 DEF Records
<1>5. /\ journal' \in [Patch -> [Index -> Records]]
      /\ journal'[P][n].status = "applied" /\ journal'[P][n].after = disk[p]
      /\ \A Q \in Patch, k \in Index : Q # P \/ k # n => journal'[Q][k] = journal[Q][k]
      /\ Proposed' /\ RollbackSound'
  BY <1>0, <1>1, <1>4, RecordKeeps
<1>6. \A k \in Todo(P) : k \in Index
  BY <1>2, PatchTyped DEF IInv, Todo
<1>7. job' \in JobRecords
  <2>1. PICK i \in Index \cup {0}, s \in {"guard", "save"} : GoTo(i, s)
    BY DEF Confirm
  <2>2. i \in 0 .. MaxChange /\ s \in Making \cup {"save"}
    BY BoundAssumption DEF Index, Making
  <2> QED
    BY <2>1, <2>2, GoToTyped
<1>8. TypeOK'
  BY <1>1, <1>5, <1>7 DEF IInv, TypeOK, Records, JobRecords
<1>9. Known'
  <2>1. ASSUME NEW Q \in Patch, NEW k \in Index PROVE KnownAt(Q, k)'
    <3>1. KnownAt(Q, k)
      BY DEF IInv, Known
    <3>2. CASE Q # P
      BY <1>1, <1>5, <3>1, <3>2, PatchTyped DEF IInv, KnownAt, Entry, Todo, Status
    <3>3. CASE Q = P
      <4>1. Entry(P, n)' = "applied" /\ Status(P)' = "applying" /\ Todo(P)' = Todo(P) /\ made' = made
        BY <1>1, <1>2, <1>5 DEF Entry, Status, Todo
      <4>2. \A m \in Index : Entry(P, m)' = "applied" \/ Entry(P, m)' = Entry(P, m)
        BY <1>5, <4>1 DEF Entry
      <4>3. Entry(P, k)' # "none" => k \in Todo(P) /\ \A m \in Todo(P) : m < k => Entry(P, m)' = "applied"
        <5>1. CASE k = n
          BY <1>2, <1>6, <4>2, <5>1
        <5>2. CASE k # n
          BY <1>5, <1>6, <3>1, <3>3, <4>2, <5>2 DEF KnownAt, Entry
        <5> QED
          BY <5>1, <5>2
      <4>4. Entry(P, k)' = "applied" => <<P, k>> \in made
        BY <1>2, <1>5, <3>1, <3>3 DEF KnownAt, Entry
      <4>5. <<P, k>> \in made => Entry(P, k)' # "none"
        BY <3>1, <3>3, <4>2 DEF KnownAt
      <4> QED
        BY <3>3, <4>1, <4>3, <4>4, <4>5 DEF KnownAt
    <3> QED
      BY <3>2, <3>3
  <2> QED
    BY <2>1 DEF Known
<1>10. ASSUME NEW Q \in Patch, NEW k \in Index PROVE ConfirmedAt(Q, k)'
  <2>1. CASE Q = P /\ k = n
    <3>1. Change(P, k)' = Change(P, n)
      BY <1>1, <2>1 DEF Change
    <3> QED
      BY <1>1, <1>3, <1>5, <2>1, <3>1 DEF ConfirmedAt
  <2>2. CASE Q # P \/ k # n
    <3>1. journal'[Q][k] = journal[Q][k] /\ Change(Q, k)' = Change(Q, k)
      BY <1>1, <1>5, <2>2 DEF Change
    <3> QED
      BY <3>1 DEF IInv, Confirmed, ConfirmedAt, Entry
  <2> QED
    BY <2>1, <2>2
<1>11. ASSUME NEW q \in Path, NEW Q \in Patch, NEW k \in Index PROVE WrittenAt(q, Q, k)'
  <2>1. WrittenAt(q, Q, k)
    BY DEF IInv, Written
  <2>2. CASE Q = P /\ k = n
    <3>1. Change(P, k)' = Change(P, n) /\ Change(P, k) = Change(P, n)
      BY <1>1, <2>2 DEF Change
    <3> QED
      BY <1>1, <1>2, <1>5, <2>1, <2>2, <3>1 DEF WrittenAt
  <2>3. CASE Q # P \/ k # n
    BY <1>1, <1>5, <2>1, <2>3 DEF WrittenAt, Entry, Change
  <2> QED
    BY <2>2, <2>3
<1>12. DiskFormed'
  BY <1>1 DEF IInv, DiskFormed
<1>13. JobSound'
  <2>1. ASSUME NEW i \in Index, Follows(P, n, i), GoTo(i, "guard") PROVE JobSound'
    <3>0. i \in 0 .. MaxChange /\ "guard" \in Making \cup {"save"}
      BY DEF Index, Making
    <3>1. job'.patch = P /\ job'.i = i /\ job'.pc = "guard"
      BY <2>1, <3>0, GoToTyped
    <3>2. i \in Todo(P) /\ n < i /\ \A k \in Todo(P) : ~(n < k /\ k < i)
      BY <2>1 DEF Follows, Todo
    <3>3. ASSUME NEW k \in Todo(P)
          PROVE  (k < i => Entry(P, k)' = "applied") /\ (k > i => Entry(P, k)' = "none")
      <4>1. k \in Nat /\ i \in Nat /\ n \in Nat /\ k \in Index
        BY <1>2, <1>6 DEF Index
      <4>2. CASE k = n
        BY <1>5, <3>2, <4>1, <4>2 DEF Entry
      <4>3. CASE k # n
        <5>1. Entry(P, k)' = Entry(P, k)
          BY <1>2, <1>5, <4>1, <4>3 DEF Entry
        <5> QED
          BY <1>2, <3>2, <4>1, <4>3, <5>1
      <4> QED
        BY <4>2, <4>3
    <3>4. Entry(P, i)' = "none"
      <4>1. i # n /\ i > n
        BY <1>2, <3>2 DEF Index
      <4> QED
        BY <1>2, <1>5, <3>2, <4>1 DEF Entry
    <3> QED
      BY <1>1, <1>2, <3>1, <3>2, <3>3, <3>4 DEF JobSound, Entry, Todo, Status
  <2>2. ASSUME \A k \in Todo(P) : k <= n, GoTo(0, "save") PROVE JobSound'
    <3>0. 0 \in 0 .. MaxChange /\ "save" \in Making \cup {"save"}
      BY BoundAssumption
    <3>1. job'.patch = P /\ job'.pc = "save"
      BY <2>2, <3>0, GoToTyped
    <3>2. ASSUME NEW k \in Todo(P) PROVE Entry(P, k)' = "applied"
      <4>1. CASE k = n
        BY <1>5, <4>1 DEF Entry
      <4>2. CASE k # n
        <5>1. k < n /\ k \in Index
          BY <1>2, <1>6, <2>2, <4>2 DEF Index
        <5> QED
          BY <1>2, <1>5, <4>2, <5>1 DEF Entry
      <4> QED
        BY <4>1, <4>2
    <3> QED
      BY <1>1, <1>2, <3>1, <3>2 DEF JobSound, Entry, Todo, Status, Making
  <2> QED
    BY <2>1, <2>2 DEF Confirm, Todo
<1> QED
  BY <1>5, <1>8, <1>9, <1>10, <1>11, <1>12, <1>13 DEF IInv, Confirmed, Written

LEMMA CompleteKeeps ==
  ASSUME IInv, Complete
  PROVE  IInv'
<1>1. /\ job.pc = "save" /\ SetPatch(job.patch, "applied") /\ job' = Idle
      /\ UNCHANGED <<disk, fresh, journal, phase, edits, made, wrote>>
  BY DEF Complete
<1>2. PICK P \in Patch : P = job.patch
  BY <1>1 DEF IInv, JobSound, Idle
<1>3. Status(P) = "applying" /\ \A k \in Todo(P) : Entry(P, k) = "applied"
  BY <1>1, <1>2 DEF IInv, JobSound, Idle
<1>4. \A Q \in Patch :
           /\ patches'[Q].status = IF Q = P THEN "applied" ELSE Status(Q)
           /\ patches'[Q].of = patches[Q].of /\ patches'[Q].todo = patches[Q].todo
           /\ patches'[Q].changes = patches[Q].changes
  BY <1>1, <1>2, SetPatchTyped DEF IInv, Statuses
<1>5. /\ Proposed' /\ RollbackSound' /\ Confirmed'
      /\ patches' \in [Patch -> PatchRecords]
      /\ \A Q \in Patch : patches'[Q].todo \subseteq DOMAIN patches'[Q].changes /\ Len(patches'[Q].changes) <= MaxChange
  BY <1>1, <1>2, <1>3, SetPatchKeeps, SetPatchTypes DEF Statuses, Final
<1>6. Idle \in JobRecords
  BY BoundAssumption DEF Idle, JobRecords
<1>7. TypeOK'
  BY <1>1, <1>5, <1>6 DEF IInv, TypeOK, PatchRecords, JobRecords
<1>8. ASSUME NEW Q \in Patch, NEW k \in Index PROVE KnownAt(Q, k)'
  <2>1. KnownAt(Q, k)
    BY DEF IInv, Known
  <2> QED
    BY <1>1, <1>3, <1>4, <2>1 DEF KnownAt, Entry, Todo, Status
<1>9. Written' /\ DiskFormed'
  BY <1>1, <1>4 DEF IInv, Written, WrittenAt, DiskFormed, Entry, Change
<1>10. JobSound'
  BY <1>1 DEF JobSound
<1> QED
  BY <1>5, <1>7, <1>8, <1>9, <1>10 DEF IInv, Known

(* Statuses that change while the journal and the disk stand, when nothing is
   being applied any more. *)
LEMMA StatusKeeps ==
  ASSUME IInv, job' = Idle, UNCHANGED <<disk, fresh, journal, edits, made, wrote>>,
         phase' \in {"running", "ended", "other"}, patches' \in [Patch -> PatchRecords],
         \A Q \in Patch :
           /\ patches'[Q].of = patches[Q].of /\ patches'[Q].todo = patches[Q].todo
           /\ patches'[Q].changes = patches[Q].changes
           /\ patches'[Q].status # Status(Q) =>
                /\ Status(Q) = "applying"
                /\ \/ patches'[Q].status \in {"partially_applied", "interrupted"}
                   \/ patches'[Q].status = "failed" /\ \A k \in Index : Entry(Q, k) # "applied"
  PROVE  IInv'
<1>1. Idle \in JobRecords
  BY BoundAssumption DEF Idle, JobRecords
<1>2. \A Q \in Patch : patches'[Q].todo \subseteq DOMAIN patches'[Q].changes /\ Len(patches'[Q].changes) <= MaxChange
  BY DEF IInv, TypeOK
<1>3. TypeOK'
  BY <1>1, <1>2 DEF IInv, TypeOK, PatchRecords, JobRecords
<1>4. ASSUME NEW Q \in Patch, NEW k \in Index PROVE KnownAt(Q, k)'
  <2>1. KnownAt(Q, k)
    BY DEF IInv, Known
  <2> QED
    BY <2>1 DEF KnownAt, Entry, Todo, Status
<1>5. Confirmed' /\ Proposed'
  <2>1. Confirmed'
    BY DEF IInv, Confirmed, ConfirmedAt, Entry, Change
  <2>2. Proposed'
    BY DEF IInv, Proposed, ProposalSound, Todo
  <2> QED
    BY <2>1, <2>2
<1>6. Written' /\ DiskFormed'
  BY DEF IInv, Written, WrittenAt, DiskFormed, Entry, Change
<1>7. ASSUME NEW R \in Patch, NEW A \in Patch PROVE RollbackAt(R, A)'
  <2>1. RollbackAt(R, A)
    BY DEF IInv, RollbackSound
  <2>2. Status(A) \in Final => Status(A)' \in Final
    BY DEF Status, Final
  <2> QED
    BY <2>1, <2>2 DEF RollbackAt, Entry, Todo, Change, Mirror
<1>8. JobSound'
  BY DEF JobSound
<1> QED
  BY <1>3, <1>4, <1>5, <1>6, <1>7, <1>8 DEF IInv, Known, RollbackSound

LEMMA FailsKeeps ==
  ASSUME IInv, Fails
  PROVE  IInv'
<1>1. /\ job # Idle /\ job' = Idle
      /\ UNCHANGED <<disk, fresh, journal, phase, edits, made, wrote>>
  BY DEF Fails
<1>2. PICK P \in Patch : P = job.patch /\ Status(P) = "applying"
  BY <1>1 DEF IInv, JobSound
<1>3. phase' \in {"running", "ended", "other"} /\ patches \in [Patch -> PatchRecords]
  BY <1>1 DEF IInv, TypeOK, PatchRecords
<1>4. CASE UNCHANGED patches
  BY <1>1, <1>3, <1>4, StatusKeeps DEF Status
<1>5. CASE SetPatch(P, IF \E i \in Index : Entry(P, i) = "applied" THEN "partially_applied" ELSE "failed")
  <2>1. PICK s \in {"partially_applied", "failed"} :
          SetPatch(P, s) /\ (s = "failed" => \A i \in Index : Entry(P, i) # "applied")
    BY <1>5
  <2>2. \A Q \in Patch :
           /\ patches'[Q].status = IF Q = P THEN s ELSE Status(Q)
           /\ patches'[Q].of = patches[Q].of /\ patches'[Q].todo = patches[Q].todo
           /\ patches'[Q].changes = patches[Q].changes
    BY <2>1, SetPatchTyped DEF IInv, Statuses
  <2>3. patches' \in [Patch -> PatchRecords]
    BY <2>1, SetPatchTypes DEF Statuses
  <2> QED
    BY <1>1, <1>2, <1>3, <2>1, <2>2, <2>3, StatusKeeps
<1> QED
  BY <1>2, <1>4, <1>5 DEF Fails, Entry

-----------------------------------------------------------------------------
(* The user, the run and the death of the service. *)
LEMMA UserPutsKeeps ==
  ASSUME IInv, NEW p \in Path, NEW e \in Entries, Formed(e), UserPuts(p, e)
  PROVE  IInv'
<1>1. /\ edits < MaxEdit /\ edits' = edits + 1 /\ Put(p, e)
      /\ wrote' = [wrote EXCEPT ![p] = None]
      /\ job' = [job EXCEPT !.slipped = @ \/ (job.pc = "write" /\ p = Here.path)]
      /\ UNCHANGED <<patches, journal, phase, made>>
  BY DEF UserPuts
<1>2. /\ disk' \in [Path -> Entries] /\ fresh' \in Nat /\ DiskFormed'
      /\ disk'[p] = e /\ \A q \in Path : q # p => disk'[q] = disk[q]
  BY <1>1, PutTyped
<1>3. wrote \in [Path -> (Patch \X Index) \cup {None}] /\ job \in JobRecords
  BY DEF IInv, TypeOK, JobRecords
<1>4. /\ wrote' \in [Path -> (Patch \X Index) \cup {None}]
      /\ wrote'[p] = None /\ \A q \in Path : q # p => wrote'[q] = wrote[q]
  BY <1>1, <1>3
<1>5. /\ job' \in JobRecords /\ job'.patch = job.patch /\ job'.i = job.i /\ job'.pc = job.pc
      /\ ~job'.slipped => ~job.slipped /\ ~(job.pc = "write" /\ p = Here.path)
  BY <1>1, <1>3 DEF JobRecords
<1>6. edits' \in 0 .. MaxEdit
  BY <1>1, BoundAssumption DEF IInv, TypeOK
<1>7. TypeOK'
  BY <1>1, <1>2, <1>4, <1>5, <1>6 DEF IInv, TypeOK, JobRecords
<1>8. Known'
  BY <1>1 DEF IInv, Known, KnownAt, Entry, Todo, Status
<1>9. Confirmed' /\ Proposed' /\ RollbackSound'
  BY <1>1, JournalStands
<1>10. ASSUME NEW q \in Path, NEW Q \in Patch, NEW k \in Index PROVE WrittenAt(q, Q, k)'
  <2>1. WrittenAt(q, Q, k) /\ <<Q, k>> # None
    BY NoneAssumption DEF IInv, Written, Patch, Index
  <2> QED
    BY <1>1, <1>2, <1>4, <2>1 DEF WrittenAt, Entry, Change
<1>11. JobSound'
  <2>1. CASE job = Idle
    <3>1. job' = Idle
      BY <1>1, <2>1 DEF Idle
    <3> QED
      BY <3>1 DEF JobSound
  <2>2. CASE job # Idle
    <3>1. JobSound
      BY DEF IInv
    <3>2. Here' = Here
      BY <1>1, <1>5 DEF Here, Change
    <3>3. job.pc = "write" => Here.path \in Path
      BY HereTyped DEF Making
    <3>4. job'.pc = "write" /\ ~job'.slipped => Matches(disk'[Here.path], Here.before, TRUE)
      BY <1>2, <1>5, <2>2, <3>1, <3>3 DEF JobSound
    <3>5. job.pc = "unlink" => Here.path \in Path
      BY HereTyped DEF Making
    <3>6. job'.pc = "unlink" => wrote'[Here.path] \in {None, <<job.patch, job.i>>}
      BY <1>4, <1>5, <2>2, <3>1, <3>5 DEF JobSound
    <3>7. /\ job'.patch \in Patch /\ Status(job.patch)' = "applying" /\ job'.pc # "idle"
          /\ job'.pc = "save" => \A k \in Todo(job.patch)' : Entry(job.patch, k)' = "applied"
      BY <1>1, <1>5, <2>2, <3>1 DEF JobSound, Entry, Todo, Status
    <3>8. job'.pc \in Making =>
            /\ job'.i \in Todo(job.patch)'
            /\ \A k \in Todo(job.patch)' :
                 /\ k < job'.i => Entry(job.patch, k)' = "applied"
                 /\ k > job'.i => Entry(job.patch, k)' = "none"
            /\ Entry(job.patch, job.i)' = IF job'.pc = "guard" THEN "none" ELSE "applying"
      BY <1>1, <1>5, <2>2, <3>1 DEF JobSound, Entry, Todo, Status
    <3>9. /\ job'.pc \in {"check", "write"} => <<job'.patch, job'.i>> \notin made'
          /\ job'.pc \in {"unlink", "confirm"} => <<job'.patch, job'.i>> \in made'
      BY <1>1, <1>5, <2>2, <3>1 DEF JobSound
    <3> QED
      BY <1>5, <3>2, <3>4, <3>6, <3>7, <3>8, <3>9 DEF JobSound
  <2> QED
    BY <2>1, <2>2
<1> QED
  BY <1>2, <1>7, <1>8, <1>9, <1>10, <1>11 DEF IInv, Written

LEMMA UserEditsKeeps ==
  ASSUME IInv, NEW p \in Path, UserEdits(p)
  PROVE  IInv'
<1>1. fresh \in Nat /\ fresh # None /\ disk[p] \in Entries /\ Formed(disk[p])
  BY NoneAssumption DEF IInv, TypeOK, DiskFormed
<1>2. ASSUME NEW t \in Text, disk[p].kind \in {"file", "linked"}, UserPuts(p, [disk[p] EXCEPT !.text = t])
      PROVE  IInv'
  <2>1. [disk[p] EXCEPT !.text = t] \in Entries /\ Formed([disk[p] EXCEPT !.text = t])
    BY <1>1 DEF Entries, Formed
  <2> QED
    BY <1>2, <2>1, UserPutsKeeps
<1>3. ASSUME NEW t \in Text, UserPuts(p, File(t, fresh)) PROVE IInv'
  <2>1. File(t, fresh) \in Entries /\ Formed(File(t, fresh))
    BY <1>1, EntriesTyped DEF Formed, File
  <2> QED
    BY <1>3, <2>1, UserPutsKeeps
<1>4. CASE UserPuts(p, Folder(fresh))
  <2>1. Folder(fresh) \in Entries /\ Formed(Folder(fresh))
    BY <1>1 DEF Entries, Formed, Folder
  <2> QED
    BY <1>4, <2>1, UserPutsKeeps
<1>5. CASE UserPuts(p, Gone)
  <2>1. Gone \in Entries /\ Formed(Gone)
    BY DEF Entries, Formed, Gone
  <2> QED
    BY <1>5, <2>1, UserPutsKeeps
<1> QED
  BY <1>2, <1>3, <1>4, <1>5 DEF UserEdits

LEMMA PhaseKeeps ==
  ASSUME IInv, RunEnds \/ OtherRun
  PROVE  IInv'
<1>1. phase' \in {"running", "ended", "other"} /\ UNCHANGED <<disk, fresh, patches, journal, job, edits, made, wrote>>
  BY DEF RunEnds, OtherRun
<1>2. TypeOK'
  BY <1>1 DEF IInv, TypeOK
<1>3. Known' /\ Written' /\ DiskFormed'
  BY <1>1 DEF IInv, Known, KnownAt, Written, WrittenAt, DiskFormed, Entry, Todo, Status, Change
<1>4. Confirmed' /\ Proposed' /\ RollbackSound'
  BY <1>1, JournalStands
<1>5. JobSound'
  BY <1>1 DEF IInv, JobSound, Entry, Todo, Status, Here, Change
<1> QED
  BY <1>2, <1>3, <1>4, <1>5 DEF IInv

LEMMA RestartKeeps ==
  ASSUME IInv, Restart
  PROVE  IInv'
<1>1. /\ job' = Idle /\ phase' = "ended"
      /\ UNCHANGED <<disk, fresh, journal, edits, made, wrote>>
      /\ patches' = [P \in Patch |-> [patches[P] EXCEPT !.status = Recovered(@)]]
  BY DEF Restart
<1>2. patches \in [Patch -> PatchRecords]
  BY DEF IInv, TypeOK, PatchRecords
<1>3. ASSUME NEW Q \in Patch
      PROVE  /\ patches'[Q] \in PatchRecords
             /\ patches'[Q].of = patches[Q].of /\ patches'[Q].todo = patches[Q].todo
             /\ patches'[Q].changes = patches[Q].changes
             /\ patches'[Q].status # Status(Q) => Status(Q) = "applying" /\ patches'[Q].status = "interrupted"
  BY <1>1, <1>2 DEF PatchRecords, Recovered, Status, Statuses
<1>4. patches' \in [Patch -> PatchRecords]
  BY <1>1, <1>3
<1> QED
  BY <1>1, <1>3, <1>4, StatusKeeps

-----------------------------------------------------------------------------
LEMMA InitHolds == Init => IInv
<1> SUFFICES ASSUME Init PROVE IInv
  OBVIOUS
<1>1. /\ disk = Start /\ fresh = Cardinality(Path) + 1
      /\ patches = [P \in Patch |-> NoPatch] /\ journal = [P \in Patch |-> [i \in Index |-> NoEntry]]
      /\ job = Idle /\ phase = "running" /\ edits = 0 /\ made = {} /\ wrote = [p \in Path |-> None]
  BY DEF Init
<1>2. NoPatch \in PatchRecords /\ NoPatch.todo = {} /\ NoPatch.changes = <<>> /\ Len(<<>>) = 0 /\ NoPatch.of = 0
      /\ NoPatch.status = "none"
  <2>1. <<>> \in Seq(ChangeRecords) /\ Len(<<>>) = 0
    BY EmptySeq
  <2>2. 0 \in 0 .. MaxPatch
    BY BoundAssumption
  <2> QED
    BY <2>1, <2>2 DEF NoPatch, PatchRecords, Statuses
<1>3. NoEntry \in Records /\ NoEntry.status = "none"
  BY DEF NoEntry, Records, Gone, Entries
<1>4. Idle \in JobRecords
  BY BoundAssumption DEF Idle, JobRecords
<1>5. fresh \in Nat
  BY <1>1, StartAssumption, FS_CardinalityType
<1>6. TypeOK
  <2>1. patches \in [Patch -> PatchRecords] /\ journal \in [Patch -> [Index -> Records]]
    BY <1>1, <1>2, <1>3
  <2>2. \A P \in Patch : patches[P].todo \subseteq DOMAIN patches[P].changes /\ Len(patches[P].changes) <= MaxChange
    BY <1>1, <1>2, BoundAssumption
  <2>3. disk \in [Path -> Entries] /\ edits \in 0 .. MaxEdit /\ wrote \in [Path -> (Patch \X Index) \cup {None}]
    BY <1>1, StartAssumption, BoundAssumption
  <2> QED
    BY <1>1, <1>4, <1>5, <2>1, <2>2, <2>3 DEF TypeOK, PatchRecords, Records, JobRecords
<1>7. \A P \in Patch, i \in Index : Entry(P, i) = "none" /\ patches[P] = NoPatch
  BY <1>1, <1>3 DEF Entry
<1>8. Known /\ Confirmed
  BY <1>1, <1>2, <1>7 DEF Known, KnownAt, Confirmed, ConfirmedAt, Status, Todo
<1>9. Written /\ DiskFormed
  <2>1. \A P \in Patch, i \in Index : <<P, i>> # None
    BY NoneAssumption DEF Patch, Index
  <2> QED
    BY <1>1, <2>1, StartAssumption DEF Written, WrittenAt, DiskFormed
<1>10. JobSound
  BY <1>1 DEF JobSound
<1>11. Proposed
  <2>1. DOMAIN <<>> = {}
    OBVIOUS
  <2> QED
    BY <1>1, <1>2, <2>1 DEF Proposed, ProposalSound, Todo, Halves
<1>12. RollbackSound
  BY <1>1, <1>2 DEF RollbackSound, RollbackAt, Patch
<1> QED
  BY <1>6, <1>8, <1>9, <1>10, <1>11, <1>12 DEF IInv

LEMMA NextKeeps == IInv /\ [Next]_vars => IInv'
<1> SUFFICES ASSUME IInv, [Next]_vars PROVE IInv'
  OBVIOUS
<1>1. CASE UNCHANGED vars
  <2>1. UNCHANGED <<disk, fresh, patches, journal, job, phase, edits, made, wrote>>
    BY <1>1 DEF vars
  <2>2. TypeOK'
    BY <2>1 DEF IInv, TypeOK
  <2>3. Known' /\ Written' /\ DiskFormed'
    BY <2>1 DEF IInv, Known, KnownAt, Written, WrittenAt, DiskFormed, Entry, Todo, Status, Change
  <2>4. Confirmed' /\ Proposed' /\ RollbackSound'
    BY <2>1, JournalStands
  <2>5. JobSound'
    BY <2>1 DEF IInv, JobSound, Entry, Todo, Status, Here, Change
  <2> QED
    BY <2>2, <2>3, <2>4, <2>5 DEF IInv
<1>2. ASSUME NEW P \in Patch, Apply(P) PROVE IInv'
  BY <1>2, BeginKeeps, BeginRefusedKeeps DEF Apply
<1>3. ASSUME NEW P \in Patch, NEW t \in Proposal, Propose(P, t) PROVE IInv'
  BY <1>3, ProposeKeeps
<1>4. ASSUME NEW P \in Patch, NEW A \in Patch, RollbackPreview(P, A) PROVE IInv'
  BY <1>4, RollbackPreviewKeeps
<1>5. CASE Intend
  BY <1>5, IntendKeeps
<1>6. CASE ReplaceOne
  BY <1>6, CheckKeeps, UnlinkKeeps, WriteKeeps DEF ReplaceOne
<1>7. CASE Confirm
  BY <1>7, ConfirmKeeps
<1>8. CASE Complete
  BY <1>8, CompleteKeeps
<1>9. CASE Fails
  BY <1>9, FailsKeeps
<1>10. ASSUME NEW p \in Path, UserEdits(p) PROVE IInv'
  BY <1>10, UserEditsKeeps
<1>11. CASE RunEnds \/ OtherRun
  BY <1>11, PhaseKeeps
<1>12. CASE Restart
  BY <1>12, RestartKeeps
<1> QED
  BY <1>1, <1>2, <1>3, <1>4, <1>5, <1>6, <1>7, <1>8, <1>9, <1>10, <1>11, <1>12 DEF Next

LEMMA Invariance == Spec => []IInv
  BY InitHolds, NextKeeps, PTL DEF Spec

-----------------------------------------------------------------------------
(* The state is of its type. *)
THEOREM TypeCorrect == Spec => []TypeOK
  BY Invariance, PTL DEF IInv

(* Whatever fails and whenever the service dies, the journal is true of the
   disk: it holds for every list of proposals and any number of edits. *)
LEMMA JournalFollows == IInv => JournalIsTrue
<1> SUFFICES ASSUME IInv, NEW P \in Patch, NEW i \in Index
             PROVE  LET e == journal[P][i] IN
                    /\ <<P, i>> \in made => e.status # "none"
                    /\ e.status = "applied" =>
                         <<P, i>> \in made /\ \A p \in Path : wrote[p] = <<P, i>> => disk[p] = e.after
                    /\ Status(P) = "applied" /\ i \in patches[P].todo => e.status = "applied"
                    /\ Status(P) \in {"none", "validated", "conflicted"} => e.status = "none"
                    /\ Status(P) = "failed" => e.status # "applied"
  BY DEF JournalIsTrue
<1>1. KnownAt(P, i)
  BY DEF IInv, Known
<1>2. \A p \in Path : WrittenAt(p, P, i)
  BY DEF IInv, Written
<1> QED
  BY <1>1, <1>2 DEF KnownAt, WrittenAt, Entry, Todo
THEOREM JournalHolds == Spec => []JournalIsTrue
  BY Invariance, JournalFollows, PTL

\* A write has a path, and its change was not made before.
LEMMA Writing ==
  ASSUME IInv, NEW p \in Path, Write(p, disk'[p])
  PROVE  /\ job # Idle /\ job.patch \in Patch /\ job.i \in Index /\ job.i \in Todo(job.patch) /\ p = Here.path
         /\ <<job.patch, job.i>> \notin made
         /\ ~job.slipped => Matches(disk[p], Here.before, TRUE)
<1>1. job.pc = "write" /\ p = Here.path
  BY DEF Write
<1>2. job # Idle /\ job.patch \in Patch /\ job.i \in Index /\ job.i \in Todo(job.patch)
  BY <1>1, HereTyped DEF Making
<1> QED
  BY <1>1, <1>2 DEF IInv, JobSound

(* No change is made twice, in any number of restarts and repeated requests. *)
THEOREM ChangesAreMadeOnce == Spec => MadeOnce
<1>1. IInv => \A p \in Path : Write(p, disk'[p]) => <<job.patch, job.i>> \notin made
  BY Writing
<1> QED
  BY <1>1, Invariance, PTL DEF MadeOnce

(* What a write takes from the disk is in the record of its change. *)
THEOREM EditsAreKept == Spec => NoEditLost
<1>1. IInv => \A p \in Path : Write(p, disk'[p]) /\ ~job.slipped =>
                disk[p].kind = Here.before.kind /\ disk[p].text = Here.before.text
  BY Writing DEF Matches
<1> QED
  BY <1>1, Invariance, PTL DEF NoEditLost

(* A rollback takes from the disk exactly what its patch has confirmed there,
   the very file and not one that looks like it. *)
LEMMA TakesItsOwn ==
  ASSUME IInv, NEW p \in Path, Write(p, disk'[p]), ~job.slipped, patches[job.patch].of # 0
  PROVE  LET A == patches[job.patch].of
             e == journal[A][Mirror(A, job.i)] IN
         e.status = "applied" /\ disk[p] = e.after
<1> DEFINE A == patches[job.patch].of
<1> DEFINE e == journal[A][Mirror(A, job.i)]
<1>1. /\ job.patch \in Patch /\ job.i \in Todo(job.patch) /\ p = Here.path
      /\ Matches(disk[p], Here.before, TRUE)
  BY Writing
<1>2. A \in Patch
  BY <1>1, PatchTyped, BoundAssumption DEF IInv, PatchRecords, Patch
<1>3. /\ Mirror(A, job.i) \in Todo(A) /\ Entry(A, Mirror(A, job.i)) = "applied"
      /\ Here.before = e.after
  <2>1. RollbackAt(job.patch, A)
    BY <1>1, <1>2 DEF IInv, RollbackSound
  <2> QED
    BY <1>1, <2>1 DEF RollbackAt, Here
<1>4. Mirror(A, job.i) \in Index
  BY <1>2, <1>3, PatchTyped DEF IInv, Todo
<1>5. e \in Records
  BY <1>2, <1>4 DEF IInv, TypeOK, Records
<1>6. Formed(e.after)
  BY <1>2, <1>3, <1>4 DEF IInv, Confirmed, ConfirmedAt
<1>7. disk[p] \in Entries /\ Formed(disk[p]) /\ e.after \in Entries
  BY <1>5 DEF IInv, TypeOK, DiskFormed, Records
<1>8. disk[p] = e.after
  BY <1>1, <1>3, <1>6, <1>7, SameEntry
<1> QED
  BY <1>3, <1>8 DEF Entry
THEOREM RollbacksTakeTheirOwn == Spec => RollbackTakesItsOwn
<1>1. IInv => \A p \in Path : Write(p, disk'[p]) /\ ~job.slipped /\ patches[job.patch].of # 0 =>
                LET A == patches[job.patch].of
                    e == journal[A][Mirror(A, job.i)] IN
                e.status = "applied" /\ disk[p] = e.after
  BY TakesItsOwn
<1> QED
  BY <1>1, Invariance, PTL DEF RollbackTakesItsOwn

(* A rollback that was applied has put back what the patch had found. *)
LEMMA Restored == IInv => RollbackRestores
<1> SUFFICES ASSUME IInv, NEW R \in Patch, patches[R].of # 0, Status(R) = "applied",
                    NEW k \in patches[R].todo, NEW p \in Path, wrote[p] = <<R, k>>
             PROVE  LET A == patches[R].of IN
                    \E i \in patches[A].todo :
                      Change(A, i).path = p /\ Matches(disk[p], [Change(A, i).before EXCEPT !.id = None], FALSE)
  BY DEF RollbackRestores
<1> DEFINE A == patches[R].of
<1> DEFINE m == Mirror(A, k)
<1>1. A \in Patch /\ k \in Index
  BY PatchTyped, BoundAssumption DEF IInv, PatchRecords, Patch
<1>2. /\ m \in patches[A].todo /\ Change(R, k).path = Change(A, m).path
      /\ Change(R, k).after = [Change(A, m).before EXCEPT !.id = None]
  BY <1>1 DEF IInv, RollbackSound, RollbackAt, Todo
<1>3. Entry(R, k) = "applied"
  BY <1>1 DEF IInv, Known, KnownAt, Todo
<1>4. Change(R, k).path = p /\ disk[p] = journal[R][k].after
  <2>1. WrittenAt(p, R, k)
    BY <1>1 DEF IInv, Written
  <2> QED
    BY <1>3, <2>1 DEF WrittenAt
<1>5. Matches(journal[R][k].after, Change(R, k).after, FALSE)
  BY <1>1, <1>3 DEF IInv, Confirmed, ConfirmedAt
<1> QED
  BY <1>2, <1>4, <1>5
THEOREM RollbacksRestore == Spec => []RollbackRestores
  BY Invariance, Restored, PTL

(* The halves of a move are made in order and undone together. *)
LEMMA Paired == IInv => MovesArePaired
<1> SUFFICES ASSUME IInv, NEW P \in Patch, NEW i \in Index, NEW j \in Index,
                    Halves(patches[P].changes, i, j), patches[P].of = 0
             PROVE  /\ <<P, j>> \in made => <<P, i>> \in made
                    /\ \A R \in Patch : patches[R].of = P =>
                         /\ Mirror(P, i) \in patches[R].todo <=> Mirror(P, j) \in patches[R].todo
                         /\ <<R, Mirror(P, i)>> \in made => <<R, Mirror(P, j)>> \in made
  BY DEF MovesArePaired, Halves
<1>1. i < j /\ i \in Todo(P) /\ j \in Todo(P)
  BY DEF IInv, Proposed, ProposalSound, Halves
<1>2. <<P, j>> \in made => <<P, i>> \in made
  BY <1>1 DEF IInv, Known, KnownAt
<1>3. ASSUME NEW R \in Patch, patches[R].of = P
      PROVE  /\ Mirror(P, i) \in Todo(R) <=> Mirror(P, j) \in Todo(R)
             /\ <<R, Mirror(P, i)>> \in made => <<R, Mirror(P, j)>> \in made
  <2>1. Mirror(P, i) \in Todo(R) <=> Mirror(P, j) \in Todo(R)
    BY <1>3 DEF IInv, RollbackSound, RollbackAt
  <2>2. made \subseteq Patch \X Index /\ Todo(R) \subseteq Index
    BY PatchTyped DEF IInv, TypeOK, Todo
  <2>3. Mirror(P, j) < Mirror(P, i)
    <3>1. Len(patches[P].changes) \in Nat /\ i \in Nat /\ j \in Nat
      BY PatchTyped, BoundAssumption DEF IInv, Index
    <3> QED
      BY <1>1, <3>1 DEF Mirror
  <2>4. ASSUME <<R, Mirror(P, i)>> \in made PROVE <<R, Mirror(P, j)>> \in made
    <3>1. Mirror(P, i) \in Index
      BY <2>2, <2>4
    <3>2. KnownAt(R, Mirror(P, i))
      BY <3>1 DEF IInv, Known
    <3>3. Mirror(P, i) \in Todo(R) /\ \A k \in Todo(R) : k < Mirror(P, i) => Entry(R, k) = "applied"
      BY <2>4, <3>2 DEF KnownAt
    <3>4. Mirror(P, j) \in Todo(R) /\ Entry(R, Mirror(P, j)) = "applied"
      BY <2>1, <2>3, <3>3
    <3>5. KnownAt(R, Mirror(P, j))
      BY <2>2, <3>4 DEF IInv, Known
    <3> QED
      BY <3>4, <3>5 DEF KnownAt
  <2> QED
    BY <2>1, <2>4
<1> QED
  BY <1>2, <1>3 DEF Todo
THEOREM HalvesStayTogether == Spec => []MovesArePaired
  BY Invariance, Paired, PTL
-----------------------------------------------------------------------------
(* Patches are numbered as they were proposed, applied in any order and left
   half-way by any failure.  What decides whether an entry hides an unconfirmed
   write is the order of identities: one that has left its path never returns. *)
Before(P, i) == Change(P, i).before
PathOf(P, i) == Change(P, i).path
Given(e) == e.id # None => e.id < fresh
SamePath(P, i, Q, k) == P < Q /\ i \in Todo(P) /\ k \in Todo(Q) /\ PathOf(P, i) = PathOf(Q, k)

Packed ==
  \A P, Q \in Patch :
    Status(Q) = "none" => Todo(Q) = {} /\ (Q < P => Status(P) = "none")
IdsGiven ==
  /\ \A p \in Path : Given(disk[p])
  /\ \A P \in Patch, i \in Index : i \in Todo(P) => Given(Before(P, i)) /\ Formed(Before(P, i))
\* What an earlier patch expects and is still there, a later one expects as well.
Held ==
  \A P, Q \in Patch, i, k \in Index :
    SamePath(P, i, Q, k) /\ Before(P, i).id # None /\ disk[PathOf(P, i)].id = Before(P, i).id
      => Before(Q, k).id = Before(P, i).id
\* What a change has replaced is gone.
Replaced ==
  \A P \in Patch, i \in Index :
    i \in Todo(P) /\ <<P, i>> \in made /\ Before(P, i).id # None => disk[PathOf(P, i)].id # Before(P, i).id
\* An earlier patch does not empty the path that a later one has filled.
Present ==
  \A P, Q \in Patch, i, k \in Index :
    SamePath(P, i, Q, k) /\ <<Q, k>> \in made /\ Before(Q, k).id = None /\ wrote[PathOf(P, i)] = <<P, i>>
      => disk[PathOf(P, i)].id # None
Checked ==
  job.pc = "write" /\ Here.before.id # None =>
    \A Q \in Patch, k \in Index : SamePath(job.patch, job.i, Q, k) => Before(Q, k).id # None

Aged == Packed /\ IdsGiven /\ Held /\ Replaced /\ Present /\ Checked

LEMMA AgedInit == Init => Aged
<1> SUFFICES ASSUME Init PROVE Aged
  OBVIOUS
<1>1. /\ disk = Start /\ fresh = Cardinality(Path) + 1 /\ Cardinality(Path) \in Nat
      /\ \A P \in Patch : Status(P) = "none" /\ Todo(P) = {}
      /\ job.pc = "idle"
  BY StartAssumption, FS_CardinalityType DEF Init, NoPatch, Idle, Status, Todo
<1>2. IdsGiven
  <2>1. ASSUME NEW p \in Path PROVE Given(disk[p])
    <3>1. Start[p] \in Entries /\ (Start[p].id # None => Start[p].id <= Cardinality(Path))
      BY StartAssumption
    <3>2. Start[p].id \in Nat \cup {None}
      BY <3>1 DEF Entries
    <3> QED
      BY <1>1, <3>1, <3>2 DEF Given
  <2> QED
    BY <2>1, <1>1 DEF IdsGiven
<1>3. Packed /\ Held /\ Replaced /\ Present
  BY <1>1 DEF Packed, Held, Replaced, Present, SamePath
<1>4. Checked
  BY <1>1 DEF Checked
<1> QED
  BY <1>2, <1>3, <1>4 DEF Aged

\* The lists of changes stay as they are, and so does the disk.
LEMMA AgedStays ==
  ASSUME Aged, UNCHANGED <<disk, fresh, made, wrote>>,
         \A Q \in Patch : /\ patches'[Q].todo = patches[Q].todo /\ patches'[Q].changes = patches[Q].changes
                          /\ patches'[Q].status = "none" <=> Status(Q) = "none",
         Checked'
  PROVE  Aged'
<1>1. \A k : \A Q \in Patch : Todo(Q)' = Todo(Q) /\ Before(Q, k)' = Before(Q, k) /\ PathOf(Q, k)' = PathOf(Q, k)
  BY DEF Todo, Before, PathOf, Change
<1>2. Packed'
  BY <1>1 DEF Aged, Packed, Status
<1>3. IdsGiven'
  BY <1>1 DEF Aged, IdsGiven, Given
<1>4. \A P, Q \in Patch, i, k \in Index : SamePath(P, i, Q, k)' <=> SamePath(P, i, Q, k)
  BY <1>1 DEF SamePath
<1>5. Held'
  BY <1>1, <1>4 DEF Aged, Held
<1>6. Replaced'
  BY <1>1 DEF Aged, Replaced
<1>7. Present'
  BY <1>1, <1>4 DEF Aged, Present
<1> QED
  BY <1>2, <1>3, <1>5, <1>6, <1>7 DEF Aged

\* No write is next, or the same one as before.
LEMMA NotYetChecked ==
  ASSUME Aged, job'.pc # "write" \/ (job'.pc = job.pc /\ job'.patch = job.patch /\ job'.i = job.i),
         job.pc = "write" => job.patch \in Patch,
         \A Q \in Patch : patches'[Q].todo = patches[Q].todo /\ patches'[Q].changes = patches[Q].changes
  PROVE  Checked'
<1>1. CASE job'.pc # "write"
  BY <1>1 DEF Checked
<1>2. CASE job'.pc = "write" /\ job.pc = "write" /\ job'.patch = job.patch /\ job'.i = job.i
  <2>1. job.patch \in Patch
    BY <1>2
  <2>2. \A k : \A Q \in Patch : Todo(Q)' = Todo(Q) /\ Before(Q, k)' = Before(Q, k) /\ PathOf(Q, k)' = PathOf(Q, k)
    BY DEF Todo, Before, PathOf, Change
  <2>3. Here' = Here
    BY <1>2, <2>1 DEF Here, Change
  <2> DEFINE P == job.patch
  <2> DEFINE i == job.i
  <2>4. \A Q \in Patch, k \in Index : SamePath(P, i, Q, k)' <=> SamePath(P, i, Q, k)
    BY <1>2, <2>1, <2>2 DEF SamePath
  <2> QED
    BY <1>2, <2>2, <2>3, <2>4 DEF Aged, Checked
<1> QED
  BY <1>1, <1>2

\* A patch that is new expects what is on the disk.
LEMMA AgedNew ==
  ASSUME IInv, Aged, NEW P \in Patch, NEW A \in 0 .. MaxPatch, NEW n \in 0 .. MaxChange,
         NEW S \in SUBSET (1 .. n), NEW c \in [1 .. n -> ChangeRecords],
         New(P, A, S, c), UNCHANGED <<disk, fresh, journal, job, phase, edits, made, wrote>>,
         \A k \in S : c[k].before = disk[c[k].path], job.pc # "write"
  PROVE  Aged'
<1> USE BoundAssumption
<1>1. patches \in [Patch -> PatchRecords]
  BY DEF IInv, TypeOK, PatchRecords
<1>2. /\ Status(P) = "none" /\ \A Q \in Patch : Q < P => Status(Q) # "none"
      /\ patches'[P] = [status |-> "validated", of |-> A, todo |-> S, changes |-> c]
      /\ \A Q \in Patch : Q # P => patches'[Q] = patches[Q]
  BY <1>1 DEF New
<1>3. \A k : \A Q \in Patch : Q # P => Todo(Q)' = Todo(Q) /\ Before(Q, k)' = Before(Q, k) /\ PathOf(Q, k)' = PathOf(Q, k)
  BY <1>2 DEF Todo, Before, PathOf, Change
<1>4. Todo(P)' = S /\ \A k \in S : Before(P, k)' = disk[PathOf(P, k)'] /\ PathOf(P, k)' \in Path
  BY <1>2 DEF Todo, Before, PathOf, Change, ChangeRecords
<1>5. \A Q \in Patch : P < Q => Todo(Q) = {} /\ Todo(Q)' = {} /\ Status(Q) = "none"
  BY <1>2, <1>3 DEF Aged, Packed, Patch
<1>6. \A i \in Index : <<P, i>> \notin made
  BY <1>2 DEF IInv, Known, KnownAt
<1>7. Packed'
  <2>1. ASSUME NEW Q \in Patch, NEW R \in Patch, Status(Q)' = "none"
        PROVE  Todo(Q)' = {} /\ (Q < R => Status(R)' = "none")
    <3>1. Q # P /\ Status(Q) = "none"
      BY <2>1, <1>2 DEF Status
    <3>2. ~(Q < P)
      BY <1>2, <3>1
    <3>3. Todo(Q) = {} /\ (Q < R => Status(R) = "none")
      BY <3>1 DEF Aged, Packed
    <3> QED
      BY <1>2, <1>3, <3>1, <3>2, <3>3 DEF Status
  <2> QED
    BY <2>1 DEF Packed
<1>8. IdsGiven'
  <2>1. ASSUME NEW Q \in Patch, NEW i \in Index, i \in Todo(Q)'
        PROVE  Given(Before(Q, i))' /\ Formed(Before(Q, i))'
    <3>1. CASE Q = P
      BY <2>1, <3>1, <1>4 DEF Aged, IdsGiven, Given, IInv, DiskFormed, Formed
    <3>2. CASE Q # P
      BY <2>1, <3>2, <1>3 DEF Aged, IdsGiven, Given, Formed
    <3> QED
      BY <3>1, <3>2
  <2> QED
    BY <2>1 DEF Aged, IdsGiven, Given
<1>9. ASSUME NEW Q \in Patch, NEW R \in Patch, NEW i \in Index, NEW k \in Index, SamePath(Q, i, R, k)'
      PROVE  Q # P /\ (R = P \/ SamePath(Q, i, R, k))
  <2>1. Q # P
    BY <1>5, <1>9 DEF SamePath
  <2> QED
    BY <1>3, <1>9, <2>1 DEF SamePath
<1>10. Held'
  <2>1. ASSUME NEW Q \in Patch, NEW R \in Patch, NEW i \in Index, NEW k \in Index, SamePath(Q, i, R, k)',
               Before(Q, i)'.id # None, disk[PathOf(Q, i)'].id = Before(Q, i)'.id
        PROVE  Before(R, k)'.id = Before(Q, i)'.id
    <3>1. CASE R = P
      BY <2>1, <3>1, <1>4 DEF SamePath
    <3>2. CASE R # P
      BY <2>1, <3>2, <1>3, <1>9 DEF Aged, Held
    <3> QED
      BY <3>1, <3>2
  <2> QED
    BY <2>1 DEF Held
<1>11. Replaced'
  BY <1>3, <1>6 DEF Aged, Replaced
<1>12. Present'
  BY <1>3, <1>6, <1>9 DEF Aged, Present
<1>13. Checked'
  BY DEF Checked
<1> QED
  BY <1>7, <1>8, <1>10, <1>11, <1>12, <1>13 DEF Aged

LEMMA AgedCheck ==
  ASSUME IInv, Aged, Check
  PROVE  Aged'
<1>1. /\ job.pc = "check" /\ job.pc \in Making /\ GoTo(job.i, "write")
      /\ Matches(disk[Here.path], Here.before, TRUE)
      /\ UNCHANGED <<disk, fresh, patches, journal, phase, edits, made, wrote>>
  BY DEF Check, Making
<1>2. job.patch \in Patch /\ job.i \in Index /\ job.i \in Todo(job.patch) /\ job.i \in 0 .. MaxChange
  BY <1>1, HereTyped DEF Index
<1>3. job'.patch = job.patch /\ job'.i = job.i
  BY <1>1, <1>2, GoToTyped DEF Making
<1>4. Here' = Here /\ Here.path = PathOf(job.patch, job.i) /\ Here.before = Before(job.patch, job.i)
  BY <1>1, <1>3 DEF Here, Change, PathOf, Before
<1>5. ASSUME Here.before.id # None, NEW Q \in Patch, NEW k \in Index, SamePath(job.patch, job.i, Q, k)
      PROVE  Before(Q, k).id # None
  <2>1. disk[PathOf(job.patch, job.i)].id = Before(job.patch, job.i).id
    BY <1>1, <1>4, <1>5 DEF Matches
  <2>2. Before(Q, k).id = Before(job.patch, job.i).id
    BY <1>2, <1>4, <1>5, <2>1 DEF Aged, Held
  <2> QED
    BY <1>4, <1>5, <2>2
<1>6. Checked'
  BY <1>1, <1>3, <1>4, <1>5 DEF Checked, SamePath, Todo, PathOf, Before, Change
<1> QED
  BY <1>1, <1>6, AgedStays DEF Status

(* One path changes: it keeps its identity, loses it or gets a new one. *)
LEMMA IdsMove ==
  ASSUME IInv, Aged, NEW p \in Path, NEW e \in Entries, e.id \in {None, fresh, disk[p].id},
         fresh' = (IF e.id = fresh THEN fresh + 1 ELSE fresh),
         disk'[p] = e, \A q \in Path : q # p => disk'[q] = disk[q], UNCHANGED patches
  PROVE  /\ Packed' /\ IdsGiven' /\ Held'
         /\ \A P \in Patch, i \in Index :
              i \in Todo(P) /\ Before(P, i).id # None /\ disk[PathOf(P, i)].id # Before(P, i).id
                => disk'[PathOf(P, i)].id # Before(P, i).id
<1>1. fresh \in Nat /\ None \notin Nat
  BY NoneAssumption DEF IInv, TypeOK
<1>2. \A P \in Patch, i \in Index :
        i \in Todo(P) => PathOf(P, i) \in Path /\ Before(P, i).id \in Nat \cup {None} /\ Given(Before(P, i))
  BY PatchTyped DEF IInv, Todo, PathOf, Before, ChangeRecords, Entries, Aged, IdsGiven
<1>3. Packed'
  BY DEF Aged, Packed, Status, Todo
<1>4. IdsGiven'
  <2>1. ASSUME NEW q \in Path PROVE Given(disk[q])'
    <3>1. Given(disk[q]) /\ Given(disk[p])
      BY DEF Aged, IdsGiven
    <3>2. disk[q].id \in Nat \cup {None} /\ disk[p].id \in Nat \cup {None}
      BY DEF IInv, TypeOK, Entries
    <3> QED
      BY <1>1, <3>1, <3>2 DEF Given
  <2>2. ASSUME NEW P \in Patch, NEW i \in Index, i \in Todo(P)
        PROVE  Given(Before(P, i))' /\ Formed(Before(P, i))'
    <3>1. Given(Before(P, i)) /\ Formed(Before(P, i)) /\ Before(P, i)' = Before(P, i)
      BY <2>2 DEF Aged, IdsGiven, Before, Change
    <3>2. Before(P, i).id \in Nat \cup {None}
      BY <1>2, <2>2
    <3> QED
      BY <1>1, <3>1, <3>2 DEF Given, Formed
  <2> QED
    BY <2>1, <2>2 DEF IdsGiven, Todo
<1>5. ASSUME NEW P \in Patch, NEW i \in Index, i \in Todo(P), Before(P, i).id # None,
             disk[PathOf(P, i)].id # Before(P, i).id
      PROVE  disk'[PathOf(P, i)].id # Before(P, i).id
  <2>1. Before(P, i).id \in Nat /\ Before(P, i).id < fresh /\ PathOf(P, i) \in Path
    BY <1>2, <1>5 DEF Given
  <2>2. CASE PathOf(P, i) = p
    <3>1. Before(P, i).id # fresh
      BY <1>1, <2>1
    <3> QED
      BY <1>5, <2>2, <3>1
  <2>3. CASE PathOf(P, i) # p
    BY <1>5, <2>1, <2>3
  <2> QED
    BY <2>2, <2>3
<1>6. Held'
  <2>1. ASSUME NEW P \in Patch, NEW Q \in Patch, NEW i \in Index, NEW k \in Index, SamePath(P, i, Q, k),
               Before(P, i).id # None, disk'[PathOf(P, i)].id = Before(P, i).id
        PROVE  Before(Q, k).id = Before(P, i).id
    <3>1. i \in Todo(P)
      BY <2>1 DEF SamePath
    <3>2. disk[PathOf(P, i)].id = Before(P, i).id
      BY <2>1, <3>1, <1>5
    <3> QED
      BY <2>1, <3>2 DEF Aged, Held
  <2> QED
    BY <2>1 DEF Held, SamePath, Todo, PathOf, Before, Change
<1> QED
  BY <1>3, <1>4, <1>5, <1>6

LEMMA AgedWrite ==
  ASSUME IInv, Aged, NEW p \in Path, NEW e \in Writable, Write(p, e)
  PROVE  Aged'
<1> DEFINE P == job.patch
<1> DEFINE i == job.i
<1>1. /\ job.pc = "write" /\ job.pc \in Making /\ p = Here.path /\ Put(p, e)
      /\ made' = made \cup {<<P, i>>} /\ wrote' = [wrote EXCEPT ![p] = <<P, i>>]
      /\ GoTo(i, IF e.kind = "linked" THEN "unlink" ELSE "confirm")
      /\ e = Gone => Here.before.kind \in {"file", "directory"}
      /\ UNCHANGED <<patches, journal, phase, edits>>
  <2>1. e = Gone => Here.before.kind \in {"file", "directory"}
    BY DEF Write, Gone, File, Linked, Folder
  <2> QED
    BY <2>1 DEF Write, Making
<1>2. /\ P \in Patch /\ i \in Index /\ i \in Todo(P) /\ i \in 0 .. MaxChange
      /\ Here = Change(P, i) /\ Here.path = PathOf(P, i) /\ Here.before = Before(P, i)
  BY <1>1, HereTyped DEF Index, Here, PathOf, Before
<1>3. fresh \in Nat /\ fresh # None /\ disk \in [Path -> Entries]
  BY NoneAssumption DEF IInv, TypeOK
<1>4. e \in Entries /\ e.id \in {None, fresh} /\ (e.id = None => e = Gone)
  <2>1. CASE e = Gone \/ e = Folder(fresh)
    BY <1>3, <2>1 DEF Entries, Gone, Folder
  <2>2. ASSUME NEW t \in Text, e = File(t, fresh) \/ e = Linked(t, fresh)
        PROVE  e \in Entries /\ e.id = fresh
    BY <1>3, <2>2 DEF Entries, File, Linked
  <2> QED
    BY <1>3, <2>1, <2>2 DEF Writable
<1>5. /\ fresh' = (IF e.id = fresh THEN fresh + 1 ELSE fresh)
      /\ disk'[p] = e /\ \A q \in Path : q # p => disk'[q] = disk[q]
  BY <1>1, <1>3 DEF Put
<1>6. /\ Packed' /\ IdsGiven' /\ Held'
      /\ \A Q \in Patch, k \in Index :
           k \in Todo(Q) /\ Before(Q, k).id # None /\ disk[PathOf(Q, k)].id # Before(Q, k).id
             => disk'[PathOf(Q, k)].id # Before(Q, k).id
  BY <1>1, <1>4, <1>5, IdsMove
<1>7. \A k : \A Q \in Patch : Todo(Q)' = Todo(Q) /\ Before(Q, k)' = Before(Q, k) /\ PathOf(Q, k)' = PathOf(Q, k)
  BY <1>1 DEF Todo, Before, PathOf, Change
<1>8. Replaced'
  <2>1. ASSUME NEW Q \in Patch, NEW k \in Index, k \in Todo(Q), <<Q, k>> \in made', Before(Q, k).id # None
        PROVE  disk'[PathOf(Q, k)].id # Before(Q, k).id
    <3>1. CASE <<Q, k>> \in made
      BY <2>1, <3>1, <1>6 DEF Aged, Replaced
    <3>2. CASE Q = P /\ k = i
      <4>1. Given(Before(P, i)) /\ Before(P, i).id \in Nat \cup {None}
        BY <1>2, PatchTyped DEF IInv, Todo, Before, ChangeRecords, Entries, Aged, IdsGiven
      <4>2. Before(P, i).id # fresh
        BY <2>1, <3>2, <4>1, <1>3 DEF Given
      <4> QED
        BY <2>1, <3>2, <4>2, <1>1, <1>2, <1>4, <1>5
    <3> QED
      BY <2>1, <3>1, <3>2, <1>1
  <2> QED
    BY <2>1, <1>7 DEF Replaced
<1>9. Present'
  <2>1. ASSUME NEW Q \in Patch, NEW R \in Patch, NEW j \in Index, NEW k \in Index, SamePath(Q, j, R, k),
               <<R, k>> \in made', Before(R, k).id = None, wrote'[PathOf(Q, j)] = <<Q, j>>
        PROVE  disk'[PathOf(Q, j)].id # None
    <3>1. PathOf(Q, j) \in Path
      BY <2>1, PatchTyped DEF IInv, SamePath, Todo, PathOf, ChangeRecords
    <3>2. wrote \in [Path -> (Patch \X Index) \cup {None}]
      BY DEF IInv, TypeOK
    <3>3. CASE PathOf(Q, j) = p
      <4>1. Q = P /\ j = i
        BY <1>1, <2>1, <3>2, <3>3
      <4>2. Here.before.id = None
        BY <1>1, <2>1, <4>1 DEF Aged, Checked
      <4>3. Here.before.kind = "missing"
        BY <1>2, <4>2 DEF Aged, IdsGiven, Formed
      <4> QED
        BY <1>1, <1>4, <1>5, <3>3, <4>3
    <3>4. CASE PathOf(Q, j) # p
      <4>1. <<Q, j>> # <<P, i>> /\ wrote[PathOf(Q, j)] = <<Q, j>> /\ disk'[PathOf(Q, j)] = disk[PathOf(Q, j)]
        BY <1>1, <1>2, <1>5, <2>1, <3>1, <3>2, <3>4
      <4>2. <<R, k>> # <<P, i>>
        BY <1>1, <1>2, <2>1, <3>4 DEF SamePath
      <4> QED
        BY <1>1, <2>1, <4>1, <4>2 DEF Aged, Present
    <3> QED
      BY <3>3, <3>4
  <2> QED
    BY <2>1, <1>7 DEF Present, SamePath
<1>10. job'.pc # "write"
  <2>1. PICK s \in {"unlink", "confirm"} : GoTo(i, s)
    BY <1>1
  <2> QED
    BY <1>2, <2>1, GoToTyped DEF Making
<1>11. Checked'
  BY <1>10 DEF Checked
<1> QED
  BY <1>6, <1>8, <1>9, <1>11 DEF Aged

LEMMA AgedUserPuts ==
  ASSUME IInv, Aged, NEW p \in Path, NEW e \in Entries, e.id \in {None, fresh, disk[p].id}, UserPuts(p, e)
  PROVE  Aged'
<1>1. /\ Put(p, e) /\ wrote' = [wrote EXCEPT ![p] = None]
      /\ job' = [job EXCEPT !.slipped = @ \/ (job.pc = "write" /\ p = Here.path)]
      /\ UNCHANGED <<patches, journal, phase, made>>
  BY DEF UserPuts
<1>2. /\ fresh' = (IF e.id = fresh THEN fresh + 1 ELSE fresh)
      /\ disk'[p] = e /\ \A q \in Path : q # p => disk'[q] = disk[q]
  BY <1>1 DEF Put, IInv, TypeOK
<1>3. /\ Packed' /\ IdsGiven' /\ Held'
      /\ \A Q \in Patch, k \in Index :
           k \in Todo(Q) /\ Before(Q, k).id # None /\ disk[PathOf(Q, k)].id # Before(Q, k).id
             => disk'[PathOf(Q, k)].id # Before(Q, k).id
  BY <1>1, <1>2, IdsMove
<1>4. \A k : \A Q \in Patch : Todo(Q)' = Todo(Q) /\ Before(Q, k)' = Before(Q, k) /\ PathOf(Q, k)' = PathOf(Q, k)
  BY <1>1 DEF Todo, Before, PathOf, Change
<1>5. Replaced'
  BY <1>1, <1>3, <1>4 DEF Aged, Replaced
<1>6. Present'
  <2>1. ASSUME NEW Q \in Patch, NEW R \in Patch, NEW j \in Index, NEW k \in Index, SamePath(Q, j, R, k),
               <<R, k>> \in made, Before(R, k).id = None, wrote'[PathOf(Q, j)] = <<Q, j>>
        PROVE  disk'[PathOf(Q, j)].id # None
    <3>1. PathOf(Q, j) \in Path
      BY <2>1, PatchTyped DEF IInv, SamePath, Todo, PathOf, ChangeRecords
    <3>2. wrote \in [Path -> (Patch \X Index) \cup {None}] /\ <<Q, j>> # None
      BY NoneAssumption DEF IInv, TypeOK, Patch, Index
    <3>3. PathOf(Q, j) # p
      BY <1>1, <2>1, <3>2
    <3> QED
      BY <1>1, <1>2, <2>1, <3>1, <3>2, <3>3 DEF Aged, Present
  <2> QED
    BY <2>1, <1>1, <1>4 DEF Present, SamePath
<1>7. job'.pc = job.pc /\ job'.patch = job.patch /\ job'.i = job.i
  <2>1. job \in JobRecords
    BY DEF IInv, TypeOK, JobRecords
  <2> QED
    BY <1>1, <2>1 DEF JobRecords
<1>8. job.pc = "write" => job.patch \in Patch
  BY HereTyped DEF Making
<1>9. Checked'
  BY <1>1, <1>7, <1>8, NotYetChecked
<1> QED
  BY <1>3, <1>5, <1>6, <1>9 DEF Aged

LEMMA AgedUserEdits ==
  ASSUME IInv, Aged, NEW p \in Path, UserEdits(p)
  PROVE  Aged'
<1>1. fresh \in Nat /\ disk[p] \in Entries
  BY DEF IInv, TypeOK
<1>2. ASSUME NEW t \in Text, UserPuts(p, [disk[p] EXCEPT !.text = t])
      PROVE  Aged'
  <2>1. [disk[p] EXCEPT !.text = t] \in Entries /\ [disk[p] EXCEPT !.text = t].id = disk[p].id
    BY <1>1 DEF Entries
  <2> QED
    BY <1>2, <2>1, AgedUserPuts
<1>3. ASSUME NEW t \in Text, UserPuts(p, File(t, fresh)) PROVE Aged'
  <2>1. File(t, fresh) \in Entries /\ File(t, fresh).id = fresh
    BY <1>1, EntriesTyped DEF File
  <2> QED
    BY <1>3, <2>1, AgedUserPuts
<1>4. CASE UserPuts(p, Folder(fresh))
  <2>1. Folder(fresh) \in Entries /\ Folder(fresh).id = fresh
    BY <1>1 DEF Entries, Folder
  <2> QED
    BY <1>4, <2>1, AgedUserPuts
<1>5. CASE UserPuts(p, Gone)
  <2>1. Gone \in Entries /\ Gone.id = None
    BY DEF Entries, Gone
  <2> QED
    BY <1>5, <2>1, AgedUserPuts
<1> QED
  BY <1>2, <1>3, <1>4, <1>5 DEF UserEdits

LEMMA AgedUnlink ==
  ASSUME IInv, Aged, Unlink
  PROVE  Aged'
<1>1. /\ job.pc = "unlink" /\ job.pc \in Making /\ GoTo(job.i, "confirm")
      /\ disk' = [disk EXCEPT ![Here.path].kind = IF @ = "linked" THEN "file" ELSE @]
      /\ UNCHANGED <<fresh, patches, journal, phase, edits, made, wrote>>
  BY DEF Unlink, Making
<1>2. job.i \in 0 .. MaxChange /\ Here.path \in Path /\ disk \in [Path -> Entries] /\ fresh \in Nat
  BY <1>1, HereTyped DEF Index, IInv, TypeOK
<1>3. PICK e \in Entries : /\ e = [disk[Here.path] EXCEPT !.kind = IF @ = "linked" THEN "file" ELSE @]
                           /\ e.id = disk[Here.path].id
  <2>1. disk[Here.path] \in Entries
    BY <1>2
  <2>2. ASSUME NEW x \in Entries
        PROVE  LET y == [x EXCEPT !.kind = IF @ = "linked" THEN "file" ELSE @] IN y \in Entries /\ y.id = x.id
    BY DEF Entries
  <2> QED
    BY <2>1, <2>2
<1>4. disk'[Here.path] = e /\ \A q \in Path : q # Here.path => disk'[q] = disk[q]
  BY <1>1, <1>2, <1>3
<1>5. e.id # fresh
  BY <1>2, <1>3, NoneAssumption DEF Aged, IdsGiven, Given, Entries
<1>6. /\ Packed' /\ IdsGiven' /\ Held'
      /\ \A Q \in Patch, k \in Index :
           k \in Todo(Q) /\ Before(Q, k).id # None /\ disk[PathOf(Q, k)].id # Before(Q, k).id
             => disk'[PathOf(Q, k)].id # Before(Q, k).id
  BY <1>1, <1>2, <1>3, <1>4, <1>5, IdsMove
<1>7. \A k : \A Q \in Patch : Todo(Q)' = Todo(Q) /\ Before(Q, k)' = Before(Q, k) /\ PathOf(Q, k)' = PathOf(Q, k)
  BY <1>1 DEF Todo, Before, PathOf, Change
<1>8. Replaced'
  BY <1>1, <1>6, <1>7 DEF Aged, Replaced
<1>9. Present'
  <2>1. \A q \in Path : disk'[q].id = disk[q].id
    BY <1>3, <1>4
  <2>2. \A Q \in Patch, j \in Index : j \in Todo(Q) => PathOf(Q, j) \in Path
    BY PatchTyped DEF IInv, Todo, PathOf, ChangeRecords
  <2> QED
    BY <1>1, <1>7, <2>1, <2>2 DEF Aged, Present, SamePath
<1>10. job'.pc = "confirm"
  BY <1>1, <1>2, GoToTyped DEF Making
<1>11. Checked'
  BY <1>10 DEF Checked
<1> QED
  BY <1>6, <1>8, <1>9, <1>11 DEF Aged
(* The initial states and every step. *)
LEMMA AgedKeeps == IInv /\ Aged /\ [Next]_vars => Aged'
<1> SUFFICES ASSUME IInv, Aged, [Next]_vars PROVE Aged'
  OBVIOUS
<1>0. /\ job.pc = "write" => job.patch \in Patch
      /\ patches \in [Patch -> PatchRecords]
      /\ job.pc \in Making => job.patch \in Patch /\ job.i \in Index
  BY HereTyped DEF IInv, TypeOK, PatchRecords, Making
<1>1. ASSUME UNCHANGED <<disk, fresh, made, wrote>>,
             \A Q \in Patch : /\ patches'[Q].todo = patches[Q].todo /\ patches'[Q].changes = patches[Q].changes
                              /\ patches'[Q].status = "none" <=> Status(Q) = "none",
             job'.pc # "write" \/ UNCHANGED job
      PROVE  Aged'
  <2>1. Checked'
    BY <1>0, <1>1, NotYetChecked
  <2> QED
    BY <1>1, <2>1, AgedStays
<1>2. CASE UNCHANGED vars
  BY <1>1, <1>2 DEF vars, Status
<1>3. ASSUME NEW P \in Patch, Apply(P) PROVE Aged'
  <2>1. /\ job.pc = "idle" \/ job # Idle
        /\ Status(P) = "validated" /\ UNCHANGED <<disk, fresh, made, wrote>>
        /\ \E s \in {"applying", "conflicted", "failed"} : SetPatch(P, s)
        /\ job'.pc = "guard" \/ UNCHANGED job
    BY <1>3 DEF Apply, Begin, BeginRefused, Idle, Beginnable
  <2>2. PICK s \in {"applying", "conflicted", "failed"} : SetPatch(P, s)
    BY <2>1
  <2>3. \A Q \in Patch : /\ patches'[Q].todo = patches[Q].todo /\ patches'[Q].changes = patches[Q].changes
                         /\ patches'[Q].status = IF Q = P THEN s ELSE Status(Q)
    BY <2>2, SetPatchTyped DEF IInv, Statuses
  <2> QED
    BY <1>1, <2>1, <2>3
<1>4. ASSUME NEW P \in Patch, NEW t \in Proposal, Propose(P, t) PROVE Aged'
  <2> DEFINE n == Len(t)
  <2> DEFINE c == [i \in 1 .. n |->
                    [path |-> t[i].path, mate |-> t[i].mate, before |-> disk[t[i].path], after |-> Result(t[i])]]
  <2>1. /\ New(P, 0, 1 .. n, c) /\ job.pc # "write"
        /\ UNCHANGED <<disk, fresh, journal, job, phase, edits, made, wrote>>
    BY <1>4 DEF Propose, Idle
  <2>2. n \in 0 .. MaxChange /\ 0 \in 0 .. MaxPatch
    BY ProposalAssumption, BoundAssumption
  <2>3. c \in [1 .. n -> ChangeRecords] /\ \A i \in 1 .. n : c[i].before = disk[c[i].path]
    BY ProposedTyped DEF IInv
  <2> HIDE DEF c
  <2> QED
    BY <2>1, <2>2, <2>3, AgedNew
<1>5. ASSUME NEW P \in Patch, NEW A \in Patch, RollbackPreview(P, A) PROVE Aged'
  <2> DEFINE n == Len(patches[A].changes)
  <2> DEFINE S == {k \in 1 .. n : Undoable(A, Mirror(A, k))}
  <2> DEFINE c == [k \in 1 .. n |-> IF k \in S THEN Undo(A, Mirror(A, k)) ELSE Change(A, Mirror(A, k))]
  <2>1. /\ New(P, A, S, c) /\ job.pc # "write"
        /\ UNCHANGED <<disk, fresh, journal, job, phase, edits, made, wrote>>
    BY <1>5 DEF RollbackPreview, Free, Idle
  <2>2. /\ n \in 0 .. MaxChange /\ n \in Nat /\ A \in 0 .. MaxPatch
        /\ \A i \in 1 .. n : Change(A, i) \in ChangeRecords
    BY PatchTyped, BoundAssumption DEF IInv, Patch
  <2>3. \A k \in 1 .. n : Mirror(A, k) \in 1 .. n
    BY <2>2 DEF Mirror
  <2>4. ASSUME NEW k \in 1 .. n PROVE Undo(A, Mirror(A, k)) \in ChangeRecords
    <3>1. Change(A, Mirror(A, k)) \in ChangeRecords /\ disk \in [Path -> Entries]
      BY <2>2, <2>3 DEF IInv, TypeOK
    <3>2. [Change(A, Mirror(A, k)).before EXCEPT !.id = None] \in Entries
      BY <3>1 DEF ChangeRecords, Entries
    <3> QED
      BY <3>1, <3>2 DEF Undo, ChangeRecords
  <2>5. c \in [1 .. n -> ChangeRecords] /\ S \in SUBSET (1 .. n)
    BY <2>2, <2>3, <2>4
  <2>6. \A k \in S : c[k].before = disk[c[k].path]
    BY DEF Undo
  <2> HIDE DEF c, S
  <2> QED
    BY <2>1, <2>2, <2>5, <2>6, AgedNew
<1>6. CASE Intend
  <2>1. /\ job.pc = "guard" /\ job.pc \in Making /\ GoTo(job.i, "check")
        /\ UNCHANGED <<disk, fresh, patches, made, wrote>>
    BY <1>6 DEF Intend, Making
  <2>2. job'.pc = "check"
    <3>1. job.i \in 0 .. MaxChange
      BY <1>0, <2>1, BoundAssumption DEF Index
    <3> QED
      BY <2>1, <3>1, GoToTyped DEF Making
  <2> QED
    BY <1>1, <2>1, <2>2 DEF Status
<1>7. CASE ReplaceOne
  BY <1>7, AgedCheck, AgedUnlink, AgedWrite DEF ReplaceOne
<1>8. CASE Confirm
  <2>1. UNCHANGED <<disk, fresh, patches, made, wrote>>
    BY <1>8 DEF Confirm
  <2>2. PICK i \in 0 .. MaxChange, s \in {"guard", "save"} : GoTo(i, s)
    BY <1>8, BoundAssumption DEF Confirm, Index
  <2>3. job'.pc \in {"guard", "save"}
    BY <2>2, GoToTyped DEF Making
  <2> QED
    BY <1>1, <2>1, <2>3 DEF Status
<1>9. ASSUME job' = Idle, UNCHANGED <<disk, fresh, made, wrote>>,
             UNCHANGED patches \/ \E P \in Patch, s \in Statuses \ {"none"} : SetPatch(P, s) /\ Status(P) = "applying"
      PROVE  Aged'
  <2>1. job'.pc # "write"
    BY <1>9 DEF Idle
  <2>2. CASE UNCHANGED patches
    BY <1>1, <1>9, <2>1, <2>2 DEF Status
  <2>3. ASSUME NEW P \in Patch, NEW s \in Statuses \ {"none"}, SetPatch(P, s), Status(P) = "applying" PROVE Aged'
    <3>1. \A Q \in Patch : /\ patches'[Q].todo = patches[Q].todo /\ patches'[Q].changes = patches[Q].changes
                           /\ patches'[Q].status = IF Q = P THEN s ELSE Status(Q)
      BY <2>3, SetPatchTyped DEF IInv
    <3> QED
      BY <1>1, <1>9, <2>1, <2>3, <3>1
  <2> QED
    BY <1>9, <2>2, <2>3
<1>10. CASE Complete \/ Fails
  <2>1. job # Idle /\ job' = Idle /\ UNCHANGED <<disk, fresh, made, wrote>>
    BY <1>10 DEF Complete, Fails, Idle
  <2>2. job.patch \in Patch /\ Status(job.patch) = "applying"
    BY <2>1 DEF IInv, JobSound
  <2>3. UNCHANGED patches \/ \E s \in {"applied", "partially_applied", "failed"} : SetPatch(job.patch, s)
    BY <1>10 DEF Complete, Fails
  <2> QED
    BY <1>9, <2>1, <2>2, <2>3 DEF Statuses
<1>11. ASSUME NEW p \in Path, UserEdits(p) PROVE Aged'
  BY <1>11, AgedUserEdits
<1>12. CASE RunEnds \/ OtherRun
  <2>1. UNCHANGED <<disk, fresh, patches, job, made, wrote>>
    BY <1>12 DEF RunEnds, OtherRun
  <2> QED
    BY <1>1, <2>1 DEF Status
<1>13. CASE Restart
  <2>1. /\ job'.pc = "idle" /\ UNCHANGED <<disk, fresh, made, wrote>>
        /\ patches' = [P \in Patch |-> [patches[P] EXCEPT !.status = Recovered(@)]]
    BY <1>13 DEF Restart, Idle
  <2>2. ASSUME NEW Q \in Patch
        PROVE  /\ patches'[Q].todo = patches[Q].todo /\ patches'[Q].changes = patches[Q].changes
               /\ patches'[Q].status = "none" <=> Status(Q) = "none"
    BY <1>0, <2>1 DEF PatchRecords, Recovered, Status, Statuses
  <2> QED
    BY <1>1, <2>1, <2>2
<1> QED
  BY <1>2, <1>3, <1>4, <1>5, <1>6, <1>7, <1>8, <1>10, <1>11, <1>12, <1>13 DEF Next

LEMMA Ageing == Spec => [](IInv /\ Aged)
<1>1. Init => IInv /\ Aged
  BY InitHolds, AgedInit
<1>2. IInv /\ Aged /\ [Next]_vars => (IInv /\ Aged)'
  BY NextKeeps, AgedKeeps
<1> QED
  BY <1>1, <1>2, PTL DEF Spec

\* Some patch of a set of them is the last.
LEMMA LastOfPatches ==
  ASSUME NEW T \in SUBSET Patch, T # {}
  PROVE  \E P \in T : \A Q \in T : Q <= P
<1> DEFINE D == {MaxPatch - P : P \in T}
<1>1. D \in SUBSET Nat /\ D # {}
  <2>1. \A P \in T : MaxPatch - P \in Nat
    BY BoundAssumption DEF Patch
  <2> QED
    BY <2>1
<1>2. PICK m \in D : \A n \in D : ~(<<n, m>> \in OpToRel(<, Nat))
  BY <1>1, NatLessThanWellFounded, WFMin
<1>3. PICK P \in T : m = MaxPatch - P
  BY <1>2
<1>4. ASSUME NEW Q \in T PROVE Q <= P
  <2>1. MaxPatch - Q \in Nat /\ m \in Nat /\ MaxPatch - Q \in D
    BY <1>1, <1>2
  <2>2. ~(MaxPatch - Q < m)
    BY <1>2, <2>1 DEF OpToRel
  <2> QED
    BY <1>3, <2>2, BoundAssumption DEF Patch
<1> QED
  BY <1>4

\* A path occurs once among the changes that a patch makes.
LEMMA PathsOccurOnce ==
  ASSUME IInv, NEW P \in Patch, NEW i \in Todo(P), NEW k \in Todo(P), PathOf(P, i) = PathOf(P, k)
  PROVE  i = k
<1>1. /\ i \in DOMAIN patches[P].changes /\ k \in DOMAIN patches[P].changes
      /\ patches[P].of \in 0 .. MaxPatch /\ i \in Index /\ k \in Index
  BY PatchTyped DEF IInv, Todo, PatchRecords
<1>2. CASE patches[P].of = 0
  BY <1>1, <1>2 DEF IInv, Proposed, ProposalSound, PathOf, Change
<1>3. CASE patches[P].of # 0
  <2>1. PICK A \in Patch : patches[P].of = A
    BY <1>1, <1>3, BoundAssumption DEF Patch
  <2>2. /\ patches[A].of = 0
        /\ Mirror(A, i) \in Todo(A) /\ PathOf(P, i) = PathOf(A, Mirror(A, i))
        /\ Mirror(A, k) \in Todo(A) /\ PathOf(P, k) = PathOf(A, Mirror(A, k))
    <3>1. RollbackAt(P, A)
      BY DEF IInv, RollbackSound
    <3> QED
      BY <2>1, <3>1 DEF RollbackAt, PathOf
  <2>3. /\ Todo(A) = DOMAIN patches[A].changes
        /\ \A m, n \in DOMAIN patches[A].changes : PathOf(A, m) = PathOf(A, n) => m = n
    <3>1. ProposalSound(A)
      BY DEF IInv, Proposed
    <3> QED
      BY <2>2, <3>1 DEF ProposalSound, PathOf, Change
  <2>4. Mirror(A, i) = Mirror(A, k)
    BY <2>2, <2>3
  <2>5. Len(patches[A].changes) \in Nat
    BY PatchTyped, BoundAssumption DEF IInv
  <2> QED
    BY <1>1, <2>4, <2>5, BoundAssumption DEF Mirror, Index
<1> QED
  BY <1>2, <1>3

LEMMA Unhidden == IInv /\ Aged => NothingUnconfirmed
<1> SUFFICES ASSUME IInv, Aged, Cleared, NEW p \in Path, wrote[p] # None
             PROVE  \E x \in Started(p) :
                      journal[x[1]][x[2]].status = "applied" /\ Matches(disk[p], Change(x[1], x[2]).after, FALSE)
  BY DEF NothingUnconfirmed
<1>1. PICK P \in Patch, i \in Index : wrote[p] = <<P, i>>
  BY DEF IInv, TypeOK
<1>2. Entry(P, i) # "none" /\ i \in Todo(P) /\ PathOf(P, i) = p
  BY <1>1 DEF IInv, Written, WrittenAt, Known, KnownAt, PathOf
<1>3. <<P, i>> \in Started(p)
  BY <1>2 DEF Started, Entry, PathOf
<1> DEFINE T == {R \in Patch : \E k \in Index : <<R, k>> \in Started(p)}
<1>4. P \in T
  BY <1>3
<1>5. PICK L \in T : \A R \in T : R <= L
  BY <1>4, LastOfPatches
<1>6. \A y \in Started(p) : y[1] \in T
  BY DEF Started
<1>7. PICK k \in Index : <<L, k>> \in Started(p)
  BY <1>5
<1>8. \E x \in Started(p) : \A y \in Started(p) : y[1] <= x[1]
  BY <1>5, <1>6, <1>7
<1>9. Latest(p) \in Started(p) /\ \A y \in Started(p) : y[1] <= Latest(p)[1]
  BY <1>8 DEF Latest
<1>10. PICK Q \in Patch, j \in Index : Latest(p) = <<Q, j>>
  BY <1>9 DEF Started
<1>11. /\ <<Q, j>> \in Started(p) /\ P <= Q
       /\ Observed(Change(Q, j)) /\ Entry(Q, j) # "applying"
  BY <1>3, <1>9, <1>10 DEF Cleared, Blocks, Entry
<1>12. Entry(Q, j) = "applied" /\ <<Q, j>> \in made /\ j \in Todo(Q) /\ PathOf(Q, j) = p
  <2>1. Entry(Q, j) # "none" /\ PathOf(Q, j) = p
    BY <1>11 DEF Started, Entry, PathOf
  <2>2. Entry(Q, j) \in {"none", "applying", "applied"}
    BY DEF IInv, TypeOK, Entry
  <2> QED
    BY <1>11, <2>1, <2>2 DEF IInv, Known, KnownAt
<1>13. CASE Q = P
  <2>1. j = i
    BY <1>2, <1>12, <1>13, PathsOccurOnce
  <2>2. disk[p] = journal[P][i].after
    BY <1>1, <1>12, <1>13, <2>1 DEF IInv, Written, WrittenAt
  <2>3. Matches(journal[P][i].after, Change(P, i).after, FALSE)
    BY <1>12, <1>13, <2>1 DEF IInv, Confirmed, ConfirmedAt
  <2> QED
    BY <1>3, <1>12, <1>13, <2>1, <2>2, <2>3 DEF Entry
<1>14. CASE Q # P
  <2>1. P < Q
    BY <1>11, <1>14 DEF Patch
  <2>2. SamePath(P, i, Q, j)
    BY <1>2, <1>12, <2>1 DEF SamePath
  <2>3. Before(Q, j).id # None => disk[p].id # Before(Q, j).id
    BY <1>12 DEF Aged, Replaced
  <2>4. Before(Q, j).id = None => disk[p].id # None /\ Before(Q, j).kind = "missing"
    BY <1>1, <1>2, <1>12, <2>2 DEF Aged, Present, IdsGiven, Formed
  <2>5. Formed(disk[p])
    BY DEF IInv, DiskFormed
  <2>6. ~Matches(disk[p], Before(Q, j), TRUE)
    BY <2>3, <2>4, <2>5 DEF Matches, Formed
  <2>7. Matches(disk[p], Change(Q, j).after, FALSE)
    BY <1>11, <1>12, <2>6 DEF Observed, Before, PathOf
  <2> QED
    BY <1>11, <1>12, <2>7 DEF Entry
<1> QED
  BY <1>13, <1>14

(* When the journal no longer holds the run back, no write of the service is
   left whose outcome nobody knows: whatever patches were begun in whatever order,
   interrupted, undone and edited over (inspect and facts of recovery). *)
THEOREM NothingIsHidden == Spec => []NothingUnconfirmed
  BY Ageing, Unhidden, PTL
=============================================================================
