------------------------------ MODULE PatchSet ------------------------------
(***************************************************************************)
(* The patches of one run and their rollbacks (PatchService).              *)
(*                                                                         *)
(* A patch is a list of changes, each with the entry it expects on disk    *)
(* and the one it leaves there.  They are made one by one: the intent goes *)
(* into the journal, the disk is checked and written, then it is read back *)
(* into the journal.  The database may fail at every write, the disk too,  *)
(* the service may die between any two steps, and the user edits the same  *)
(* files with other programs at any time.                                  *)
(***************************************************************************)
EXTENDS Naturals, Sequences, FiniteSets

CONSTANTS
  Path, Text, None,
  Parent,     \* directory of a path, None for the project's root
  Proposal,   \* lists of operations that the model may propose
  MaxPatch,   \* bound on the patches and rollbacks of the run
  MaxChange,  \* bound on the changes of one of them
  MaxEdit,    \* bound on the user's edits
  Start       \* the entries at the beginning, of identities up to the number of paths

Dirs == {Parent[p] : p \in Path} \ {None}

ASSUME NoneAssumption == None \notin Path \cup Text \cup Nat \cup (Nat \X Nat)
\* The paths have at most one directory above them inside the project.
ASSUME ParentAssumption ==
  Parent \in [Path -> Path \cup {None}] /\ \A d \in Dirs : Parent[d] = None
\* A move is two operations, each with the other's path: a file arrives, then
\* one departs.  No path occurs twice in a proposal.
Operation ==
  [op : {"create", "update", "delete", "mkdir", "arrive", "depart"},
   path : Path, mate : Path \cup {None}, text : Text \cup {None}]
ASSUME ProposalAssumption ==
  \A t \in Proposal :
    /\ t \in Seq(Operation) /\ Len(t) \in 1 .. MaxChange
    /\ \A i, j \in 1 .. Len(t) : t[i].path = t[j].path => i = j
    /\ \A i \in 1 .. Len(t) :
         CASE t[i].op = "arrive" ->
                \E j \in (i + 1) .. Len(t) : t[j].op = "depart" /\ t[j].path = t[i].mate /\ t[j].mate = t[i].path
           [] t[i].op = "depart" -> \E j \in 1 .. Len(t) : t[j].op = "arrive" /\ t[j].path = t[i].mate
           [] OTHER -> t[i].mate = None

Gone == [kind |-> "missing", text |-> None, id |-> None]
Folder(i) == [kind |-> "directory", text |-> None, id |-> i]
File(t, i) == [kind |-> "file", text |-> t, id |-> i]
\* A file whose temporary name is still there, which no tool reads.
Linked(t, i) == [kind |-> "linked", text |-> t, id |-> i]
Entries == [kind : {"missing", "directory", "file", "linked"}, text : Text \cup {None}, id : Nat \cup {None}]

\* What is there has an identity; those at the beginning are not given out again.
Formed(e) == e.kind = "missing" <=> e.id = None
ASSUME StartAssumption ==
  /\ IsFiniteSet(Path) /\ Start \in [Path -> Entries]
  /\ \A p \in Path : Formed(Start[p]) /\ (Start[p].id # None => Start[p].id <= Cardinality(Path))
ASSUME BoundAssumption == MaxPatch \in Nat /\ MaxChange \in Nat /\ MaxEdit \in Nat

VARIABLES
  disk,      \* what is there at every path
  patches,   \* patch_sets, numbered in the order in which they were made
  journal,   \* the last journal entry of every change
  job,       \* the locals of the application under way
  phase,     \* the run is running, or ended, or ended while another one runs
  edits,     \* number of edits by the user
  fresh,     \* identity of the next file that is created; none is given out twice
  made,      \* history: changes that were written to the disk
  wrote      \* history: the change that wrote to the path last, None after the user
vars == <<disk, fresh, patches, journal, job, phase, edits, made, wrote>>

Patch == 1 .. MaxPatch
Index == 1 .. MaxChange
NoPatch == [status |-> "none", of |-> 0, todo |-> {}, changes |-> <<>>]
NoEntry == [status |-> "none", after |-> Gone]
Idle == [patch |-> 0, i |-> 0, pc |-> "idle", slipped |-> FALSE]

Init ==
  /\ disk = Start /\ fresh = Cardinality(Path) + 1
  /\ patches = [P \in Patch |-> NoPatch]
  /\ journal = [P \in Patch |-> [i \in Index |-> NoEntry]]
  /\ job = Idle
  /\ phase = "running"
  /\ edits = 0
  /\ made = {}
  /\ wrote = [p \in Path |-> None]

-----------------------------------------------------------------------------
Status(P) == patches[P].status
Change(P, i) == patches[P].changes[i]
SetPatch(P, s) == patches' = [patches EXCEPT ![P].status = s]

\* matches; an entry that the code cannot read matches nothing.
Matches(actual, expected, identity) ==
  /\ actual.kind = expected.kind /\ actual.text = expected.text
  /\ identity /\ expected.id # None => actual.id = expected.id

IsDir(p) == p # None => disk[p].kind = "directory"

\* preflight of change i in the list c of which those in S are to be made.
Fits(c, S, i) ==
  /\ Matches(disk[c[i].path], c[i].before, TRUE)
  /\ \/ c[i].after.kind = "missing" \/ IsDir(Parent[c[i].path])
     \/ \E j \in S : j < i /\ c[j].path = Parent[c[i].path] /\ c[j].after.kind = "directory"

New(P, of, todo, changes) ==
  /\ Status(P) = "none" /\ \A Q \in Patch : Q < P => Status(Q) # "none"
  /\ patches' = [patches EXCEPT ![P] =
                   [status |-> "validated", of |-> of, todo |-> todo, changes |-> changes]]

(* propose: what an operation expects and what it leaves. *)
Result(o) ==
  CASE o.op = "mkdir" -> Folder(None)
    [] o.op \in {"delete", "depart"} -> Gone
    [] o.op = "arrive" -> File(disk[o.mate].text, None)
    [] OTHER -> File(o.text, None)

\* A file to be changed is one that the run has read and nobody has touched.
Expected(o) ==
  IF o.op \in {"create", "mkdir", "arrive"} THEN disk[o.path] = Gone ELSE disk[o.path].kind = "file"

Propose(P, t) ==
  LET c == [i \in 1 .. Len(t) |->
             [path |-> t[i].path, mate |-> t[i].mate, before |-> disk[t[i].path], after |-> Result(t[i])]] IN
  /\ phase = "running" /\ job = Idle
  /\ \A i \in 1 .. Len(t) : Expected(t[i]) /\ Fits(c, 1 .. Len(t), i)
  /\ New(P, 0, 1 .. Len(t), c)
  /\ UNCHANGED <<disk, fresh, journal, job, phase, edits, made, wrote>>

(* rollback_preview.  Change k of the rollback undoes the k-th last change of
   the patch; only those in todo are made, the others are its conflicts. *)

\* The change was confirmed and the disk is as it was then.
Intact(A, i) ==
  /\ journal[A][i].status = "applied"
  /\ Matches(disk[Change(A, i).path], journal[A][i].after, TRUE)

\* Both halves of a move, or none of them, are undone.
Whole(A, i) ==
  /\ Intact(A, i)
  /\ \A j \in patches[A].todo : Change(A, j).path = Change(A, i).mate => Intact(A, j)

\* A directory is removed when all that is in it goes as well.
Emptied(A, i) ==
  disk[Change(A, i).path].kind = "directory" =>
    \A p \in Path : Parent[p] = Change(A, i).path /\ disk[p] # Gone =>
      \E j \in patches[A].todo : Change(A, j).path = p /\ Whole(A, j) /\ Change(A, j).before = Gone

Undoable(A, i) == Whole(A, i) /\ Emptied(A, i)

Mirror(A, k) == Len(patches[A].changes) + 1 - k

\* Faulty variant: the two ends of the change are confused.
UndoFaulty(A, i) ==
  [path |-> Change(A, i).path, mate |-> None, before |-> disk[Change(A, i).path],
   after |-> [Change(A, i).after EXCEPT !.id = None]]

Undo(A, i) ==
  [path |-> Change(A, i).path, mate |-> None, before |-> disk[Change(A, i).path],
   after |-> [Change(A, i).before EXCEPT !.id = None]]

\* The event loop is free: nothing happens in the service between two awaits.
Free == job = Idle \/ job.pc = "guard"

RollbackPreview(P, A) ==
  LET n == Len(patches[A].changes)
      todo == {k \in 1 .. n : Undoable(A, Mirror(A, k))} IN
  /\ Free /\ phase = "ended"
  /\ patches[A].of = 0 /\ Status(A) \in {"applied", "partially_applied", "failed", "interrupted"}
  /\ todo # {}
  /\ New(P, A, todo, [k \in 1 .. n |-> IF k \in todo THEN Undo(A, Mirror(A, k)) ELSE Change(A, Mirror(A, k))])
  /\ UNCHANGED <<disk, fresh, journal, job, phase, edits, made, wrote>>

-----------------------------------------------------------------------------
(* apply.  A patch is applied by the run, a rollback by the user afterwards;
   the guard looks again at every change. *)
Allowed(P) == phase = IF patches[P].of = 0 THEN "running" ELSE "ended"

Beginnable(P) == Status(P) = "validated"

Preflight(P) == \A i \in patches[P].todo : Fits(patches[P].changes, patches[P].todo, i)

\* Change j is the next one to be made after i.
Follows(P, i, j) ==
  j \in patches[P].todo /\ i < j /\ \A k \in patches[P].todo : ~(i < k /\ k < j)

GoTo(i, p) == job' = [job EXCEPT !.i = i, !.pc = p, !.slipped = FALSE]

Begin(P) ==
  /\ job = Idle /\ Allowed(P) /\ Beginnable(P)
  /\ Preflight(P)
  /\ SetPatch(P, "applying")
  /\ \E i \in Index : Follows(P, 0, i) /\ job' = [patch |-> P, i |-> i, pc |-> "guard", slipped |-> FALSE]
  /\ UNCHANGED <<disk, fresh, journal, phase, edits, made, wrote>>

\* Nothing was touched; the intent to begin could not be saved.
BeginRefused(P) ==
  /\ job = Idle /\ Allowed(P) /\ Beginnable(P)
  /\ \/ ~Preflight(P) /\ SetPatch(P, "conflicted")
     \/ Preflight(P) /\ SetPatch(P, "failed")
  /\ UNCHANGED <<disk, fresh, journal, job, phase, edits, made, wrote>>

Here == Change(job.patch, job.i)
Record(e) == journal' = [journal EXCEPT ![job.patch][job.i] = e]
\* Faulty variant: a change is recorded when it has been made.
IntendFaulty ==
  /\ job.pc = "guard" /\ Allowed(job.patch)
  /\ GoTo(job.i, "check")
  /\ UNCHANGED <<disk, fresh, patches, journal, phase, edits, made, wrote>>

Intend ==
  /\ job.pc = "guard" /\ Allowed(job.patch)
  /\ Record([status |-> "applying", after |-> Gone])
  /\ GoTo(job.i, "check")
  /\ UNCHANGED <<disk, fresh, patches, phase, edits, made, wrote>>

\* What is put at a path is new unless it has the identity of what was there.
Put(p, e) ==
  /\ disk' = [disk EXCEPT ![p] = e]
  /\ fresh' = IF e.id = fresh THEN fresh + 1 ELSE fresh

(* replace_one. *)
\* Faulty variant: the check before the patch began is enough.
CheckFaulty ==
  /\ job.pc = "check"
  /\ Here.after.kind = "file" => IsDir(Parent[Here.path])
  /\ GoTo(job.i, "write")
  /\ UNCHANGED <<disk, fresh, patches, journal, phase, edits, made, wrote>>

\* The last check before the write; the temporary file needs its directory.
Check ==
  /\ job.pc = "check"
  /\ Matches(disk[Here.path], Here.before, TRUE)
  /\ Here.after.kind = "file" => IsDir(Parent[Here.path])
  /\ GoTo(job.i, "write")
  /\ UNCHANGED <<disk, fresh, patches, journal, phase, edits, made, wrote>>

Childless(p) == \A q \in Path : Parent[q] = p => disk[q] = Gone

\* os.replace, os.link (which needs the name to be free), unlink, mkdir, rmdir.
Write(p, e) ==
  LET to == Here.after.kind
      at == disk[p].kind IN
  /\ job.pc = "write" /\ p = Here.path
  /\ to # "missing" => IsDir(Parent[p])
  /\ \/ to = "file" /\ Here.before.kind = "missing" /\ at = "missing"
          /\ e = Linked(Here.after.text, fresh)
     \/ to = "file" /\ Here.before.kind = "file" /\ at # "directory"
          /\ e = File(Here.after.text, fresh)
     \/ to = "directory" /\ at = "missing" /\ e = Folder(fresh)
     \/ to = "missing" /\ Here.before.kind = "directory" /\ at = "directory" /\ Childless(p) /\ e = Gone
     \/ to = "missing" /\ Here.before.kind = "file" /\ at \in {"file", "linked"} /\ e = Gone
  /\ Put(p, e)
  /\ made' = made \cup {<<job.patch, job.i>>}
  /\ wrote' = [wrote EXCEPT ![p] = <<job.patch, job.i>>]
  /\ GoTo(job.i, IF e.kind = "linked" THEN "unlink" ELSE "confirm")
  /\ UNCHANGED <<patches, journal, phase, edits>>

\* The temporary name goes; the user may have put something else at the path.
Unlink ==
  /\ job.pc = "unlink"
  /\ disk' = [disk EXCEPT ![Here.path].kind = IF @ = "linked" THEN "file" ELSE @]
  /\ UNCHANGED fresh
  /\ GoTo(job.i, "confirm")
  /\ UNCHANGED <<patches, journal, phase, edits, made, wrote>>

\* The change is read back, recorded as it is found, and the next one begins.
Confirm ==
  /\ job.pc = "confirm"
  /\ Matches(disk[Here.path], Here.after, FALSE)
  /\ Record([status |-> "applied", after |-> disk[Here.path]])
  /\ \/ \E i \in Index : Follows(job.patch, job.i, i) /\ GoTo(i, "guard")
     \/ (\A k \in patches[job.patch].todo : k <= job.i) /\ GoTo(0, "save")
  /\ UNCHANGED <<disk, fresh, patches, phase, edits, made, wrote>>

Complete ==
  /\ job.pc = "save"
  /\ SetPatch(job.patch, "applied")
  /\ job' = Idle
  /\ UNCHANGED <<disk, fresh, journal, phase, edits, made, wrote>>

\* Guard, journal, check, write, read-back or final save fails: the rest is not
\* made.  When the outcome cannot be saved either, it still reads applying.
Fails ==
  /\ job # Idle
  /\ \/ SetPatch(job.patch, IF \E i \in Index : journal[job.patch][i].status = "applied"
                              THEN "partially_applied" ELSE "failed")
     \/ UNCHANGED patches
  /\ job' = Idle
  /\ UNCHANGED <<disk, fresh, journal, phase, edits, made, wrote>>

-----------------------------------------------------------------------------
(* The user's own programs, and the run around the patches. *)

UserPuts(p, e) ==
  /\ edits < MaxEdit /\ edits' = edits + 1
  /\ e # disk[p]
  /\ Put(p, e)
  /\ wrote' = [wrote EXCEPT ![p] = None]
  /\ job' = [job EXCEPT !.slipped = @ \/ (job.pc = "write" /\ p = Here.path)]
  /\ UNCHANGED <<patches, journal, phase, made>>

\* Edited in place, replaced or created, removed.
UserEdits(p) ==
  \/ \E t \in Text : disk[p].kind \in {"file", "linked"} /\ UserPuts(p, [disk[p] EXCEPT !.text = t])
  \/ \E t \in Text : disk[p].kind # "directory" /\ IsDir(Parent[p]) /\ UserPuts(p, File(t, fresh))
  \/ p \in Dirs /\ disk[p] = Gone /\ UserPuts(p, Folder(fresh))
  \/ Childless(p) /\ UserPuts(p, Gone)

RunEnds ==
  /\ phase = "running" /\ job = Idle
  /\ phase' = "ended"
  /\ UNCHANGED <<disk, fresh, patches, journal, job, edits, made, wrote>>

\* Another run of the account begins while a rollback waits for its guard; what
\* other runs do at other times is the user's doing.
OtherRun ==
  /\ \/ phase = "ended" /\ job.pc = "guard" /\ phase' = "other"
     \/ phase = "other" /\ Free /\ phase' = "ended"
  /\ UNCHANGED <<disk, fresh, patches, journal, job, edits, made, wrote>>

Recovered(s) == IF s = "applying" THEN "interrupted" ELSE s

\* The service dies; Store._recover ends the run and replays nothing.
Restart ==
  /\ job # Idle \/ phase # "ended" \/ \E P \in Patch : Status(P) = "applying"
  /\ patches' = [P \in Patch |-> [patches[P] EXCEPT !.status = Recovered(@)]]
  /\ job' = Idle
  /\ phase' = "ended"
  /\ UNCHANGED <<disk, fresh, journal, edits, made, wrote>>

\* What a write can leave behind.
Writable == {Gone, Folder(fresh)} \cup UNION {{File(t, fresh), Linked(t, fresh)} : t \in Text}

Apply(P) == Begin(P) \/ BeginRefused(P)
ReplaceOne == Check \/ Unlink \/ \E p \in Path : \E e \in Writable : Write(p, e)

Next ==
  \/ \E P \in Patch : Apply(P)
  \/ \E P \in Patch, t \in Proposal : Propose(P, t)
  \/ \E P, A \in Patch : RollbackPreview(P, A)
  \/ Intend \/ ReplaceOne \/ Confirm \/ Complete \/ Fails
  \/ \E p \in Path : UserEdits(p)
  \/ RunEnds \/ OtherRun \/ Restart

Spec == Init /\ [][Next]_vars

-----------------------------------------------------------------------------
(* What the journal says of the disk: facts, and inspect of recovery. *)

Started(p) == {x \in Patch \X Index : journal[x[1]][x[2]].status # "none" /\ Change(x[1], x[2]).path = p}
Latest(p) == CHOOSE x \in Started(p) : \A y \in Started(p) : y[1] <= x[1]

Observed(c) ==
  Matches(disk[c.path], c.after, FALSE) \/ Matches(disk[c.path], c.before, TRUE)

\* Faulty variant: an intent without an outcome is passed over.
BlocksFaulty(p) ==
  Started(p) # {} /\ LET x == Latest(p) IN ~Observed(Change(x[1], x[2]))

\* The path keeps the run from being resumed and the workspace from being left.
Blocks(p) ==
  /\ Started(p) # {}
  /\ LET x == Latest(p) IN
       ~Observed(Change(x[1], x[2])) \/ journal[x[1]][x[2]].status = "applying"

Cleared == job = Idle /\ \A p \in Path : ~Blocks(p)

-----------------------------------------------------------------------------
ChangeRecords == [path : Path, mate : Path \cup {None}, before : Entries, after : Entries]
Statuses == {"none", "validated", "applying", "applied", "partially_applied", "conflicted", "failed", "interrupted"}

(* The state is of its type. *)
TypeOK ==
  /\ disk \in [Path -> Entries]
  /\ patches \in [Patch -> [status : Statuses, of : 0 .. MaxPatch, todo : SUBSET Index, changes : Seq(ChangeRecords)]]
  /\ \A P \in Patch :
       patches[P].todo \subseteq DOMAIN patches[P].changes /\ Len(patches[P].changes) <= MaxChange
  /\ journal \in [Patch -> [Index -> [status : {"none", "applying", "applied"}, after : Entries]]]
  /\ job \in [patch : 0 .. MaxPatch, i : 0 .. MaxChange, slipped : BOOLEAN,
              pc : {"idle", "guard", "check", "write", "unlink", "confirm", "save"}]
  /\ fresh \in Nat
  /\ phase \in {"running", "ended", "other"} /\ edits \in 0 .. MaxEdit
  /\ made \subseteq Patch \X Index
  /\ wrote \in [Path -> (Patch \X Index) \cup {None}]

(* The journal is true of the disk, whatever fails and whenever the service
   dies: nothing was written without an intent, what is recorded as applied was
   written and is still there unless somebody else changed it, and the status
   of a patch claims no more and no less than its entries (journal, apply). *)
JournalIsTrue ==
  \A P \in Patch, i \in Index :
    LET e == journal[P][i] IN
    /\ <<P, i>> \in made => e.status # "none"
    /\ e.status = "applied" =>
         <<P, i>> \in made /\ \A p \in Path : wrote[p] = <<P, i>> => disk[p] = e.after
    /\ Status(P) = "applied" /\ i \in patches[P].todo => e.status = "applied"
    /\ Status(P) \in {"none", "validated", "conflicted"} => e.status = "none"
    /\ Status(P) = "failed" => e.status # "applied"

(* No change is ever made twice: not when a client repeats the request, not
   after a restart, not when the outcome could not be saved (apply, _recover). *)
MadeOnce == [][\A p \in Path : Write(p, disk'[p]) => <<job.patch, job.i>> \notin made]_vars

(* What a write takes from the disk is in the record of its change, so that an
   edit by the user is never lost, except one that slips in between the last
   check and the write (the checks in replace_one). *)
NoEditLost ==
  [][\A p \in Path : Write(p, disk'[p]) /\ ~job.slipped =>
       disk[p].kind = Here.before.kind /\ disk[p].text = Here.before.text]_vars

(* A rollback takes away what its patch has written and nothing else, whatever
   the user or a later patch did to the file before or after the preview; only
   an edit that slips in behind the last check is beyond it. *)
RollbackTakesItsOwn ==
  [][\A p \in Path : Write(p, disk'[p]) /\ ~job.slipped /\ patches[job.patch].of # 0 =>
       LET A == patches[job.patch].of
           e == journal[A][Mirror(A, job.i)] IN
       e.status = "applied" /\ disk[p] = e.after]_vars

(* The text of a moved file is never on its way only: the source goes when the
   destination has been written, and a rollback removes the destination when
   the source is back; it undoes both halves or none (group_id, the order of
   the changes, blocked_moves). *)
MovesArePaired ==
  \A P \in Patch, i, j \in Index :
    LET c == patches[P].changes IN
    i \in DOMAIN c /\ j \in DOMAIN c /\ c[i].mate = c[j].path /\ c[i].before.kind = "missing" /\ patches[P].of = 0 =>
      /\ <<P, j>> \in made => <<P, i>> \in made
      /\ \A R \in Patch : patches[R].of = P =>
           /\ Mirror(P, i) \in patches[R].todo <=> Mirror(P, j) \in patches[R].todo
           /\ <<R, Mirror(P, i)>> \in made => <<R, Mirror(P, j)>> \in made

(* A rollback that was applied has put back what the patch had found, at every
   path that it undid and nobody has changed since (rollback_preview). *)
RollbackRestores ==
  \A R \in Patch : patches[R].of # 0 /\ Status(R) = "applied" =>
    \A k \in patches[R].todo, p \in Path :
      wrote[p] = <<R, k>> =>
        LET A == patches[R].of IN
        \E i \in patches[A].todo : Change(A, i).path = p /\ Matches(disk[p], [Change(A, i).before EXCEPT !.id = None], FALSE)

(* When nothing blocks the run any more, every path that the service wrote last
   holds what some journal entry has confirmed: a write whose outcome is not
   known cannot hide behind the entries of other patches (inspect). *)
NothingUnconfirmed ==
  Cleared => \A p \in Path :
    wrote[p] # None =>
      \E x \in Started(p) :
        journal[x[1]][x[2]].status = "applied" /\ Matches(disk[p], Change(x[1], x[2]).after, FALSE)
=============================================================================
