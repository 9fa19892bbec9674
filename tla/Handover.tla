------------------------------ MODULE Handover ------------------------------
(***************************************************************************)
(* The hand-over of a worktree's changes to the project's own directory    *)
(* (WorktreeHandoff), and the life of the worktrees (Workspaces).          *)
(*                                                                         *)
(* A preview reads the two trees path by path, with awaits in between.  The*)
(* user confirms one; apply takes another and goes on if it is the same.   *)
(* From there the executor does nothing else until the hand-over is over,  *)
(* but the user's editor may change either tree and the executor may die.  *)
(* What was written is recorded in the project's list of hand-overs.       *)
(***************************************************************************)
EXTENDS Naturals, Sequences, FiniteSets

CONSTANTS
  Worktree,
  Path,
  Content,   \* what a path may hold, a deleted file included
  Base,      \* what every path holds at the commit the worktrees start from
  Main,      \* the project's own directory
  MaxEdit,   \* bound of the edits by the user
  MaxRecord, \* hand-overs a project may have
  Overlap    \* two hand-overs may be confirmed at the same time

ASSUME HandoverAssumption ==
  /\ Base \in Content /\ Main \notin Worktree
  /\ MaxEdit \in Nat /\ MaxRecord \in Nat /\ Overlap \in BOOLEAN

VARIABLES
  tree,     \* content of the paths of every directory
  state,    \* worktree_state of the worktrees
  inUse,    \* directories with an active run or a lease
  records,  \* worktree_handoffs of the project
  home,     \* workspace of the worktree's session
  hand,     \* the hand-over of a worktree that a client asks for
  wrote,    \* paths that a hand-over has written to the project's directory
  edits

handVars == <<tree, state, inUse, records, home, hand, wrote, edits>>

Dir == Worktree \cup {Main}
\* A preview has the content of every path before and after.
NoPreview == [p \in Path |-> <<Base, Base>>]
\* shown: the preview the user sees; read: the one that is being taken;
\* left: its paths still to be read, later the changes still to be written;
\* now: the path being written; list: the records as apply has read them.
NoHand == [at |-> "idle", shown |-> NoPreview, read |-> NoPreview, left |-> {},
           now |-> Main, list |-> <<>>]
Steps == {"idle", "look", "shown", "again", "write", "land"}

HandInit ==
  /\ tree \in {t \in [Dir -> [Path -> Content]] : \A p \in Path : t[Main][p] = Base}
  /\ state = [w \in Worktree |-> "none"]
  /\ inUse = {} /\ records = <<>>
  /\ home = [w \in Worktree |-> w]
  /\ hand = [w \in Worktree |-> NoHand]
  /\ wrote = {} /\ edits = 0

\* The executor is not inside the part of apply that has no await.
Loop == \A w \in Worktree : hand[w].at \notin {"write", "land"}
\* WorktreeHandoff.roots.
Roots(w) == state[w] = "ready" /\ w \notin inUse /\ Main \notin inUse
\* What the executor holds in memory is gone with it.
Stops == hand' = [w \in Worktree |-> NoHand] /\ inUse' = {}

-----------------------------------------------------------------------------
(* preview. *)

Changes(pv) == {p \in Path : pv[p][1] # pv[p][2]}
Conflicts(pv) == {p \in Changes(pv) : pv[p][1] # Base}
With(f, p, x) == [q \in DOMAIN f \cup {p} |-> IF q = p THEN x ELSE f[q]]

Look(w) ==
  /\ Loop /\ hand[w].at \in {"idle", "shown"} /\ Roots(w)
  /\ hand' = [hand EXCEPT ![w] = [NoHand EXCEPT !.at = "look", !.left = Path]]
  /\ UNCHANGED <<tree, state, inUse, records, home, wrote, edits>>

\* The paths are read, and later written, in their order.
First(P) == CHOOSE p \in P : TRUE

ReadPath(w) ==
  /\ Loop /\ hand[w].at \in {"look", "again"} /\ hand[w].left # {}
  /\ LET p == First(hand[w].left) IN
       hand' = [hand EXCEPT ![w].left = @ \ {p},
                            ![w].read[p] = <<tree[Main][p], tree[w][p]>>]
  /\ UNCHANGED <<tree, state, inUse, records, home, wrote, edits>>

Shown(w) ==
  /\ Loop /\ hand[w].at = "look" /\ hand[w].left = {}
  /\ hand' = [hand EXCEPT ![w] = [NoHand EXCEPT !.at = "shown", !.shown = hand[w].read]]
  /\ UNCHANGED <<tree, state, inUse, records, home, wrote, edits>>

-----------------------------------------------------------------------------
(* apply. *)

Recorded(w, pv) == \E i \in DOMAIN records : records[i].from = w /\ records[i].version = pv

\* The request names the version shown; a repetition is answered from the list.
Confirm(w) ==
  /\ Loop /\ hand[w].at = "shown" /\ Roots(w)
  /\ Overlap \/ \A v \in Worktree : hand[v].at # "again"
  /\ hand' = [hand EXCEPT ![w] =
       IF Recorded(w, hand[w].shown) \/ Len(records) >= MaxRecord THEN NoHand
       ELSE [@ EXCEPT !.at = "again", !.left = Path, !.list = records]]
  /\ UNCHANGED <<tree, state, inUse, records, home, wrote, edits>>

SameAsShown(w) == hand[w].read = hand[w].shown /\ Conflicts(hand[w].read) = {}

NewRecord(w) ==
  [from |-> w, version |-> hand[w].shown, result |-> "applying",
   files |-> [p \in {} |-> "writing"]]

\* apply appends to the list it read before its preview.
Commit(w) ==
  /\ Loop /\ hand[w].at = "again" /\ hand[w].left = {}
  /\ IF /\ SameAsShown(w) /\ Roots(w) /\ home[w] = w
        /\ \A p \in Changes(hand[w].read) : tree[Main][p] = hand[w].read[p][1]
     THEN /\ records' = Append(hand[w].list, NewRecord(w))
          /\ hand' = [hand EXCEPT ![w].at = "write", ![w].left = Changes(hand[w].read),
                                  ![w].list = <<>>]
     ELSE hand' = [hand EXCEPT ![w] = NoHand] /\ UNCHANGED records
  /\ UNCHANGED <<tree, state, inUse, home, wrote, edits>>

\* The record of the hand-over that is being written is the last of the list.
Save(f) == records' = [records EXCEPT ![Len(records)] = f]
Current == records[Len(records)]

Mark(p) == Save([Current EXCEPT !.files = With(@, p, "writing")])

WriteNext(w) ==
  /\ hand[w].at = "write" /\ hand[w].left # {}
  /\ LET p == First(hand[w].left) IN
       /\ tree[w][p] = hand[w].read[p][2]
       /\ Mark(p)
       /\ hand' = [hand EXCEPT ![w].at = "land", ![w].now = p]
  /\ UNCHANGED <<tree, state, inUse, home, wrote, edits>>

\* Faulty variant: the file is replaced whatever it holds by now.
UnchangedSinceFaulty(w, p) == TRUE

UnchangedSince(w, p) == tree[Main][p] = hand[w].read[p][1]

\* replace_one looks at the file once more and replaces it; the executor may
\* die before this is recorded.
Land(w) ==
  LET p == hand[w].now IN
  /\ hand[w].at = "land" /\ UnchangedSince(w, p)
  /\ tree' = [tree EXCEPT ![Main][p] = hand[w].read[p][2]]
  /\ wrote' = wrote \cup {<<w, p>>}
  /\ \/ /\ Save([Current EXCEPT !.files = With(@, p, "applied")])
        /\ hand' = [hand EXCEPT ![w].at = "write", ![w].now = Main, ![w].left = @ \ {p}]
        /\ UNCHANGED inUse
     \/ Stops /\ UNCHANGED records
  /\ UNCHANGED <<state, home, edits>>

\* Faulty variant: the session moves before the last file has been written.
CompleteFaulty(w) == Cardinality(hand[w].left) <= 1

Complete(w) == hand[w].left = {}

Applied(w) ==
  /\ hand[w].at = "write" /\ Complete(w)
  /\ Save([Current EXCEPT !.result = "applied"])
  /\ home' = [home EXCEPT ![w] = Main]
  /\ hand' = [hand EXCEPT ![w] = NoHand]
  /\ UNCHANGED <<tree, state, inUse, wrote, edits>>

\* Either tree has changed under the hand-over, or the disk fails.
BreaksOff(w) ==
  /\ hand[w].at \in {"write", "land"} /\ hand[w].left # {}
  /\ Save([Current EXCEPT !.result = "interrupted"])
  /\ hand' = [hand EXCEPT ![w] = NoHand]
  /\ UNCHANGED <<tree, state, inUse, home, wrote, edits>>

-----------------------------------------------------------------------------
(* create_worktree, remove_worktree, runs, the user and a crash. *)

\* The record comes first; a crash leaves it as it is.
BeginWorktree(w) ==
  /\ Loop /\ state[w] = "none" /\ Main \notin inUse
  /\ state' = [state EXCEPT ![w] = "creating"]
  /\ UNCHANGED <<tree, inUse, records, home, hand, wrote, edits>>

EndWorktree(w) ==
  /\ Loop /\ state[w] = "creating"
  /\ \E s \in {"ready", "error", "creating"} : state' = [state EXCEPT ![w] = s]
  /\ UNCHANGED <<tree, inUse, records, home, hand, wrote, edits>>

\* git refuses to remove a tree with changes.
RemoveWorktree(w) ==
  /\ Loop /\ state[w] = "ready" /\ w \notin inUse /\ \A p \in Path : tree[w][p] = Base
  /\ state' = [state EXCEPT ![w] = "removed"]
  /\ UNCHANGED <<tree, inUse, records, home, hand, wrote, edits>>

\* A run takes a directory or gives it back.
UseDir(d) ==
  /\ Loop /\ d \in Worktree => state[d] = "ready"
  /\ inUse' = IF d \in inUse THEN inUse \ {d} ELSE inUse \cup {d}
  /\ UNCHANGED <<tree, state, records, home, hand, wrote, edits>>

\* The user's editor, or a run in the directory, changes a file at any time.
Edit(d) ==
  /\ edits < MaxEdit /\ edits' = edits + 1
  /\ \E p \in Path, c \in Content : c # tree[d][p] /\ tree' = [tree EXCEPT ![d][p] = c]
  /\ UNCHANGED <<state, inUse, records, home, hand, wrote>>

Die ==
  /\ Stops
  /\ UNCHANGED <<tree, state, records, home, wrote, edits>>

-----------------------------------------------------------------------------

HandNext ==
  \/ \E w \in Worktree :
       \/ Look(w) \/ ReadPath(w) \/ Shown(w) \/ Confirm(w) \/ Commit(w)
       \/ WriteNext(w) \/ Land(w) \/ Applied(w) \/ BreaksOff(w)
       \/ BeginWorktree(w) \/ EndWorktree(w) \/ RemoveWorktree(w)
  \/ \E d \in Dir : UseDir(d) \/ Edit(d)
  \/ Die

HandSpec == HandInit /\ [][HandNext]_handVars

-----------------------------------------------------------------------------
(* Properties. *)

\* A session moves to the project's directory with the whole of its hand-over:
\* a record says applied only when all the changes the user confirmed have been
\* written, and exactly then the session has moved.
SessionMovesWithFiles ==
  \A w \in Worktree :
    home[w] = Main <=>
      \E i \in DOMAIN records :
        /\ records[i].from = w /\ records[i].result = "applied"
        /\ DOMAIN records[i].files = Changes(records[i].version)
        /\ \A p \in DOMAIN records[i].files : records[i].files[p] = "applied"

\* A file of the project's directory is replaced only while it holds what the
\* user saw in the preview that was confirmed, and by what was shown there.
OnlyWhatWasShown ==
  [][wrote' # wrote =>
       \E w \in Worktree, p \in Path :
         /\ hand[w].shown[p] = <<tree[Main][p], tree'[Main][p]>>
         /\ \A q \in Path \ {p} : tree'[Main][q] = tree[Main][q]]_handVars

=============================================================================
