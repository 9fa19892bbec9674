----------------------------- MODULE MCPatchSet -----------------------------
(***************************************************************************)
(* What the service keeps on disk between runs, for TLC: the patches of a  *)
(* workspace, or the memories of a project.  They share no state: kept     *)
(* says which of them moves.                                               *)
(*                                                                         *)
(* A path d at the root with a place f below it, and a file q; two         *)
(* sessions, and one memory for the model and one for the user to write.   *)
(***************************************************************************)
EXTENDS PatchSet, Memories, TLC

CONSTANTS d, f, q, text1, text2, s1, s2, fact1, fact2

Op(op, path, mate, text) == [op |-> op, path |-> path, mate |-> mate, text |-> text]

MCParent == d :> None @@ f :> d @@ q :> None
MCStart == d :> Gone @@ f :> Gone @@ q :> File(text1, 1)

\* A directory with a new file in it, a move into a new directory, and two
\* changes of a single file.
MCProposal ==
  {<<Op("mkdir", d, None, None), Op("create", f, None, text2)>>,
   <<Op("mkdir", d, None, None), Op("arrive", f, q, None), Op("depart", q, f, None)>>,
   <<Op("update", q, None, text2)>>, <<Op("delete", q, None, None)>>}

MCDrawn == {<<"project", "k">>}
MCOwn == {<<"project", "u">>}

\* Sessions are alike, and so are the contents of memories.
Alike == Permutations(Chat) \cup Permutations(Fact)

VARIABLE kept

KeptInit ==
  /\ kept \in {"patches", "memories"} /\ Init /\ MemoriesInit
  /\ kept = "patches" => ~policy.on /\ policy.make

KeptNext ==
  /\ UNCHANGED kept
  /\ \/ kept = "patches" /\ Next /\ UNCHANGED memoryVars
     \/ kept = "memories" /\ MemoriesNext /\ UNCHANGED vars

KeptSpec == KeptInit /\ [][KeptNext]_<<kept, vars, memoryVars>>
=============================================================================
