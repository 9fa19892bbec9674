------------------------------- MODULE Sandbox -------------------------------
(***************************************************************************)
(* Leases on the files of a project (windows_sandbox.py): a program runs   *)
(* under an identity of its own that is granted the project's directory,   *)
(* and the credentials in it are taken out of the grant by cutting them    *)
(* off from what they inherit.  A journal on disk lets the next lease, or  *)
(* the next start of the service, undo what a crash left behind.           *)
(*                                                                         *)
(* Three objects stand for the tree: a directory above the project, the    *)
(* project's root and a credential in it.  An access list has entries of   *)
(* its own and, unless it is sealed off, those of its parent.  Users change   *)
(* lists at any time.  The services of two accounts have a journal each    *)
(* and share the disk; a mutex keeps their changes of lists apart.         *)
(***************************************************************************)
EXTENDS Naturals, Sequences, FiniteSets

CONSTANTS
  Lease,    \* one execution each
  Account,  \* the service of an account, with a journal of its own
  Person,   \* whom the users' entries are for
  Flaky,    \* whether the first grant, and a clean-up under way, may fail
  MaxEdit,  \* bound of the users' changes
  MaxCrash, \* bound of the crashes
  Nobody

ASSUME SandboxShape ==
  /\ Lease \cap Account = {} /\ Lease \cap Person = {} /\ Nobody \notin Lease \cup Account
  /\ MaxEdit \in Nat /\ MaxCrash \in Nat /\ Flaky \in BOOLEAN

VARIABLES
  home,    \* the account of each lease
  own,     \* entries of each list
  sealed,     \* lists that inherit nothing
  journal, \* records on disk
  hosted,    \* whether the executor of a lease lives
  program, \* whether its command runs
  up,      \* services that run
  work,    \* what a lease, or a starting service, is doing
  mutex,   \* who changes lists
  plain,   \* history: the lists as the users alone would have made them
  edits, crashes

sandboxVars == <<home, own, sealed, journal, hosted, program, up, work, mutex, plain, edits, crashes>>

Object == {"top", "root", "secret"}
Narrowed == <<"root", "secret">>  \* the protections, parents first
Actor == Lease \cup Account

\* What a list grants, its parents' entries included.
Reach(list, off) ==
  LET root == list["root"] \cup IF "root" \in off THEN {} ELSE list["top"] IN
  [o \in Object |-> CASE o = "top" -> list["top"]
                      [] o = "root" -> root
                      [] o = "secret" -> list["secret"] \cup IF "secret" \in off THEN {} ELSE root]

Entry(who, kind) == [who |-> who, kind |-> kind]
Of(who, entries) == {e \in entries : e.who = who}
Inherited(o) ==
  IF o = "top" \/ o \in sealed THEN {} ELSE Reach(own, sealed)[IF o = "root" THEN "top" ELSE "root"]

NoJournal == [kept |-> FALSE]
Resting == [at |-> "idle"]
Doing(at) == [at |-> at]
Record(a, owner) ==
  [kept |-> TRUE, base |-> a, owner |-> owner, host |-> FALSE, known |-> {},
   cut |-> {}, copies |-> [o \in Object |-> {}]]

SandboxInit ==
  /\ home \in [Lease -> Account]
  /\ own \in [Object -> SUBSET {Entry(p, "user") : p \in Person}]
  /\ own["root"] = {} /\ own["top"] # {}
  /\ sealed \in SUBSET {"secret"} /\ (own["secret"] # {} <=> sealed # {})
  /\ journal = [l \in Lease |-> NoJournal]
  /\ hosted = [l \in Lease |-> FALSE] /\ program = [l \in Lease |-> FALSE]
  /\ up = Account /\ work = [a \in Actor |-> Resting] /\ mutex = Nobody
  /\ plain = [own |-> own, cut |-> sealed] /\ edits = 0 /\ crashes = 0

Base(a) == IF a \in Lease THEN home[a] ELSE a
Go(a, at) == work' = [work EXCEPT ![a] = Doing(at)]

-----------------------------------------------------------------------------
(* Recovery: the records whose lock is free. *)

Cleaned(l) == \E a \in Actor : work[a].at \in {"wait", "clean"} /\ work[a].of = l
Free(a) == {l \in Lease : journal[l].kept /\ journal[l].base = Base(a) /\ work[l].at = "idle" /\ ~Cleaned(l)}
Lives(l) == journal[l].owner \/ (journal[l].host /\ hosted[l])

\* An executor is started for the lease, which first recovers; or a service is.
Begin(a) ==
  /\ work[a] = Resting
  /\ IF a \in Lease THEN home[a] \in up /\ ~journal[a].kept /\ ~hosted[a] ELSE a \notin up
  /\ hosted' = IF a \in Lease THEN [hosted EXCEPT ![a] = TRUE] ELSE hosted
  /\ Go(a, "recover")
  /\ UNCHANGED <<home, own, sealed, journal, program, up, mutex, plain, edits, crashes>>

\* A failure ends the lease's turn, or the start of the service.
After(a) == IF a \in Lease THEN "over" ELSE "idle"

Refuse(a) ==
  /\ work[a].at = "recover" /\ \E l \in Free(a) : Lives(l)
  /\ Go(a, After(a))
  /\ UNCHANGED <<home, own, sealed, journal, hosted, program, up, mutex, plain, edits, crashes>>

Take(a, l) ==
  /\ work[a].at = "recover" /\ l \in Free(a) /\ ~Lives(l)
  /\ work' = [work EXCEPT ![a] = [at |-> "wait", of |-> l, then |-> "recover", step |-> 1]]
  /\ UNCHANGED <<home, own, sealed, journal, hosted, program, up, mutex, plain, edits, crashes>>

Recovered(a) ==
  /\ work[a].at = "recover" /\ Free(a) = {}
  /\ IF a \in Lease THEN Go(a, "scanned") /\ UNCHANGED up ELSE Go(a, "idle") /\ up' = up \cup {a}
  /\ UNCHANGED <<home, own, sealed, journal, hosted, program, mutex, plain, edits, crashes>>

-----------------------------------------------------------------------------
(* The preparation. *)

\* The record is on disk before anything else happens.
Save(l) ==
  /\ work[l].at = "scanned" /\ Go(l, "saved")
  /\ journal' = [journal EXCEPT ![l] = Record(home[l], TRUE)]
  /\ UNCHANGED <<home, own, sealed, hosted, program, up, mutex, plain, edits, crashes>>

\* protection_state: another lease reaches the object, or an entry is there twice.
Overlaps(o) ==
  \/ \E l \in Lease : Of(l, Reach(own, sealed)[o]) # {}
  \/ own[o] \cap Inherited(o) # {}

\* The states of all objects are read and saved; the mutex is kept.
Enter(l) ==
  /\ work[l].at = "saved" /\ mutex = Nobody /\ \A o \in {"root", "secret"} : ~Overlaps(o)
  /\ mutex' = l /\ Go(l, "grant")
  /\ journal' = [journal EXCEPT ![l].known = {"root", "secret"}, ![l].cut = sealed,
                                ![l].copies = [o \in Object |-> Inherited(o)]]
  /\ UNCHANGED <<home, own, sealed, hosted, program, up, plain, edits, crashes>>

Grant(l) ==
  /\ work[l].at = "grant" /\ Go(l, "root")
  /\ own' = [own EXCEPT !["root"] = @ \cup {Entry(l, "full")}]
  /\ UNCHANGED <<home, sealed, journal, hosted, program, up, mutex, plain, edits, crashes>>

\* What the sealed list keeps: everything it had but the entries of this lease.
RetainedFaulty(l, o) == Reach(own, sealed)[o] \ Of(l, own[o])
Retained(l, o) == Reach(own, sealed)[o] \ Of(l, Reach(own, sealed)[o])

\* Of the root the program may do all but remove its entries; of a credential nothing.
Narrow(l, o) ==
  /\ work[l].at = o
  /\ own' = [own EXCEPT ![o] = Retained(l, o) \cup IF o = "root" THEN {Entry(l, "narrow")} ELSE {}]
  /\ sealed' = sealed \cup {o}
  /\ IF o = "root" THEN Go(l, "secret") /\ UNCHANGED mutex ELSE Go(l, "ready") /\ mutex' = Nobody
  /\ UNCHANGED <<home, journal, hosted, program, up, plain, edits, crashes>>

\* A refusal, a time-out of the mutex or an error: the mutex is released, then
\* the lease is closed.
Abandon(l) ==
  /\ work[l].at \in {"saved", "root", "secret"} \/ (Flaky /\ work[l].at = "grant")
  /\ Go(l, "close")
  /\ mutex' = IF mutex = l THEN Nobody ELSE mutex
  /\ UNCHANGED <<home, own, sealed, journal, hosted, program, up, plain, edits, crashes>>

\* bind, then the command
Bind(l) ==
  /\ work[l].at = "ready" /\ hosted[l] /\ Go(l, "bound")
  /\ journal' = [journal EXCEPT ![l].host = TRUE]
  /\ UNCHANGED <<home, own, sealed, hosted, program, up, mutex, plain, edits, crashes>>

Command(l) ==
  /\ work[l].at = "bound" /\ hosted[l] /\ Go(l, "run")
  /\ program' = [program EXCEPT ![l] = TRUE]
  /\ UNCHANGED <<home, own, sealed, journal, hosted, up, mutex, plain, edits, crashes>>

\* The executor and all below it are gone; it may also outlive the order to end.
HostEnds(l) ==
  /\ hosted[l] /\ hosted' = [hosted EXCEPT ![l] = FALSE] /\ program' = [program EXCEPT ![l] = FALSE]
  /\ UNCHANGED <<home, own, sealed, journal, up, work, mutex, plain, edits, crashes>>

\* The end, a failure or a cancellation: the client is closed, then the lease.
EndLease(l) ==
  /\ work[l].at \in {"scanned", "ready", "bound", "run"} /\ Go(l, "over")
  /\ UNCHANGED <<home, own, sealed, journal, hosted, program, up, mutex, plain, edits, crashes>>

Close(l) ==
  /\ work[l].at \in {"over", "close"}
  /\ IF ~journal[l].kept \/ (journal[l].host /\ hosted[l]) THEN Go(l, "idle")
     ELSE work' = [work EXCEPT ![l] = [at |-> "wait", of |-> l, then |-> "idle", step |-> 1]]
  /\ UNCHANGED <<home, own, sealed, journal, hosted, program, up, mutex, plain, edits, crashes>>

-----------------------------------------------------------------------------
(* The clean-up: the grant first, then the objects that were sealed off. *)

Clean(a) ==
  /\ work[a].at = "wait" /\ mutex = Nobody /\ mutex' = a
  /\ work' = [work EXCEPT ![a].at = "clean"]
  /\ UNCHANGED <<home, own, sealed, journal, hosted, program, up, plain, edits, crashes>>

Revoke(a) ==
  LET l == work[a].of IN
  /\ work[a].at = "clean" /\ work[a].step = 1 /\ work' = [work EXCEPT ![a].step = 2]
  /\ own' = [own EXCEPT !["root"] = @ \ Of(l, @)]
  /\ UNCHANGED <<home, sealed, journal, hosted, program, up, mutex, plain, edits, crashes>>

\* The entries that cutting off had copied go, all others stay.
CopiesFaulty(l, o) == {}
Copies(l, o) == IF o \in sealed THEN journal[l].copies[o] ELSE {}

Restore(a) ==
  LET l == work[a].of
      o == Narrowed[work[a].step - 1] IN
  /\ work[a].at = "clean" /\ work[a].step \in {2, 3} /\ work' = [work EXCEPT ![a].step = @ + 1]
  /\ IF o \in journal[l].known /\ o \notin journal[l].cut
     THEN /\ own' = [own EXCEPT ![o] = (@ \ Of(l, @)) \ Copies(l, o)]
          /\ sealed' = sealed \ {o}
     ELSE own' = [own EXCEPT ![o] = @ \ Of(l, @)] /\ UNCHANGED sealed
  /\ UNCHANGED <<home, journal, hosted, program, up, mutex, plain, edits, crashes>>

\* The identity is deleted, then the record.
Unlink(a) ==
  /\ work[a].at = "clean" /\ work[a].step = 4
  /\ journal' = [journal EXCEPT ![work[a].of] = NoJournal]
  /\ mutex' = Nobody /\ Go(a, work[a].then)
  /\ UNCHANGED <<home, own, sealed, hosted, program, up, plain, edits, crashes>>

\* The mutex is not free in time, or an object is in use or was replaced: the
\* record stays.
CleanFails(a) ==
  /\ work[a].at = "wait" \/ (work[a].at = "clean" /\ (Flaky \/ work[a].step = 1))
  /\ mutex' = IF mutex = a THEN Nobody ELSE mutex
  /\ Go(a, IF work[a].then = "recover" THEN After(a) ELSE "idle")
  /\ UNCHANGED <<home, own, sealed, journal, hosted, program, up, plain, edits, crashes>>

-----------------------------------------------------------------------------
\* The service dies; executors and programs may live on for a while.
Crash(a) ==
  /\ crashes < MaxCrash /\ crashes' = crashes + 1
  /\ up' = up \ {a} /\ work' = [b \in Actor |-> IF Base(b) = a THEN Resting ELSE work[b]]
  /\ mutex' = IF mutex # Nobody /\ Base(mutex) = a THEN Nobody ELSE mutex
  /\ journal' = [l \in Lease |-> IF journal[l].kept /\ journal[l].base = a
                                 THEN [journal[l] EXCEPT !.owner = FALSE] ELSE journal[l]]
  /\ UNCHANGED <<home, own, sealed, hosted, program, plain, edits>>

\* A user adds an entry that is not there, or takes one away.  Between the reading
\* of the states and the end of the narrowing no user changes a list.  An entry
\* that equals a copy, put where the copy was taken away, counts as the copy.
Arming == \E l \in Lease : work[l].at \in {"grant", "root", "secret"}

UserEdit ==
  /\ edits < MaxEdit /\ edits' = edits + 1 /\ ~Arming
  /\ \E o \in Object, p \in Person :
       LET e == Entry(p, "user") IN
       \/ /\ e \notin Reach(own, sealed)[o] /\ own' = [own EXCEPT ![o] = @ \cup {e}]
          /\ plain' = IF \E l \in Lease : journal[l].kept /\ e \in Copies(l, o) THEN plain
                      ELSE [plain EXCEPT !.own[o] = @ \cup {e}]
       \/ /\ e \in own[o] /\ own' = [own EXCEPT ![o] = @ \ {e}]
          /\ plain' = [plain EXCEPT !.own[o] = @ \ {e}]
  /\ UNCHANGED <<home, sealed, journal, hosted, program, up, work, mutex, crashes>>

SandboxNext ==
  \/ \E a \in Actor : Begin(a) \/ Refuse(a) \/ Recovered(a) \/ Clean(a) \/ Revoke(a) \/ Restore(a)
                      \/ Unlink(a) \/ CleanFails(a) \/ \E l \in Lease : Take(a, l)
  \/ \E l \in Lease : Save(l) \/ Enter(l) \/ Grant(l) \/ Narrow(l, "root") \/ Narrow(l, "secret")
                      \/ Abandon(l) \/ Bind(l) \/ Command(l) \/ HostEnds(l) \/ EndLease(l) \/ Close(l)
  \/ \E a \in Account : Crash(a)
  \/ UserEdit

SandboxSpec == SandboxInit /\ [][SandboxNext]_sandboxVars

-----------------------------------------------------------------------------
(* Properties *)

\* As long as a program runs, crashed service or not, its grant reaches the root,
\* in the narrow form, and never a credential: nobody cleans up, restores or
\* prepares under it (SandboxLease, windows_sandbox.py:399-518).
SecretStaysShut ==
  \A l \in Lease : program[l] =>
    LET reach == Reach(own, sealed) IN Of(l, reach["root"]) = {Entry(l, "narrow")} /\ Of(l, reach["secret"]) = {}

\* The documents' part of it: a credential that was there at the start is refused.
CredentialIsRefused == \A l \in Lease : program[l] => Of(l, Reach(own, sealed)["secret"]) = {}

\* Once no record is left, every list is what the users made of it: no grant, no
\* copy and no seal is left behind, and nothing of theirs is lost, whatever failed
\* or crashed on the way (_cleanup and recover, windows_sandbox.py:466-518).
ListsComeBack ==
  (\A l \in Lease : ~journal[l].kept) => Reach(own, sealed) = Reach(plain.own, plain.cut) /\ sealed = plain.cut
=============================================================================
