------------------------------ MODULE MemoryProofs ------------------------------
(***************************************************************************)
(* What Memories promises, for every set of sessions, memories and         *)
(* contents and every bound.                                               *)
(*                                                                         *)
(* That the user's words are taken only with consent needs, of every       *)
(* message there is, that one the worker may read was never withheld       *)
(* (ConsentIsKnown), and, of a batch that is under way, that it is still   *)
(* free of withheld messages unless something has made it stale            *)
(* (BatchIsFree).  A save of the settings that waits for the worker may    *)
(* find another one: generation is then on already (SaveFits).  That what  *)
(* was forgotten stays away needs its tombstone to stay (Buried).          *)
(***************************************************************************)
EXTENDS Memories, SequenceTheorems, WellFoundedInduction, TLAPS

SettingsRow == [on : BOOLEAN, use : BOOLEAN, make : BOOLEAN, shut : BOOLEAN, since : Nat, version : Int]
Words == [at : Nat, who : {"user", "model"}, outside : BOOLEAN]
Chats == [live : BOOLEAN, said : Seq(Words), done : BOOLEAN, use : BOOLEAN, make : BOOLEAN,
          since : Nat, version : Nat, cursor : Nat]
Jobs == [at : {"scan", "profiles", "call"}, config : SettingsRow, fresh : BOOLEAN, todo : SUBSET Chat,
         same : SUBSET Chat, done : SUBSET Chat, on : Chat \cup {NoChat}, batch : Seq(Words), version : Nat]

\* The variables hold what they are meant to (memories.py, memory_store.py).
MemoriesTypeOK ==
  /\ policy \in SettingsRow /\ chat \in [Chat -> Chats]
  /\ rows \in [Slot -> MemoryRow \cup {NoRow}]
  /\ worker \in {Off, Asleep} \cup Jobs
  /\ request \in {NoRequest} \cup [on : {TRUE}, new : SettingsRow]
  /\ attempts \in [calls : Nat, running : Int]
  /\ active \in Chat \cup {NoChat} /\ clock \in 0..MaxWord

\* A message is said once, in one session, at a time that has come.
SaidOnce ==
  /\ \A s \in Chat : \A i \in DOMAIN chat[s].said : chat[s].said[i].at \in 1..clock
  /\ \A s \in Chat, t \in Chat : s # t =>
       \A i \in DOMAIN chat[s].said, j \in DOMAIN chat[t].said : chat[s].said[i].at # chat[t].said[j].at

\* What the worker may read was never withheld.
ConsentAt(s) ==
  MayMake(s) => \A i \in DOMAIN chat[s].said :
    chat[s].said[i].at > policy.since /\ chat[s].said[i].at > chat[s].since => chat[s].said[i].at \notin withheld
ConsentIsKnown == \A s \in Chat : ConsentAt(s)

Busy == worker.at \in {"profiles", "call"}
BatchIsFree ==
  Busy =>
    /\ worker.on \in Chat /\ worker.batch # <<>>
    /\ \A i \in DOMAIN worker.batch : worker.batch[i].at \in 1..clock
    /\ worker.fresh => chat[worker.on].live
    /\ worker.fresh /\ MayMake(worker.on) => \A i \in DOMAIN worker.batch : worker.batch[i].at \notin withheld

SaveFits == request.on /\ worker # Off => Making(policy)

\* Nothing is withheld that was not said.
NotYet == \A t \in withheld : t \in 0..clock

\* Every memory that was forgotten has left a tombstone with its words.
Buried == \A f \in forgotten : f.slot \in Slot /\ rows[f.slot] \in MemoryRow /\ rows[f.slot].deleted /\ rows[f.slot].fact = f.fact

MemoriesInv == MemoriesTypeOK /\ SaidOnce /\ ConsentIsKnown /\ BatchIsFree /\ SaveFits /\ NotYet /\ Buried

-----------------------------------------------------------------------------
(* What the worker reads. *)

LEMMA LeastOf ==
  ASSUME NEW S \in SUBSET Nat, S # {}
  PROVE  Min(S) \in S
<1>1. PICK m \in S : \A n \in S : ~(<<n, m>> \in OpToRel(<, Nat))
  BY NatLessThanWellFounded, WFMin
<1>2. ASSUME NEW n \in S PROVE m <= n
  <2>1. m \in Nat /\ n \in Nat OBVIOUS
  <2>2. ~(n < m) BY <1>1, <2>1 DEF OpToRel
  <2> QED BY <2>1, <2>2
<1> QED BY <1>2 DEF Min

\* Messages that are eligible were said since generation was switched on.
LEMMA EligibleIsNew ==
  ASSUME NEW s \in Chat, policy \in SettingsRow, chat[s] \in Chats
  PROVE  /\ Eligible(s) \in Seq(Words)
         /\ \A i \in DOMAIN Eligible(s) : \E j \in DOMAIN chat[s].said :
              /\ Eligible(s)[i] = chat[s].said[j]
              /\ chat[s].said[j].at > policy.since /\ chat[s].said[j].at > chat[s].since
<1> DEFINE said == chat[s].said
           since == IF policy.since > chat[s].since THEN policy.since ELSE chat[s].since
           news == {j \in 1..(Len(said) + 1) : \A i \in j..Len(said) : said[i].at > chat[s].cursor /\ said[i].at > since}
           k == Min(news)
<1>1. said \in Seq(Words) /\ Len(said) \in Nat /\ DOMAIN said = 1..Len(said) BY DEF Chats
<1>2. Len(said) + 1 \in news BY <1>1
<1>3. k \in news
  <2>1. news \in SUBSET Nat /\ news # {} BY <1>1, <1>2
  <2> HIDE DEF news
  <2> QED BY <2>1, LeastOf
<1>4. Eligible(s) = SubSeq(said, k, Len(said)) BY DEF Eligible
<1>5. policy.since \in Nat /\ chat[s].since \in Nat /\ \A j \in 1..Len(said) : said[j].at \in Nat
  <2>1. policy.since \in Nat BY DEF SettingsRow
  <2>2. chat[s].since \in Nat BY DEF Chats
  <2>3. ASSUME NEW j \in 1..Len(said) PROVE said[j].at \in Nat
    <3>1. said[j] \in Words BY <1>1
    <3> QED BY <3>1 DEF Words
  <2> QED BY <2>1, <2>2, <2>3
<1>6. \A j \in k..Len(said) : said[j].at > since BY <1>3
<1>7. \A j \in k..Len(said) : said[j].at > policy.since /\ said[j].at > chat[s].since
  BY <1>1, <1>3, <1>5, <1>6
<1>8. k \in 1..(Len(said) + 1) BY <1>3
<1> HIDE DEF k, said, since, news
<1>9. /\ SubSeq(said, k, Len(said)) \in Seq(Words) /\ Len(SubSeq(said, k, Len(said))) = Len(said) - k + 1
      /\ \A i \in 1..(Len(said) - k + 1) : SubSeq(said, k, Len(said))[i] = said[k + i - 1]
  BY <1>1, <1>8
<1>10. ASSUME NEW i \in DOMAIN Eligible(s)
       PROVE  \E j \in DOMAIN said : Eligible(s)[i] = said[j] /\ said[j].at > policy.since /\ said[j].at > chat[s].since
  <2>1. i \in 1..(Len(said) - k + 1) BY <1>4, <1>9, <1>10
  <2>2. k + i - 1 \in k..Len(said) /\ k + i - 1 \in DOMAIN said BY <1>1, <1>8, <2>1
  <2> QED BY <1>4, <1>7, <1>9, <2>1, <2>2
<1> QED BY <1>4, <1>9, <1>10 DEF said

\* A batch is taken from them, with the consent of the settings and the session.
LEMMA SourceIsFree ==
  ASSUME MemoriesTypeOK, SaidOnce, ConsentIsKnown, NEW s \in Chat, NEW config, NEW done, Source(s, config, done) # <<>>
  PROVE  /\ Source(s, config, done) \in Seq(Words)
         /\ \A i \in DOMAIN Source(s, config, done) :
              Source(s, config, done)[i].at \in 1..clock /\ Source(s, config, done)[i].at \notin withheld
<1> DEFINE e == Eligible(s)
           n == IF Len(e) < MaxBatch THEN Len(e) ELSE MaxBatch
<1>1. policy \in SettingsRow /\ chat[s] \in Chats BY DEF MemoriesTypeOK
<1>2. /\ e \in Seq(Words)
      /\ \A i \in DOMAIN e : \E j \in DOMAIN chat[s].said :
           /\ e[i] = chat[s].said[j]
           /\ chat[s].said[j].at > policy.since /\ chat[s].said[j].at > chat[s].since
  BY <1>1, EligibleIsNew
<1>3. MayMake(s) /\ Source(s, config, done) = SubSeq(e, 1, n) BY DEF Source
<1>4. \A i \in DOMAIN e : e[i].at \in 1..clock /\ e[i].at \notin withheld
  BY <1>2, <1>3 DEF ConsentIsKnown, ConsentAt, SaidOnce
<1>5. Len(e) \in Nat /\ MaxBatch \in Nat BY <1>2, MemoriesShape
<1>6. n \in 0..Len(e) BY <1>5
<1> HIDE DEF e, n
<1>7. /\ SubSeq(e, 1, n) \in Seq(Words) /\ Len(SubSeq(e, 1, n)) = n
      /\ \A i \in 1..n : SubSeq(e, 1, n)[i] = e[i] /\ i \in DOMAIN e
  BY <1>2, <1>6
<1> QED BY <1>3, <1>4, <1>7

-----------------------------------------------------------------------------
(* What a step leaves alone. *)

Workers == {Off, Asleep} \cup Jobs

LEMMA JobFields ==
  ASSUME NEW job \in Workers
  PROVE  /\ job \in Jobs <=> job.at \notin {"off", "asleep"}
         /\ job = Off <=> job.at = "off"
         /\ job = Asleep <=> job.at = "asleep"
BY DEF Workers, Jobs, Off, Asleep

LEMMA StaleTyped ==
  ASSUME NEW job \in Workers
  PROVE  /\ Stale(job) \in Workers /\ Stale(job).at = job.at
         /\ job \in Jobs => /\ Stale(job).on = job.on /\ Stale(job).batch = job.batch /\ ~Stale(job).fresh
<1>1. CASE job \in Jobs BY <1>1 DEF Stale, Workers, Jobs
<1>2. CASE job \in {Off, Asleep} BY <1>2, JobFields DEF Stale, Workers, Off, Asleep
<1> QED BY <1>1, <1>2 DEF Workers

LEMMA TouchedTyped ==
  ASSUME NEW job \in Workers, NEW s \in Chat
  PROVE  /\ Touched(job, s) \in Workers /\ Touched(job, s).at = job.at
         /\ job \in Jobs => /\ Touched(job, s).on = job.on /\ Touched(job, s).batch = job.batch
                            /\ Touched(job, s).fresh = job.fresh
<1>1. CASE job \in Jobs BY <1>1 DEF Touched, Workers, Jobs
<1>2. CASE job \in {Off, Asleep} BY <1>2, JobFields DEF Touched, Workers, Off, Asleep
<1> QED BY <1>1, <1>2 DEF Workers

\* The batch under way is the same, and no less stale.
BatchStays ==
  Busy' => /\ Busy /\ worker'.on = worker.on /\ worker'.batch = worker.batch /\ (worker'.fresh => worker.fresh)

LEMMA StaleStays ==
  ASSUME MemoriesTypeOK, worker' = Stale(worker)
  PROVE  /\ worker' \in Workers /\ BatchStays /\ (Busy' => ~worker'.fresh) /\ (worker' # Off => worker # Off)
<1>1. worker \in Workers BY DEF MemoriesTypeOK, Workers
<1>2. /\ worker' \in Workers /\ worker'.at = worker.at
      /\ worker \in Jobs => worker'.on = worker.on /\ worker'.batch = worker.batch /\ ~worker'.fresh
  BY <1>1, StaleTyped
<1>3. Busy => worker \in Jobs BY <1>1, JobFields DEF Busy
<1>4. worker' # Off => worker # Off BY <1>1, <1>2, JobFields
<1> QED BY <1>2, <1>3, <1>4 DEF BatchStays, Busy

LEMMA TouchedStays ==
  ASSUME MemoriesTypeOK, NEW s \in Chat, worker' = Touched(worker, s)
  PROVE  worker' \in Workers /\ BatchStays /\ (worker' # Off => worker # Off)
<1>1. worker \in Workers BY DEF MemoriesTypeOK, Workers
<1>2. /\ worker' \in Workers /\ worker'.at = worker.at
      /\ worker \in Jobs => worker'.on = worker.on /\ worker'.batch = worker.batch /\ worker'.fresh = worker.fresh
  BY <1>1, TouchedTyped
<1>3. Busy => worker \in Jobs BY <1>1, JobFields DEF Busy
<1>4. worker' # Off => worker # Off BY <1>1, <1>2, JobFields
<1> QED BY <1>2, <1>3, <1>4 DEF BatchStays, Busy

LEMMA BatchKept ==
  ASSUME MemoriesTypeOK, BatchIsFree, BatchStays, clock' \in Nat, clock <= clock',
         Busy' /\ worker'.fresh =>
           /\ chat'[worker.on].live = chat[worker.on].live
           /\ policy'.on /\ policy'.make /\ chat'[worker.on].make =>
                MayMake(worker.on) /\ \A t \in 1..clock : t \in withheld' => t \in withheld
  PROVE  BatchIsFree'
<1> SUFFICES ASSUME Busy'
             PROVE  /\ worker'.on \in Chat /\ worker'.batch # <<>>
                    /\ \A i \in DOMAIN worker'.batch : worker'.batch[i].at \in 1..clock'
                    /\ worker'.fresh => chat'[worker'.on].live
                    /\ worker'.fresh /\ MayMake(worker.on)' => \A i \in DOMAIN worker'.batch : worker'.batch[i].at \notin withheld'
  BY DEF BatchIsFree, BatchStays, MayMake
<1>1. Busy /\ worker'.on = worker.on /\ worker'.batch = worker.batch /\ (worker'.fresh => worker.fresh) BY DEF BatchStays
<1>2. clock \in Nat BY DEF MemoriesTypeOK
<1>3. \A i \in DOMAIN worker'.batch : worker'.batch[i].at \in 1..clock /\ worker'.batch[i].at \in 1..clock'
  BY <1>1, <1>2 DEF BatchIsFree
<1>4. worker.on \in Chat /\ worker.batch # <<>> BY <1>1 DEF BatchIsFree
<1>5. worker'.fresh => chat'[worker'.on].live BY <1>1 DEF BatchIsFree
<1>6. ASSUME worker'.fresh, MayMake(worker.on)', NEW i \in DOMAIN worker'.batch
      PROVE  worker'.batch[i].at \notin withheld'
  <2>1. policy'.on /\ policy'.make /\ chat'[worker.on].make BY <1>1, <1>6 DEF MayMake
  <2>2. worker.batch[i].at \notin withheld BY <1>1, <1>6, <2>1 DEF BatchIsFree
  <2> QED BY <1>1, <1>3, <1>6, <2>1, <2>2
<1> QED BY <1>1, <1>3, <1>4, <1>5, <1>6

\* Sessions keep their words and their consent.
SameWords ==
  /\ UNCHANGED <<policy, withheld, clock>>
  /\ \A s \in Chat : /\ chat'[s].said = chat[s].said /\ chat'[s].make = chat[s].make
                     /\ chat'[s].since = chat[s].since /\ chat'[s].live = chat[s].live

LEMMA WordsKept ==
  ASSUME MemoriesInv, SameWords, BatchStays
  PROVE  SaidOnce' /\ ConsentIsKnown' /\ BatchIsFree'
<1>1. SaidOnce' BY DEF MemoriesInv, SaidOnce, SameWords
<1>2. \A s \in Chat : MayMake(s)' = MayMake(s) BY DEF MayMake, SameWords
<1>3. ConsentIsKnown' BY <1>2 DEF MemoriesInv, ConsentIsKnown, ConsentAt, SameWords
<1>4. clock' \in Nat /\ clock <= clock' BY DEF MemoriesInv, MemoriesTypeOK, SameWords
<1>5. Busy' => worker.on \in Chat BY DEF MemoriesInv, BatchIsFree, BatchStays
<1>6. BatchIsFree' BY <1>4, <1>5, BatchKept DEF MemoriesInv, SameWords, MayMake
<1> QED BY <1>1, <1>3, <1>6

LEMMA SaysKeeps ==
  ASSUME MemoriesInv, NEW s \in Chat, NEW who \in {"user", "model"}, NEW outside \in BOOLEAN, Say(s, who, outside),
         policy' = policy, BatchStays
  PROVE  /\ chat' \in [Chat -> Chats] /\ clock' \in 0..MaxWord
         /\ SaidOnce' /\ ConsentIsKnown' /\ BatchIsFree' /\ NotYet'
<1> DEFINE w == [at |-> clock + 1, who |-> who, outside |-> outside]
<1>1. /\ clock < MaxWord /\ clock' = clock + 1
      /\ chat' = [chat EXCEPT ![s].said = Append(@, w), ![s].done = FALSE]
      /\ withheld' = IF MayMake(s) THEN withheld ELSE withheld \cup {clock + 1}
  BY DEF Say
<1>w. withheld' \subseteq withheld \cup {clock + 1} BY <1>1
<1>2. clock \in Nat /\ clock <= MaxWord /\ MaxWord \in Nat BY MemoriesShape DEF MemoriesInv, MemoriesTypeOK
<1>3. w \in Words BY <1>2 DEF Words
<1>4. chat \in [Chat -> Chats] /\ chat[s] \in Chats BY DEF MemoriesInv, MemoriesTypeOK
<1>5. chat[s].said \in Seq(Words) BY <1>4 DEF Chats
<1> DEFINE said == Append(chat[s].said, w)
<1>6. /\ said \in Seq(Words) /\ DOMAIN said = 1..(Len(chat[s].said) + 1) /\ Len(chat[s].said) \in Nat
      /\ DOMAIN chat[s].said = 1..Len(chat[s].said)
      /\ said[Len(chat[s].said) + 1] = w /\ \A i \in DOMAIN chat[s].said : said[i] = chat[s].said[i]
  BY <1>3, <1>5
<1>7. chat' = [chat EXCEPT ![s] = [chat[s] EXCEPT !.said = said, !.done = FALSE]]
  BY <1>1, <1>4
<1>8. w.at = clock + 1 OBVIOUS
<1> HIDE DEF w, said
<1>9. [chat[s] EXCEPT !.said = said, !.done = FALSE] \in Chats BY <1>4, <1>6 DEF Chats
<1>10. chat' \in [Chat -> Chats] BY <1>4, <1>7, <1>9
<1>11. /\ chat'[s].said = said /\ chat'[s].make = chat[s].make /\ chat'[s].since = chat[s].since /\ chat'[s].live = chat[s].live
       /\ \A t \in Chat : t # s => chat'[t] = chat[t]
  BY <1>4, <1>7 DEF Chats
<1>12. \A t \in Chat : MayMake(t)' = MayMake(t) BY <1>11 DEF MayMake
<1>13. \A i \in DOMAIN said : (i \in DOMAIN chat[s].said /\ said[i] = chat[s].said[i]) \/ said[i].at = clock + 1
  BY <1>6, <1>8
<1>14. \A t \in Chat : \A i \in DOMAIN chat[t].said : chat[t].said[i].at \in 1..clock
  BY DEF MemoriesInv, SaidOnce
<1>15. SaidOnce'
  <2>1. ASSUME NEW t \in Chat, NEW i \in DOMAIN chat'[t].said PROVE chat'[t].said[i].at \in 1..(clock + 1)
    BY <1>2, <1>11, <1>13, <1>14, <2>1
  <2>2. ASSUME NEW t \in Chat, NEW u \in Chat, t # u, NEW i \in DOMAIN chat'[t].said, NEW j \in DOMAIN chat'[u].said
        PROVE  chat'[t].said[i].at # chat'[u].said[j].at
    <3>1. CASE t # s /\ u # s BY <1>11, <2>2, <3>1 DEF MemoriesInv, SaidOnce
    <3>2. CASE t = s
      <4>1. chat'[u].said = chat[u].said BY <1>11, <2>2, <3>2
      <4>2. CASE said[i].at = clock + 1 BY <1>2, <1>11, <1>14, <3>2, <4>1, <4>2
      <4>3. CASE i \in DOMAIN chat[s].said /\ said[i] = chat[s].said[i]
        BY <1>11, <2>2, <3>2, <4>1, <4>3 DEF MemoriesInv, SaidOnce
      <4> QED BY <1>11, <1>13, <3>2, <4>2, <4>3
    <3>3. CASE u = s
      <4>1. chat'[t].said = chat[t].said BY <1>11, <2>2, <3>3
      <4>2. CASE said[j].at = clock + 1 BY <1>2, <1>11, <1>14, <3>3, <4>1, <4>2
      <4>3. CASE j \in DOMAIN chat[s].said /\ said[j] = chat[s].said[j]
        BY <1>11, <2>2, <3>3, <4>1, <4>3 DEF MemoriesInv, SaidOnce
      <4> QED BY <1>11, <1>13, <3>3, <4>2, <4>3
    <3> QED BY <3>1, <3>2, <3>3
  <2> QED BY <1>1, <2>1, <2>2 DEF SaidOnce
<1>16. ConsentIsKnown'
  <2> SUFFICES ASSUME NEW t \in Chat, MayMake(t), NEW i \in DOMAIN chat'[t].said,
                      chat'[t].said[i].at > policy.since, chat'[t].said[i].at > chat[t].since
               PROVE  chat'[t].said[i].at \notin withheld'
    BY <1>11, <1>12 DEF ConsentIsKnown, ConsentAt
  <2>1. CASE t # s
    <3>1. chat'[t] = chat[t] BY <1>11, <2>1
    <3>2. chat[t].said[i].at \notin withheld /\ chat[t].said[i].at \in 1..clock
      BY <1>14, <3>1 DEF MemoriesInv, ConsentIsKnown, ConsentAt
    <3>3. chat[t].said[i].at # clock + 1 BY <1>2, <3>2
    <3> QED BY <1>w, <3>1, <3>2, <3>3
  <2>2. CASE t = s
    <3>1. withheld' = withheld BY <1>1, <2>2
    <3>2. CASE i \in DOMAIN chat[s].said /\ said[i] = chat[s].said[i]
      BY <1>11, <2>2, <3>1, <3>2 DEF MemoriesInv, ConsentIsKnown, ConsentAt
    <3>3. CASE said[i].at = clock + 1
      <4>1. clock + 1 \notin withheld BY <1>2 DEF MemoriesInv, NotYet
      <4> QED BY <1>11, <2>2, <3>1, <3>3, <4>1
    <3> QED BY <1>11, <1>13, <2>2, <3>2, <3>3
  <2> QED BY <2>1, <2>2
<1>17. BatchIsFree'
  <2>1. clock' \in Nat /\ clock <= clock' /\ \A t \in 1..clock : t \in withheld' => t \in withheld BY <1>1, <1>2
  <2>2. Busy' => worker.on \in Chat BY DEF MemoriesInv, BatchIsFree, BatchStays
  <2>3. Busy' => /\ chat'[worker.on].live = chat[worker.on].live
                 /\ policy'.on /\ policy'.make /\ chat'[worker.on].make => MayMake(worker.on)
    BY <1>11, <2>2 DEF MayMake
  <2>4. MemoriesTypeOK /\ BatchIsFree BY DEF MemoriesInv
  <2> QED BY <2>1, <2>3, <2>4, BatchKept
<1>18. NotYet' BY <1>1, <1>2 DEF MemoriesInv, NotYet
<1> QED BY <1>1, <1>2, <1>10, <1>15, <1>16, <1>17, <1>18

-----------------------------------------------------------------------------
(* Runs and the worker. *)

LEMMA FitsKept ==
  ASSUME MemoriesInv, request' = request, policy' = policy, worker' # Off => worker # Off
  PROVE  SaveFits'
BY DEF MemoriesInv, SaveFits, Making

LEMMA BuriedKept == ASSUME MemoriesInv, UNCHANGED <<rows, forgotten>> PROVE Buried'
BY DEF MemoriesInv, Buried

LEMMA NotYetKept == ASSUME MemoriesInv, UNCHANGED <<withheld, clock>> PROVE NotYet'
BY DEF MemoriesInv, NotYet

LEMMA StartRunKeeps == ASSUME MemoriesInv, NEW s \in Chat, StartRun(s) PROVE MemoriesInv'
<1>1. /\ active' = s /\ Say(s, "user", FALSE) /\ worker' = Touched(worker, s)
      /\ UNCHANGED <<policy, rows, leaving, request, attempts, forgotten, acts>>
  BY DEF StartRun
<1>2. worker' \in Workers /\ BatchStays /\ (worker' # Off => worker # Off) BY <1>1, TouchedStays DEF MemoriesInv
<1>3. /\ chat' \in [Chat -> Chats] /\ clock' \in 0..MaxWord
      /\ SaidOnce' /\ ConsentIsKnown' /\ BatchIsFree' /\ NotYet'
  BY <1>1, <1>2, SaysKeeps
<1>4. MemoriesTypeOK' BY <1>1, <1>2, <1>3 DEF MemoriesInv, MemoriesTypeOK, Workers
<1>5. SaveFits' /\ Buried' BY <1>1, <1>2, FitsKept, BuriedKept
<1> QED BY <1>3, <1>4, <1>5 DEF MemoriesInv

LEMMA AnswerKeeps == ASSUME MemoriesInv, Answer PROVE MemoriesInv'
<1>1. PICK outside \in BOOLEAN : active # NoChat /\ Say(active, "model", outside) BY DEF Answer
<1>2. UNCHANGED <<policy, rows, worker, request, attempts, active, forgotten>> BY DEF Answer
<1>3. active \in Chat /\ BatchStays BY <1>1, <1>2 DEF MemoriesInv, MemoriesTypeOK, BatchStays, Busy
<1>4. /\ chat' \in [Chat -> Chats] /\ clock' \in 0..MaxWord
      /\ SaidOnce' /\ ConsentIsKnown' /\ BatchIsFree' /\ NotYet'
  BY <1>1, <1>2, <1>3, SaysKeeps
<1>5. MemoriesTypeOK' BY <1>2, <1>4 DEF MemoriesInv, MemoriesTypeOK
<1>6. SaveFits' /\ Buried' BY <1>2, FitsKept, BuriedKept
<1> QED BY <1>4, <1>5, <1>6 DEF MemoriesInv

LEMMA EndRunKeeps == ASSUME MemoriesInv, EndRun PROVE MemoriesInv'
<1>1. PICK done \in BOOLEAN : chat' = [chat EXCEPT ![active].done = done] BY DEF EndRun
<1>2. /\ active # NoChat /\ active' = NoChat
      /\ UNCHANGED <<policy, rows, worker, request, attempts, withheld, forgotten, clock>>
  BY DEF EndRun
<1>3. active \in Chat /\ chat \in [Chat -> Chats] BY <1>2 DEF MemoriesInv, MemoriesTypeOK
<1>4. chat' \in [Chat -> Chats] /\ SameWords /\ BatchStays BY <1>1, <1>2, <1>3 DEF SameWords, Chats, BatchStays, Busy
<1>5. MemoriesTypeOK' BY <1>2, <1>4 DEF MemoriesInv, MemoriesTypeOK
<1>6. SaidOnce' /\ ConsentIsKnown' /\ BatchIsFree' BY <1>4, WordsKept
<1> QED BY <1>2, <1>5, <1>6, FitsKept, BuriedKept, NotYetKept DEF MemoriesInv

LEMMA TickKeeps == ASSUME MemoriesInv, Tick PROVE MemoriesInv'
<1>1. /\ worker = Asleep
      /\ worker' = [at |-> "scan", config |-> policy, fresh |-> TRUE,
                    todo |-> {s \in Chat : chat[s].live}, same |-> {s \in Chat : chat[s].live},
                    done |-> {s \in Chat : chat[s].done}, on |-> NoChat, batch |-> <<>>, version |-> 0]
      /\ UNCHANGED <<policy, chat, rows, request, attempts, active, withheld, forgotten, clock>>
  BY DEF Tick
<1>2. policy \in SettingsRow /\ <<>> \in Seq(Words) BY DEF MemoriesInv, MemoriesTypeOK
<1>3. worker' \in Jobs /\ worker'.at = "scan" BY <1>1, <1>2 DEF Jobs
<1>4. SameWords /\ BatchStays /\ worker # Off BY <1>1, <1>3 DEF SameWords, BatchStays, Busy, Off, Asleep
<1>5. MemoriesTypeOK' BY <1>1, <1>3 DEF MemoriesInv, MemoriesTypeOK
<1>6. SaidOnce' /\ ConsentIsKnown' /\ BatchIsFree' BY <1>4, WordsKept
<1> QED BY <1>1, <1>4, <1>5, <1>6, FitsKept, BuriedKept, NotYetKept DEF MemoriesInv

LEMMA LookKeeps == ASSUME MemoriesInv, NEW s \in Chat, Look(s) PROVE MemoriesInv'
<1>1. PICK due \in BOOLEAN :
        LET batch == Source(s, worker.config, s \in worker.done /\ due) IN
        worker' = IF chat[s].live /\ batch # <<>>
                  THEN [worker EXCEPT !.at = "profiles", !.on = s, !.batch = batch, !.fresh = TRUE,
                                      !.version = chat[s].version, !.todo = {}, !.done = {}, !.same = @ \cap {s}]
                  ELSE [worker EXCEPT !.todo = @ \ {s}]
  BY DEF Look
<1>2. /\ worker.at = "scan"
      /\ UNCHANGED <<policy, chat, rows, request, attempts, active, withheld, forgotten, clock>>
  BY DEF Look
<1>3. worker \in Jobs /\ worker # Off BY <1>2 DEF MemoriesInv, MemoriesTypeOK, Off, Asleep
<1> DEFINE batch == Source(s, worker.config, s \in worker.done /\ due)
<1>4. batch # <<>> => /\ batch \in Seq(Words)
                      /\ \A i \in DOMAIN batch : batch[i].at \in 1..clock /\ batch[i].at \notin withheld
  BY SourceIsFree DEF MemoriesInv
<1>5. chat[s].version \in Nat BY DEF MemoriesInv, MemoriesTypeOK, Chats
<1> HIDE DEF batch
<1>6. SaidOnce' /\ ConsentIsKnown' BY <1>2 DEF MemoriesInv, SaidOnce, ConsentIsKnown, ConsentAt, MayMake
<1>7. CASE chat[s].live /\ batch # <<>>
  <2>1. worker' = [worker EXCEPT !.at = "profiles", !.on = s, !.batch = batch, !.fresh = TRUE,
                                 !.version = chat[s].version, !.todo = {}, !.done = {}, !.same = @ \cap {s}]
    BY <1>1, <1>7 DEF batch
  <2>2. worker' \in Jobs /\ worker'.on = s /\ worker'.batch = batch BY <1>3, <1>4, <1>5, <1>7, <2>1 DEF Jobs
  <2>3. BatchIsFree' BY <1>2, <1>4, <1>7, <2>2 DEF BatchIsFree
  <2>4. MemoriesTypeOK' BY <1>2, <2>2 DEF MemoriesInv, MemoriesTypeOK
  <2> QED BY <1>2, <1>3, <1>6, <2>3, <2>4, FitsKept, BuriedKept, NotYetKept DEF MemoriesInv
<1>8. CASE ~(chat[s].live /\ batch # <<>>)
  <2>1. worker' = [worker EXCEPT !.todo = @ \ {s}] BY <1>1, <1>8 DEF batch
  <2>2. worker' \in Jobs /\ worker'.at = "scan" BY <1>2, <1>3, <2>1 DEF Jobs
  <2>3. BatchIsFree' BY <2>2 DEF BatchIsFree, Busy
  <2>4. MemoriesTypeOK' BY <1>2, <2>2 DEF MemoriesInv, MemoriesTypeOK
  <2> QED BY <1>2, <1>3, <1>6, <2>3, <2>4, FitsKept, BuriedKept, NotYetKept DEF MemoriesInv
<1> QED BY <1>7, <1>8

\* A worker that goes to sleep was busy, and forgets its batch.
LEMMA SleepsKeeps ==
  ASSUME MemoriesInv, worker \in Jobs, worker' = Asleep, UNCHANGED <<request, withheld, forgotten, clock, policy, active>>,
         chat' \in [Chat -> Chats], SameWords, attempts' \in [calls : Nat, running : Int]
  PROVE  /\ MemoriesTypeOK' <=> rows' \in [Slot -> MemoryRow \cup {NoRow}]
         /\ SaidOnce' /\ ConsentIsKnown' /\ BatchIsFree' /\ SaveFits' /\ NotYet'
<1>1. BatchStays /\ worker # Off BY DEF BatchStays, Busy, Asleep, Off, Jobs
<1>2. MemoriesTypeOK' <=> rows' \in [Slot -> MemoryRow \cup {NoRow}] BY DEF MemoriesInv, MemoriesTypeOK
<1>3. SaidOnce' /\ ConsentIsKnown' /\ BatchIsFree' BY <1>1, WordsKept
<1> QED BY <1>1, <1>2, <1>3, FitsKept, NotYetKept

LEMMA AtIsJob == ASSUME MemoriesInv, worker.at \in {"scan", "profiles", "call"} PROVE worker \in Jobs
BY DEF MemoriesInv, MemoriesTypeOK, Off, Asleep

LEMMA FinishTyped == ASSUME MemoriesInv, Finish PROVE attempts' \in [calls : Nat, running : Int] /\ attempts'.calls = attempts.calls
BY DEF Finish, MemoriesInv, MemoriesTypeOK

LEMMA DropKeeps == ASSUME MemoriesInv, EndScan \/ NoCall \/ GiveUp \/ Fail PROVE MemoriesInv'
<1>1. /\ worker.at \in {"scan", "profiles", "call"} /\ worker' = Asleep
      /\ UNCHANGED <<policy, chat, rows, request, active, withheld, forgotten, clock>>
      /\ UNCHANGED attempts \/ Finish
  BY DEF EndScan, NoCall, GiveUp, Fail, Sleep
<1>2. worker \in Jobs /\ SameWords BY <1>1, AtIsJob DEF SameWords
<1>3. attempts' \in [calls : Nat, running : Int] BY <1>1, FinishTyped DEF MemoriesInv, MemoriesTypeOK
<1>4. chat' \in [Chat -> Chats] /\ rows' \in [Slot -> MemoryRow \cup {NoRow}] BY <1>1 DEF MemoriesInv, MemoriesTypeOK
<1>5. MemoriesTypeOK' /\ SaidOnce' /\ ConsentIsKnown' /\ BatchIsFree' /\ SaveFits' /\ NotYet'
  BY <1>1, <1>2, <1>3, <1>4, SleepsKeeps
<1> QED BY <1>1, <1>5, BuriedKept DEF MemoriesInv

LEMMA CallKeeps == ASSUME MemoriesInv, Call PROVE MemoriesInv'
<1>1. /\ worker.at = "profiles" /\ worker' = [worker EXCEPT !.at = "call"]
      /\ attempts' = [calls |-> attempts.calls + 1, running |-> attempts.running + 1]
      /\ UNCHANGED <<policy, chat, rows, request, active, withheld, forgotten, clock>>
  BY DEF Call
<1>2. worker \in Jobs BY <1>1, AtIsJob
<1>3. worker' \in Jobs /\ BatchStays /\ SameWords /\ worker # Off
  BY <1>1, <1>2 DEF Jobs, BatchStays, Busy, SameWords, Off
<1>a. attempts' \in [calls : Nat, running : Int]
  <2>1. attempts.calls \in Nat /\ attempts.running \in Int BY DEF MemoriesInv, MemoriesTypeOK
  <2> QED BY <1>1, <2>1
<1>4. MemoriesTypeOK' BY <1>1, <1>3, <1>a DEF MemoriesInv, MemoriesTypeOK
<1>5. SaidOnce' /\ ConsentIsKnown' /\ BatchIsFree' BY <1>3, WordsKept
<1> QED BY <1>1, <1>3, <1>4, <1>5, FitsKept, BuriedKept, NotYetKept DEF MemoriesInv

LEMMA UnwindKeeps == ASSUME MemoriesInv, Unwind PROVE MemoriesInv'
<1>1. /\ UNCHANGED <<policy, chat, rows, worker, request, active, withheld, forgotten, clock>>
      /\ UNCHANGED attempts \/ Finish
  BY DEF Unwind
<1>2. attempts' \in [calls : Nat, running : Int] BY <1>1, FinishTyped DEF MemoriesInv, MemoriesTypeOK
<1>3. SameWords /\ BatchStays BY <1>1 DEF SameWords, BatchStays, Busy
<1>4. MemoriesTypeOK' BY <1>1, <1>2 DEF MemoriesInv, MemoriesTypeOK
<1>5. SaidOnce' /\ ConsentIsKnown' /\ BatchIsFree' BY <1>3, WordsKept
<1> QED BY <1>1, <1>4, <1>5, FitsKept, BuriedKept, NotYetKept DEF MemoriesInv

\* What a save has drawn, and from where.
LEMMA SaveDraws ==
  ASSUME MemoriesInv, Save
  PROVE  \/ rows' = rows
         \/ \E m \in [slot : Drawn, fact : Fact, at : 0..MaxWord] :
              /\ ~Blocked(rows, m) /\ m.at \notin withheld
              /\ rows' = [rows EXCEPT ![m.slot] =
                            [fact |-> m.fact, deleted |-> FALSE, origin |-> "model", from |-> worker.on, at |-> m.at]]
<1>1. PICK m \in Output(worker.batch), none \in BOOLEAN : rows' = IF none THEN rows ELSE Merge(rows, m, worker.on)
  BY DEF Save
<1>2. Busy /\ worker.fresh /\ MayMake(worker.on) BY DEF Save, Unchanged, Busy
<1>3. /\ clock \in Nat /\ clock <= MaxWord /\ MaxWord \in Nat
      /\ \A i \in DOMAIN worker.batch : worker.batch[i].at \in 1..clock /\ worker.batch[i].at \notin withheld
  BY <1>2, MemoriesShape DEF MemoriesInv, MemoriesTypeOK, BatchIsFree
<1>4. m.at \in {w.at : w \in ToSet(worker.batch)} /\ m.slot \in Drawn /\ m.fact \in Fact /\ m = [slot |-> m.slot, fact |-> m.fact, at |-> m.at]
  BY DEF Output
<1>5. PICK i \in DOMAIN worker.batch : m.at = worker.batch[i].at BY <1>4 DEF ToSet
<1>6. m.at \in 0..MaxWord /\ m.at \notin withheld BY <1>3, <1>5
<1>7. m \in [slot : Drawn, fact : Fact, at : 0..MaxWord] BY <1>4, <1>6
<1> QED BY <1>1, <1>6, <1>7 DEF Merge

LEMMA SaveKeeps == ASSUME MemoriesInv, Save PROVE MemoriesInv'
<1>1. /\ worker.at = "call" /\ worker' = Asleep /\ Finish
      /\ chat' = [chat EXCEPT ![worker.on].cursor = Last(worker.batch).at]
      /\ UNCHANGED <<policy, request, active, withheld, forgotten, clock>>
  BY DEF Save, Sleep
<1>2. worker \in Jobs /\ worker.on \in Chat /\ worker.batch # <<>> BY <1>1, AtIsJob DEF MemoriesInv, BatchIsFree, Busy
<1>3. Last(worker.batch).at \in Nat
  <2>1. worker.batch \in Seq(Words) BY <1>2 DEF Jobs
  <2>2. Last(worker.batch) \in Words BY <1>2, <2>1 DEF Last
  <2> QED BY <2>2 DEF Words
<1>4. chat \in [Chat -> Chats] BY DEF MemoriesInv, MemoriesTypeOK
<1>5. chat' \in [Chat -> Chats] /\ SameWords
  <2> DEFINE n == Last(worker.batch).at
  <2> DEFINE new == [chat[worker.on] EXCEPT !.cursor = n]
  <2>1. n \in Nat /\ chat' = [chat EXCEPT ![worker.on] = new] BY <1>1, <1>3
  <2> HIDE DEF n
  <2>2. /\ new \in Chats /\ new.said = chat[worker.on].said /\ new.make = chat[worker.on].make
        /\ new.since = chat[worker.on].since /\ new.live = chat[worker.on].live
    BY <1>2, <1>4, <2>1 DEF Chats
  <2> HIDE DEF new
  <2> QED BY <1>1, <1>2, <1>4, <2>1, <2>2 DEF SameWords
<1>6. attempts' \in [calls : Nat, running : Int] BY <1>1, FinishTyped
<1>7. /\ MemoriesTypeOK' <=> rows' \in [Slot -> MemoryRow \cup {NoRow}]
      /\ SaidOnce' /\ ConsentIsKnown' /\ BatchIsFree' /\ SaveFits' /\ NotYet'
  BY <1>1, <1>2, <1>5, <1>6, SleepsKeeps
<1>8. rows \in [Slot -> MemoryRow \cup {NoRow}] BY DEF MemoriesInv, MemoriesTypeOK
<1>9. CASE rows' = rows BY <1>1, <1>7, <1>8, <1>9, BuriedKept DEF MemoriesInv
<1>10. ASSUME NEW m \in [slot : Drawn, fact : Fact, at : 0..MaxWord], ~Blocked(rows, m),
              rows' = [rows EXCEPT ![m.slot] =
                         [fact |-> m.fact, deleted |-> FALSE, origin |-> "model", from |-> worker.on, at |-> m.at]]
       PROVE  MemoriesInv'
  <2> DEFINE new == [fact |-> m.fact, deleted |-> FALSE, origin |-> "model", from |-> worker.on, at |-> m.at]
  <2>1. new \in MemoryRow BY <1>2 DEF MemoryRow
  <2> HIDE DEF new
  <2>2. rows' = [rows EXCEPT ![m.slot] = new] BY <1>10 DEF new
  <2>3. rows' \in [Slot -> MemoryRow \cup {NoRow}] BY <1>8, <2>1, <2>2
  <2>4. Buried'
    <3> SUFFICES ASSUME NEW f \in forgotten
                 PROVE  f.slot \in Slot /\ rows'[f.slot] \in MemoryRow /\ rows'[f.slot].deleted /\ rows'[f.slot].fact = f.fact
      BY <1>1 DEF Buried
    <3>1. f.slot \in Slot /\ rows[f.slot] \in MemoryRow /\ rows[f.slot].deleted /\ rows[f.slot].fact = f.fact
      BY DEF MemoriesInv, Buried
    <3>2. f.slot # m.slot BY <1>10, <3>1, MemoriesShape DEF Blocked
    <3> QED BY <1>8, <2>2, <3>1, <3>2
  <2> QED BY <1>7, <2>3, <2>4 DEF MemoriesInv
<1> QED BY <1>9, <1>10, SaveDraws

-----------------------------------------------------------------------------
(* The user's requests. *)

LEMMA NewSettings ==
  ASSUME NEW row \in SettingsRow, NEW t \in Nat
  PROVE  LET new == [row EXCEPT !.version = @ + 1, !.since = t]
         IN  new \in SettingsRow /\ new.since = t /\ new.on = row.on /\ new.make = row.make
<1> DEFINE v == row.version + 1
<1>1. v \in Int BY DEF SettingsRow
<1> HIDE DEF v
<1>2. LET new == [row EXCEPT !.version = v, !.since = t]
      IN  new \in SettingsRow /\ new.since = t /\ new.on = row.on /\ new.make = row.make
  BY <1>1 DEF SettingsRow
<1> QED BY <1>2 DEF v

\* What a request may ask for.
LEMMA OtherSettings ==
  ASSUME NEW row \in SettingsRow, NEW v \in Int, NEW on \in BOOLEAN, NEW make \in BOOLEAN
  PROVE  [row EXCEPT !.on = on, !.make = make] \in SettingsRow /\ [row EXCEPT !.version = v] \in SettingsRow
BY DEF SettingsRow

LEMMA StoreKeeps ==
  ASSUME MemoriesInv, NEW new \in SettingsRow, Store(new), worker = Off \/ Making(policy),
         UNCHANGED <<chat, clock>>
  PROVE  /\ policy' \in SettingsRow /\ worker' \in Workers
         /\ SaidOnce' /\ ConsentIsKnown' /\ BatchIsFree' /\ NotYet'
         /\ worker = Off => (worker' # Off => Making(policy'))
<1>1. /\ policy' = IF new.version # policy.version THEN policy
                   ELSE [new EXCEPT !.version = @ + 1,
                                    !.since = IF Making(new) /\ ~Making(policy) THEN clock ELSE policy.since]
      /\ withheld' = IF Making(policy') THEN withheld ELSE withheld \cup UNION {Stamps(s) : s \in Chat}
      /\ worker' = IF Making(policy') /\ worker = Off THEN Asleep ELSE worker
  BY DEF Store
<1>2. policy \in SettingsRow /\ clock \in Nat /\ worker \in Workers BY DEF MemoriesInv, MemoriesTypeOK, Workers
<1>3. policy' \in SettingsRow /\ (~Making(policy) /\ Making(policy') => policy'.since = clock)
      /\ (Making(policy) => policy'.since = policy.since)
  <2>1. CASE new.version # policy.version BY <1>1, <1>2, <2>1
  <2>2. CASE new.version = policy.version
    <3> DEFINE t == IF Making(new) /\ ~Making(policy) THEN clock ELSE policy.since
    <3>1. t \in Nat BY <1>2 DEF SettingsRow
    <3>2. policy' = [new EXCEPT !.version = @ + 1, !.since = t] BY <1>1, <2>2
    <3> HIDE DEF t
    <3>3. /\ policy' \in SettingsRow /\ policy'.since = t
          /\ policy'.on = new.on /\ policy'.make = new.make
      BY <3>1, <3>2, NewSettings
    <3>4. Making(policy') <=> Making(new) BY <3>3 DEF Making
    <3> QED BY <3>3, <3>4 DEF t
  <2> QED BY <2>1, <2>2
<1>4. worker' \in Workers /\ (worker = Off => (worker' # Off => Making(policy'))) BY <1>1, <1>2 DEF Workers
<1>5. \A s \in Chat : \A i \in DOMAIN chat[s].said : chat[s].said[i].at \in 1..clock BY DEF MemoriesInv, SaidOnce
<1>6. SaidOnce' BY DEF MemoriesInv, SaidOnce
<1>7. \A s \in Chat : MayMake(s)' = (Making(policy') /\ chat[s].make) /\ MayMake(s) = (Making(policy) /\ chat[s].make)
  BY DEF MayMake, Making
<1>8. ConsentIsKnown'
  <2> SUFFICES ASSUME NEW s \in Chat, MayMake(s)', NEW i \in DOMAIN chat[s].said,
                      chat[s].said[i].at > policy'.since, chat[s].said[i].at > chat[s].since
               PROVE  chat[s].said[i].at \notin withheld'
    BY DEF ConsentIsKnown, ConsentAt
  <2>1. Making(policy') /\ withheld' = withheld BY <1>1, <1>7
  <2>2. Making(policy) BY <1>2, <1>3, <1>5, <2>1
  <2>3. MayMake(s) /\ policy'.since = policy.since BY <1>3, <1>7, <2>2
  <2> QED BY <2>1, <2>3 DEF MemoriesInv, ConsentIsKnown, ConsentAt
<1>9. BatchIsFree'
  <2>1. BatchStays BY <1>1 DEF BatchStays, Busy, Asleep
  <2>2. Busy' => worker # Off /\ worker.on \in Chat BY <1>1, <2>1 DEF BatchStays, Busy, Asleep, Off, MemoriesInv, BatchIsFree
  <2>3. Busy' /\ policy'.on /\ policy'.make /\ chat'[worker.on].make => MayMake(worker.on) /\ withheld' = withheld
    BY <1>1, <2>2 DEF MayMake, Making
  <2>4. MemoriesTypeOK /\ BatchIsFree BY DEF MemoriesInv
  <2> QED BY <1>2, <2>1, <2>3, <2>4, BatchKept
<1>10. NotYet'
  <2>1. ASSUME NEW t \in withheld' PROVE t \in 0..clock
    <3>1. CASE t \in withheld BY <3>1 DEF MemoriesInv, NotYet
    <3>2. CASE t \notin withheld
      <4>1. PICK s \in Chat : t \in Stamps(s) BY <1>1, <2>1, <3>2
      <4>2. PICK i \in DOMAIN chat[s].said : t = chat[s].said[i].at BY <4>1 DEF Stamps, ToSet
      <4> QED BY <1>2, <1>5, <4>2
    <3> QED BY <3>1, <3>2
  <2> QED BY <2>1 DEF NotYet
<1> QED BY <1>3, <1>4, <1>6, <1>8, <1>9, <1>10

LEMMA SaveSettingsKeeps == ASSUME MemoriesInv, SaveSettings PROVE MemoriesInv'
<1>1. UNCHANGED <<chat, rows, attempts, active, forgotten, clock>> BY DEF SaveSettings
<1>2. PICK new \in Wanted \cup {[policy EXCEPT !.version = @ - 1]} :
        IF worker = Off
        THEN Store(new) /\ UNCHANGED <<leaving, request>>
        ELSE /\ ~request.on /\ request' = [on |-> TRUE, new |-> new] /\ Stopped(worker)
             /\ UNCHANGED <<policy, withheld>>
  BY DEF SaveSettings
<1>3. new \in SettingsRow
  <2>1. policy \in SettingsRow BY DEF MemoriesInv, MemoriesTypeOK
  <2>2. CASE new \in Wanted
    <3>1. PICK on \in BOOLEAN, make \in BOOLEAN : new = With(on, make) BY <2>2 DEF Wanted
    <3>2. new = [policy EXCEPT !.on = on, !.make = make] BY <3>1 DEF With
    <3>3. 0 \in Int OBVIOUS
    <3>4. [policy EXCEPT !.on = on, !.make = make] \in SettingsRow BY <2>1, <3>3, OtherSettings
    <3> QED BY <3>2, <3>4
  <2>3. CASE new = [policy EXCEPT !.version = @ - 1]
    <3> DEFINE v == policy.version - 1
    <3>1. v \in Int BY <2>1 DEF SettingsRow
    <3>2. new = [policy EXCEPT !.version = v] BY <2>3
    <3> HIDE DEF v
    <3> QED BY <2>1, <3>1, <3>2, OtherSettings
  <2> QED BY <1>2, <2>2, <2>3
<1>4. CASE worker = Off
  <2>1. Store(new) /\ request' = request BY <1>2, <1>4
  <2>2. /\ policy' \in SettingsRow /\ worker' \in Workers
        /\ SaidOnce' /\ ConsentIsKnown' /\ BatchIsFree' /\ NotYet'
        /\ worker' # Off => Making(policy')
    BY <1>1, <1>3, <1>4, <2>1, StoreKeeps
  <2>3. MemoriesTypeOK' BY <1>1, <2>1, <2>2 DEF MemoriesInv, MemoriesTypeOK, Workers
  <2>4. SaveFits' BY <2>2 DEF SaveFits, Making
  <2> QED BY <1>1, <2>2, <2>3, <2>4, BuriedKept DEF MemoriesInv
<1>5. CASE worker # Off
  <2>1. request' = [on |-> TRUE, new |-> new] /\ worker' = Off /\ UNCHANGED <<policy, withheld>>
    BY <1>2, <1>5 DEF Stopped
  <2>2. SameWords /\ BatchStays BY <1>1, <2>1 DEF SameWords, BatchStays, Busy, Off
  <2>3. MemoriesTypeOK' BY <1>1, <1>3, <2>1 DEF MemoriesInv, MemoriesTypeOK
  <2>4. SaidOnce' /\ ConsentIsKnown' /\ BatchIsFree' BY <2>2, WordsKept
  <2>5. SaveFits' BY <2>1 DEF SaveFits
  <2> QED BY <1>1, <2>1, <2>3, <2>4, <2>5, BuriedKept, NotYetKept DEF MemoriesInv
<1> QED BY <1>4, <1>5

LEMMA SaveAfterStopKeeps == ASSUME MemoriesInv, SaveAfterStop PROVE MemoriesInv'
<1>1. /\ request.on /\ request' = NoRequest /\ Store(request.new)
      /\ UNCHANGED <<chat, rows, attempts, active, forgotten, clock>>
  BY DEF SaveAfterStop
<1>2. request.new \in SettingsRow
  <2>1. request # NoRequest BY <1>1 DEF NoRequest
  <2>2. request \in [on : {TRUE}, new : SettingsRow] BY <2>1 DEF MemoriesInv, MemoriesTypeOK
  <2> QED BY <2>2
<1>3. worker = Off \/ Making(policy) BY <1>1 DEF MemoriesInv, SaveFits
<1>4. /\ policy' \in SettingsRow /\ worker' \in Workers
      /\ SaidOnce' /\ ConsentIsKnown' /\ BatchIsFree' /\ NotYet'
  BY <1>1, <1>2, <1>3, StoreKeeps
<1>5. MemoriesTypeOK' BY <1>1, <1>4 DEF MemoriesInv, MemoriesTypeOK, Workers
<1>6. SaveFits' BY <1>1 DEF SaveFits, NoRequest
<1> QED BY <1>1, <1>4, <1>5, <1>6, BuriedKept DEF MemoriesInv

LEMMA SaveSessionKeeps == ASSUME MemoriesInv, NEW s \in Chat, SaveSession(s) PROVE MemoriesInv'
<1>1. worker' = Stale(worker) /\ UNCHANGED <<policy, request, attempts, active, clock, rows, forgotten>>
  BY DEF SaveSession, Revise
<1>2. worker' \in Workers /\ BatchStays /\ (Busy' => ~worker'.fresh) /\ (worker' # Off => worker # Off)
  BY <1>1, StaleStays DEF MemoriesInv
<1>3. chat \in [Chat -> Chats] /\ chat[s] \in Chats /\ clock \in Nat BY DEF MemoriesInv, MemoriesTypeOK
<1>4. CASE UNCHANGED <<chat, withheld>>
  <2>1. SameWords BY <1>1, <1>4 DEF SameWords
  <2>2. SaidOnce' /\ ConsentIsKnown' /\ BatchIsFree' BY <1>2, <2>1, WordsKept
  <2>3. MemoriesTypeOK' BY <1>1, <1>2, <1>4 DEF MemoriesInv, MemoriesTypeOK, Workers
  <2> QED BY <1>1, <1>2, <1>4, <2>2, <2>3, FitsKept, BuriedKept, NotYetKept DEF MemoriesInv
<1>5. ASSUME NEW use \in BOOLEAN, NEW make \in BOOLEAN,
             chat' = [chat EXCEPT ![s].use = use, ![s].make = make, ![s].version = @ + 1,
                                  ![s].since = IF make /\ ~chat[s].make THEN clock ELSE @],
             withheld' = IF make THEN withheld ELSE withheld \cup Stamps(s)
      PROVE  MemoriesInv'
  <2> DEFINE new == [chat[s] EXCEPT !.use = use, !.make = make, !.version = @ + 1,
                                    !.since = IF make /\ ~chat[s].make THEN clock ELSE @]
  <2>1. /\ new \in Chats /\ new.said = chat[s].said /\ new.live = chat[s].live /\ new.make = make
        /\ new.since = IF make /\ ~chat[s].make THEN clock ELSE chat[s].since
    <3> DEFINE t == IF make /\ ~chat[s].make THEN clock ELSE chat[s].since
    <3> DEFINE v == chat[s].version + 1
    <3>1. t \in Nat /\ v \in Nat BY <1>3 DEF Chats
    <3>2. new = [chat[s] EXCEPT !.use = use, !.make = make, !.version = v, !.since = t] OBVIOUS
    <3> HIDE DEF new, t, v
    <3> DEFINE row == chat[s]
    <3>3. row \in Chats BY <1>3
    <3> HIDE DEF row
    <3>4. LET other == [row EXCEPT !.use = use, !.make = make, !.version = v, !.since = t]
          IN  /\ other \in Chats /\ other.said = row.said /\ other.live = row.live /\ other.make = make
              /\ other.since = t
      BY <1>5, <3>1, <3>3 DEF Chats
    <3> QED BY <3>2, <3>4 DEF t, row
  <2>2. chat' = [chat EXCEPT ![s] = new] BY <1>3, <1>5
  <2> HIDE DEF new
  <2>3. /\ chat' \in [Chat -> Chats] /\ chat'[s] = new /\ \A t \in Chat : t # s => chat'[t] = chat[t]
        /\ \A t \in Chat : chat'[t].said = chat[t].said
    BY <1>3, <2>1, <2>2
  <2>4. \A t \in Chat : \A i \in DOMAIN chat[t].said : chat[t].said[i].at \in 1..clock BY DEF MemoriesInv, SaidOnce
  <2>5. SaidOnce' BY <1>1, <2>3 DEF MemoriesInv, SaidOnce
  <2>6. \A t \in withheld' : t \in withheld \/ (~make /\ \E i \in DOMAIN chat[s].said : t = chat[s].said[i].at)
    BY <1>5 DEF Stamps, ToSet
  <2>7. ConsentIsKnown'
    <3> SUFFICES ASSUME NEW t \in Chat, MayMake(t)', NEW i \in DOMAIN chat[t].said,
                        chat[t].said[i].at > policy.since, chat[t].said[i].at > chat'[t].since
                 PROVE  chat[t].said[i].at \notin withheld'
      BY <1>1, <2>3 DEF ConsentIsKnown, ConsentAt
    <3>1. CASE t # s
      <4>1. MayMake(t) /\ chat'[t].since = chat[t].since BY <1>1, <2>3, <3>1 DEF MayMake
      <4>2. chat[t].said[i].at \notin withheld BY <4>1 DEF MemoriesInv, ConsentIsKnown, ConsentAt
      <4>3. \A j \in DOMAIN chat[s].said : chat[t].said[i].at # chat[s].said[j].at BY <3>1 DEF MemoriesInv, SaidOnce
      <4> QED BY <2>6, <4>2, <4>3
    <3>2. CASE t = s
      <4>1. make /\ policy.on /\ policy.make BY <1>1, <2>1, <2>3, <3>2 DEF MayMake
      <4>2. chat[s].make BY <1>3, <2>1, <2>3, <2>4, <3>2, <4>1
      <4>3. MayMake(s) /\ chat'[s].since = chat[s].since BY <2>1, <2>3, <4>1, <4>2 DEF MayMake
      <4>4. chat[t].said[i].at \notin withheld BY <3>2, <4>3 DEF MemoriesInv, ConsentIsKnown, ConsentAt
      <4> QED BY <2>6, <4>1, <4>4
    <3> QED BY <3>1, <3>2
  <2>8. BatchIsFree'
    <3>1. MemoriesTypeOK /\ BatchIsFree /\ clock' \in Nat /\ clock <= clock' BY <1>1, <1>3 DEF MemoriesInv
    <3> QED BY <1>2, <3>1, BatchKept
  <2>9. NotYet'
    <3>1. ASSUME NEW t \in withheld' PROVE t \in 0..clock
      <4>1. CASE t \in withheld BY <4>1 DEF MemoriesInv, NotYet
      <4>2. CASE \E i \in DOMAIN chat[s].said : t = chat[s].said[i].at BY <1>3, <2>4, <4>2
      <4> QED BY <2>6, <4>1, <4>2
    <3> QED BY <1>1, <3>1 DEF NotYet
  <2>10. MemoriesTypeOK' BY <1>1, <1>2, <2>3 DEF MemoriesInv, MemoriesTypeOK, Workers
  <2> QED BY <1>1, <1>2, <2>5, <2>7, <2>8, <2>9, <2>10, FitsKept, BuriedKept DEF MemoriesInv
<1> QED BY <1>4, <1>5 DEF SaveSession

\* The user writes, edits or forgets a memory; no session changes.
LEMMA EditsKeeps ==
  ASSUME MemoriesInv, worker' = Stale(worker),
         UNCHANGED <<policy, chat, request, attempts, active, clock, withheld>>,
         rows' \in [Slot -> MemoryRow \cup {NoRow}], Buried'
  PROVE  MemoriesInv'
<1>1. worker' \in Workers /\ BatchStays /\ (worker' # Off => worker # Off) BY StaleStays DEF MemoriesInv
<1>2. SameWords BY DEF SameWords
<1>3. SaidOnce' /\ ConsentIsKnown' /\ BatchIsFree' BY <1>1, <1>2, WordsKept
<1>4. MemoriesTypeOK' BY <1>1 DEF MemoriesInv, MemoriesTypeOK, Workers
<1> QED BY <1>1, <1>3, <1>4, FitsKept, NotYetKept DEF MemoriesInv

LEMMA MineIsRow ==
  ASSUME NEW fact \in Fact, NEW t \in 0..MaxWord, NEW s \in Chat \cup {NoChat}
  PROVE  Mine(fact, t, s) \in MemoryRow
BY DEF Mine, MemoryRow

LEMMA WritesKeeps == ASSUME MemoriesInv, Create \/ Edit \/ Forget PROVE MemoriesInv'
<1>1. worker' = Stale(worker) /\ UNCHANGED <<policy, chat, request, attempts, active, clock, withheld>>
  BY DEF Create, Edit, Forget, Revise
<1>2. rows \in [Slot -> MemoryRow \cup {NoRow}] BY DEF MemoriesInv, MemoriesTypeOK
<1>3. ASSUME NEW p \in Slot, NEW new \in MemoryRow, rows[p] = NoRow \/ ~rows[p].deleted,
             rows' = rows \/ rows' = [rows EXCEPT ![p] = new], forgotten' = forgotten
      PROVE  MemoriesInv'
  <2>1. rows' \in [Slot -> MemoryRow \cup {NoRow}] BY <1>2, <1>3
  <2>2. Buried'
    <3> SUFFICES ASSUME NEW f \in forgotten
                 PROVE  f.slot \in Slot /\ rows'[f.slot] \in MemoryRow /\ rows'[f.slot].deleted /\ rows'[f.slot].fact = f.fact
      BY <1>3 DEF Buried
    <3>1. f.slot \in Slot /\ rows[f.slot] \in MemoryRow /\ rows[f.slot].deleted /\ rows[f.slot].fact = f.fact
      BY DEF MemoriesInv, Buried
    <3>2. f.slot # p BY <1>3, <3>1, MemoriesShape
    <3> QED BY <1>2, <1>3, <3>1, <3>2
  <2> QED BY <1>1, <2>1, <2>2, EditsKeeps
<1>4. CASE Create
  <2>1. PICK p \in Own, fact \in Fact :
          /\ rows[p] = NoRow
          /\ rows' = IF Full(rows, p[1]) THEN rows ELSE [rows EXCEPT ![p] = Mine(fact, 0, NoChat)]
    BY <1>4 DEF Create
  <2>2. 0 \in 0..MaxWord BY MemoriesShape
  <2>3. Mine(fact, 0, NoChat) \in MemoryRow /\ p \in Slot BY <2>2, MineIsRow DEF Slot
  <2>4. forgotten' = forgotten BY <1>4 DEF Create
  <2> QED BY <1>3, <2>1, <2>3, <2>4
<1>5. CASE Edit
  <2>1. PICK p \in Slot, fact \in Fact : Living(p) /\ rows' = [rows EXCEPT ![p] = Mine(fact, @.at, @.from)]
    BY <1>5 DEF Edit
  <2>2. rows[p] \in MemoryRow /\ ~rows[p].deleted BY <1>2, <2>1 DEF Living
  <2>3. Mine(fact, rows[p].at, rows[p].from) \in MemoryRow BY <2>2, MineIsRow DEF MemoryRow
  <2>4. rows' = [rows EXCEPT ![p] = Mine(fact, rows[p].at, rows[p].from)] BY <1>2, <2>1
  <2>5. forgotten' = forgotten BY <1>5 DEF Edit
  <2> QED BY <1>3, <2>2, <2>3, <2>4, <2>5
<1>6. CASE Forget
  <2>1. PICK p \in Slot :
          /\ Living(p) /\ rows' = [rows EXCEPT ![p].deleted = TRUE]
          /\ forgotten' = forgotten \cup {[slot |-> p, fact |-> rows[p].fact]}
    BY <1>6 DEF Forget
  <2>2. rows[p] \in MemoryRow /\ ~rows[p].deleted BY <1>2, <2>1 DEF Living
  <2> DEFINE new == [rows[p] EXCEPT !.deleted = TRUE]
  <2>3. new \in MemoryRow /\ new.deleted /\ new.fact = rows[p].fact BY <2>2 DEF MemoryRow
  <2>4. rows' = [rows EXCEPT ![p] = new] BY <1>2, <2>1
  <2> HIDE DEF new
  <2>5. rows' \in [Slot -> MemoryRow \cup {NoRow}] /\ rows'[p] = new BY <1>2, <2>3, <2>4
  <2>6. Buried'
    <3> SUFFICES ASSUME NEW f \in forgotten'
                 PROVE  f.slot \in Slot /\ rows'[f.slot] \in MemoryRow /\ rows'[f.slot].deleted /\ rows'[f.slot].fact = f.fact
      BY DEF Buried
    <3>1. CASE f = [slot |-> p, fact |-> rows[p].fact] BY <2>3, <2>5, <3>1
    <3>2. CASE f \in forgotten
      <4>1. f.slot \in Slot /\ rows[f.slot] \in MemoryRow /\ rows[f.slot].deleted /\ rows[f.slot].fact = f.fact
        BY <3>2 DEF MemoriesInv, Buried
      <4>2. f.slot # p BY <2>2, <4>1
      <4> QED BY <1>2, <2>4, <4>1, <4>2
    <3> QED BY <2>1, <3>1, <3>2
  <2> QED BY <1>1, <2>5, <2>6, EditsKeeps
<1> QED BY <1>4, <1>5, <1>6

LEMMA DeleteSessionKeeps == ASSUME MemoriesInv, NEW s \in Chat, DeleteSession(s) PROVE MemoriesInv'
<1>1. /\ chat' = [chat EXCEPT ![s] = [NewChat EXCEPT !.live = FALSE]]
      /\ rows' = [p \in Slot |-> IF Kept(p, s) THEN rows[p] ELSE NoRow]
      /\ worker' = Stale(worker)
      /\ UNCHANGED <<policy, request, attempts, active, withheld, forgotten, clock>>
  BY DEF DeleteSession
<1>2. worker' \in Workers /\ BatchStays /\ (Busy' => ~worker'.fresh) /\ (worker' # Off => worker # Off)
  BY <1>1, StaleStays DEF MemoriesInv
<1>3. /\ chat \in [Chat -> Chats] /\ clock \in Nat /\ rows \in [Slot -> MemoryRow \cup {NoRow}]
      /\ <<>> \in Seq(Words)
  BY DEF MemoriesInv, MemoriesTypeOK
<1>4. [NewChat EXCEPT !.live = FALSE] \in Chats /\ [NewChat EXCEPT !.live = FALSE].said = <<>> BY <1>3 DEF NewChat, Chats
<1>5. chat' \in [Chat -> Chats] /\ chat'[s].said = <<>> /\ \A t \in Chat : t # s => chat'[t] = chat[t] BY <1>1, <1>3, <1>4
<1>6. SaidOnce' BY <1>1, <1>5 DEF MemoriesInv, SaidOnce
<1>7. ConsentIsKnown'
  <2> SUFFICES ASSUME NEW t \in Chat, MayMake(t)', NEW i \in DOMAIN chat'[t].said,
                      chat'[t].said[i].at > policy.since, chat'[t].said[i].at > chat'[t].since
               PROVE  chat'[t].said[i].at \notin withheld
    BY <1>1 DEF ConsentIsKnown, ConsentAt
  <2>1. t # s /\ chat'[t] = chat[t] BY <1>5
  <2>2. MayMake(t) BY <1>1, <2>1 DEF MayMake
  <2> QED BY <2>1, <2>2 DEF MemoriesInv, ConsentIsKnown, ConsentAt
<1>8. BatchIsFree'
  <2>1. MemoriesTypeOK /\ BatchIsFree /\ clock' \in Nat /\ clock <= clock' BY <1>1, <1>3 DEF MemoriesInv
  <2> QED BY <1>2, <2>1, BatchKept
<1>9. Buried'
  <2> SUFFICES ASSUME NEW f \in forgotten
               PROVE  f.slot \in Slot /\ rows'[f.slot] \in MemoryRow /\ rows'[f.slot].deleted /\ rows'[f.slot].fact = f.fact
    BY <1>1 DEF Buried
  <2>1. f.slot \in Slot /\ rows[f.slot] \in MemoryRow /\ rows[f.slot].deleted /\ rows[f.slot].fact = f.fact
    BY DEF MemoriesInv, Buried
  <2>2. Kept(f.slot, s) BY <2>1 DEF Kept
  <2> QED BY <1>1, <2>1, <2>2
<1>10. rows' \in [Slot -> MemoryRow \cup {NoRow}] BY <1>1, <1>3
<1>11. MemoriesTypeOK' BY <1>1, <1>2, <1>5, <1>10 DEF MemoriesInv, MemoriesTypeOK, Workers
<1> QED BY <1>1, <1>2, <1>6, <1>7, <1>8, <1>9, <1>11, FitsKept, NotYetKept DEF MemoriesInv

LEMMA RenameKeeps == ASSUME MemoriesInv, NEW s \in Chat, Rename(s) PROVE MemoriesInv'
<1>1. /\ worker' = Touched(worker, s)
      /\ UNCHANGED <<policy, chat, rows, request, attempts, active, withheld, forgotten, clock>>
  BY DEF Rename
<1>2. worker' \in Workers /\ BatchStays /\ (worker' # Off => worker # Off) BY <1>1, TouchedStays DEF MemoriesInv
<1>3. SameWords BY <1>1 DEF SameWords
<1>4. MemoriesTypeOK' BY <1>1, <1>2 DEF MemoriesInv, MemoriesTypeOK, Workers
<1>5. SaidOnce' /\ ConsentIsKnown' /\ BatchIsFree' BY <1>2, <1>3, WordsKept
<1> QED BY <1>1, <1>2, <1>4, <1>5, FitsKept, BuriedKept, NotYetKept DEF MemoriesInv

LEMMA ReopenKeeps == ASSUME MemoriesInv, Reopen PROVE MemoriesInv'
<1>1. /\ attempts' = [attempts EXCEPT !.running = 0] /\ worker' \in {Off, Asleep}
      /\ request' = NoRequest /\ active' = NoChat
      /\ UNCHANGED <<policy, chat, rows, withheld, forgotten, clock>>
  BY DEF Reopen
<1>2. SameWords /\ BatchStays BY <1>1 DEF SameWords, BatchStays, Busy, Off, Asleep
<1>3. MemoriesTypeOK' BY <1>1 DEF MemoriesInv, MemoriesTypeOK
<1>4. SaidOnce' /\ ConsentIsKnown' /\ BatchIsFree' BY <1>2, WordsKept
<1>5. SaveFits' BY <1>1 DEF SaveFits, NoRequest
<1> QED BY <1>1, <1>3, <1>4, <1>5, BuriedKept, NotYetKept DEF MemoriesInv

-----------------------------------------------------------------------------
(* The theorems. *)

LEMMA MemoriesStart == MemoriesInit => MemoriesInv
<1> SUFFICES ASSUME MemoriesInit PROVE MemoriesInv OBVIOUS
<1>1. <<>> \in Seq(Words) /\ 0 \in 0..MaxWord BY MemoriesShape
<1>2. NewChat \in Chats /\ NewChat.said = <<>> BY <1>1 DEF NewChat, Chats
<1>3. policy \in SettingsRow
  <2>1. PICK on \in BOOLEAN, make \in BOOLEAN :
          policy = [on |-> on, use |-> TRUE, make |-> make, shut |-> TRUE, since |-> 0, version |-> 1]
    BY DEF MemoriesInit
  <2>2. 0 \in Nat /\ 1 \in Int OBVIOUS
  <2> QED BY <2>1, <2>2 DEF SettingsRow
<1>4. MemoriesTypeOK BY <1>1, <1>2, <1>3 DEF MemoriesInit, MemoriesTypeOK
<1>5. SaidOnce /\ ConsentIsKnown BY <1>2 DEF MemoriesInit, SaidOnce, ConsentIsKnown, ConsentAt
<1>6. BatchIsFree BY DEF MemoriesInit, BatchIsFree, Busy, Off, Asleep
<1>7. SaveFits /\ NotYet /\ Buried BY DEF MemoriesInit, SaveFits, NotYet, Buried, NoRequest
<1> QED BY <1>4, <1>5, <1>6, <1>7 DEF MemoriesInv

LEMMA MemoriesKeep == MemoriesInv /\ [MemoriesNext]_memoryVars => MemoriesInv'
<1> SUFFICES ASSUME MemoriesInv, [MemoriesNext]_memoryVars PROVE MemoriesInv' OBVIOUS
<1>1. CASE MemoriesNext
  BY <1>1, StartRunKeeps, LookKeeps, SaveSessionKeeps, DeleteSessionKeeps, RenameKeeps, AnswerKeeps, EndRunKeeps,
     TickKeeps, DropKeeps, CallKeeps, SaveKeeps, UnwindKeeps, SaveSettingsKeeps, SaveAfterStopKeeps, WritesKeeps,
     ReopenKeeps DEF MemoriesNext
<1>2. CASE UNCHANGED memoryVars
  <2>1. SameWords /\ BatchStays BY <1>2 DEF memoryVars, SameWords, BatchStays, Busy
  <2>2. SaidOnce' /\ ConsentIsKnown' /\ BatchIsFree' BY <2>1, WordsKept
  <2>3. MemoriesTypeOK' BY <1>2 DEF memoryVars, MemoriesInv, MemoriesTypeOK
  <2> QED BY <1>2, <2>2, <2>3, FitsKept, BuriedKept, NotYetKept DEF memoryVars, MemoriesInv
<1> QED BY <1>1, <1>2

LEMMA MemoriesHold == MemoriesSpec => []MemoriesInv
BY MemoriesStart, MemoriesKeep, PTL DEF MemoriesSpec

\* Only a save generates a memory: it is one the model has drawn.
LEMMA OnlySavesGenerate ==
  ASSUME MemoriesInv, MemoriesNext, NEW p \in Slot, Generates(p)
  PROVE  \E m \in [slot : Drawn, fact : Fact, at : 0..MaxWord] :
           /\ Save /\ p = m.slot /\ ~Blocked(rows, m) /\ m.at \notin withheld
           /\ rows'[p] = [fact |-> m.fact, deleted |-> FALSE, origin |-> "model", from |-> worker.on, at |-> m.at]
<1>1. rows'[p] # rows[p] /\ rows'[p] # NoRow /\ rows'[p].origin = "model" /\ ~rows'[p].deleted BY DEF Generates
<1>2. rows \in [Slot -> MemoryRow \cup {NoRow}] BY DEF MemoriesInv, MemoriesTypeOK
<1>3. CASE Create
  <2>1. PICK o \in Own, fact \in Fact :
          rows' = IF Full(rows, o[1]) THEN rows ELSE [rows EXCEPT ![o] = Mine(fact, 0, NoChat)]
    BY <1>3 DEF Create
  <2> QED BY <1>1, <1>2, <2>1 DEF Mine
<1>4. CASE Edit
  <2>1. PICK o \in Slot, fact \in Fact : rows' = [rows EXCEPT ![o] = Mine(fact, @.at, @.from)] BY <1>4 DEF Edit
  <2> QED BY <1>1, <1>2, <2>1 DEF Mine
<1>5. CASE Forget
  <2>1. PICK o \in Slot : Living(o) /\ rows' = [rows EXCEPT ![o].deleted = TRUE] BY <1>5 DEF Forget
  <2>2. rows[o] \in MemoryRow BY <1>2, <2>1 DEF Living
  <2>3. p # o
    <3> SUFFICES ASSUME p = o PROVE FALSE OBVIOUS
    <3>1. rows'[p] = [rows[p] EXCEPT !.deleted = TRUE] BY <1>2, <2>1
    <3> QED BY <1>1, <2>2, <3>1 DEF MemoryRow
  <2> QED BY <1>1, <1>2, <2>1, <2>3
<1>6. ASSUME NEW s \in Chat, DeleteSession(s) PROVE FALSE
  <2>1. rows' = [o \in Slot |-> IF Kept(o, s) THEN rows[o] ELSE NoRow] BY <1>6 DEF DeleteSession
  <2> QED BY <1>1, <2>1
<1>7. CASE Save
  <2>1. PICK m \in [slot : Drawn, fact : Fact, at : 0..MaxWord] :
          /\ ~Blocked(rows, m) /\ m.at \notin withheld
          /\ rows' = [rows EXCEPT ![m.slot] =
                        [fact |-> m.fact, deleted |-> FALSE, origin |-> "model", from |-> worker.on, at |-> m.at]]
    BY <1>1, <1>7, SaveDraws
  <2>2. p = m.slot BY <1>1, <1>2, <2>1
  <2> QED BY <1>2, <1>7, <2>1, <2>2
<1>8. Create \/ Edit \/ Forget \/ Save \/ (\E s \in Chat : DeleteSession(s)) \/ UNCHANGED rows
  BY DEF MemoriesNext, StartRun, Look, SaveSession, Rename, Answer, EndRun, Tick, EndScan, NoCall, GiveUp, Call, Fail,
         Unwind, SaveSettings, SaveAfterStop, Reopen
<1> QED BY <1>1, <1>3, <1>4, <1>5, <1>6, <1>7, <1>8

(* MemoriesTypeOK: settings, sessions, memories and the worker are of their
   types, however requests, runs and restarts follow each other
   (memories.py, memory_store.py). *)
THEOREM MemoriesTypeCorrect == MemoriesSpec => []MemoriesTypeOK
<1>1. MemoriesInv => MemoriesTypeOK BY DEF MemoriesInv
<1> QED BY <1>1, MemoriesHold, PTL

(* ForgottenStays: what the user forgot does not come back by generation, under
   its topic or in its words (memory_store.py, put and forget; reconcile). *)
THEOREM ForgettingLasts == MemoriesSpec => ForgottenStays
<1>1. ASSUME MemoriesInv, [MemoriesNext]_memoryVars
      PROVE  [\A p \in Slot, f \in forgotten :
                Generates(p) /\ p[1] = f.slot[1] => p # f.slot /\ rows'[p].fact # f.fact]_memoryVars
  <2> SUFFICES ASSUME MemoriesNext, NEW p \in Slot, NEW f \in forgotten, Generates(p), p[1] = f.slot[1]
               PROVE  p # f.slot /\ rows'[p].fact # f.fact
    BY <1>1
  <2>1. PICK m \in [slot : Drawn, fact : Fact, at : 0..MaxWord] :
          /\ p = m.slot /\ ~Blocked(rows, m)
          /\ rows'[p] = [fact |-> m.fact, deleted |-> FALSE, origin |-> "model", from |-> worker.on, at |-> m.at]
    BY <1>1, OnlySavesGenerate
  <2>2. f.slot \in Slot /\ rows[f.slot] \in MemoryRow /\ rows[f.slot].deleted /\ rows[f.slot].fact = f.fact
    BY <1>1 DEF MemoriesInv, Buried
  <2>3. rows[f.slot] # NoRow BY <2>2, MemoriesShape
  <2>4. p # f.slot BY <2>1, <2>2, <2>3 DEF Blocked
  <2>5. m.fact # f.fact BY <2>1, <2>2, <2>3 DEF Blocked
  <2> QED BY <2>1, <2>4, <2>5
<1> QED BY <1>1, MemoriesHold, PTL DEF MemoriesSpec, ForgottenStays

(* OnlyWithConsent: no message that was withheld is sent to the model or kept in
   a memory, and none while generation is off, a run is active or the session is
   gone (memories.py, source and extract; memory_store.py, save_settings). *)
THEOREM WordsNeedConsent == MemoriesSpec => OnlyWithConsent
<1>1. ASSUME MemoriesInv, [MemoriesNext]_memoryVars
      PROVE  [/\ attempts'.calls > attempts.calls =>
                   /\ MayMake(worker.on) /\ chat[worker.on].live /\ active = NoChat
                   /\ \A w \in ToSet(worker.batch) : w.at \notin withheld
              /\ \A p \in Slot : Generates(p) =>
                   /\ MayMake(rows'[p].from) /\ chat[rows'[p].from].live /\ active = NoChat
                   /\ rows'[p].at \notin withheld]_memoryVars
  <2> SUFFICES ASSUME MemoriesNext
               PROVE  /\ attempts'.calls > attempts.calls =>
                           /\ MayMake(worker.on) /\ chat[worker.on].live /\ active = NoChat
                           /\ \A w \in ToSet(worker.batch) : w.at \notin withheld
                      /\ \A p \in Slot : Generates(p) =>
                           /\ MayMake(rows'[p].from) /\ chat[rows'[p].from].live /\ active = NoChat
                           /\ rows'[p].at \notin withheld
    BY <1>1
  <2>1. ASSUME attempts'.calls > attempts.calls
        PROVE  /\ MayMake(worker.on) /\ chat[worker.on].live /\ active = NoChat
               /\ \A w \in ToSet(worker.batch) : w.at \notin withheld
    <3>1. attempts.calls \in Nat BY <1>1 DEF MemoriesInv, MemoriesTypeOK
    <3>2. attempts' # attempts /\ ~Finish BY <1>1, <2>1, <3>1, FinishTyped
    <3>3. ~Reopen
      <4>1. Reopen => attempts'.calls = attempts.calls BY <1>1 DEF Reopen, MemoriesInv, MemoriesTypeOK
      <4> QED BY <2>1, <3>1, <4>1
    <3>4. Call
      BY <3>2, <3>3 DEF MemoriesNext, StartRun, Look, SaveSession, DeleteSession, Rename, Answer, EndRun, Tick, EndScan,
                        NoCall, GiveUp, Save, Fail, Unwind, SaveSettings, SaveAfterStop, Create, Edit, Forget, Revise
    <3>5. Busy /\ worker.fresh /\ active = NoChat /\ MayMake(worker.on) BY <3>4 DEF Call, Overtaken, Busy
    <3> QED BY <1>1, <3>5 DEF MemoriesInv, BatchIsFree, ToSet
  <2>2. ASSUME NEW p \in Slot, Generates(p)
        PROVE  /\ MayMake(rows'[p].from) /\ chat[rows'[p].from].live /\ active = NoChat
               /\ rows'[p].at \notin withheld
    <3>1. PICK m \in [slot : Drawn, fact : Fact, at : 0..MaxWord] :
            /\ Save /\ m.at \notin withheld
            /\ rows'[p] = [fact |-> m.fact, deleted |-> FALSE, origin |-> "model", from |-> worker.on, at |-> m.at]
      BY <1>1, <2>2, OnlySavesGenerate
    <3>2. chat[worker.on].live /\ active = NoChat /\ MayMake(worker.on) BY <3>1 DEF Save, Unchanged
    <3> QED BY <3>1, <3>2
  <2> QED BY <2>1, <2>2
<1> QED BY <1>1, MemoriesHold, PTL DEF MemoriesSpec, OnlyWithConsent
=============================================================================
