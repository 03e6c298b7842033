--------------------------- MODULE LedgersProofs ---------------------------
(***************************************************************************)
(* Theorems about the records that LedgersMC puts side by side, for every  *)
(* value of their constants.                                               *)
(*                                                                         *)
(* Accounting: any number of deliveries of one operation.  Accounted is    *)
(* the inductive invariant: there is one batch, in whatever store and at   *)
(* whatever step of a worker (EntryIsSound, TaskIsSound).                  *)
(*                                                                         *)
(* Installation: any intents, callbacks and events.  Single: an intent is  *)
(* consumed before its code is exchanged, by one callback, and an event    *)
(* applies at the revision it saw (IntentIsSound, EventIsSound).           *)
(*                                                                         *)
(* Autonomy: any number of runs, any limit of the history and any times,   *)
(* as long as a run is not stale before its capability ends.  Counted: the *)
(* history is that of the runs claimed, in order (HistoryIsSound), and who *)
(* has a container is active, has ended or can write no more (RunIsSound). *)
(*                                                                         *)
(* Contracts: any number of envelopes, days, jobs and retries.  Truthful:  *)
(* rows, cards and jobs agree about each envelope (CardIsSound,            *)
(* SheetIsSound), and about what the desk has reached (DeskIsSound).       *)
(***************************************************************************)
EXTENDS LedgersMC, Integers, FiniteSetTheorems, FunctionTheorems,
        SequenceTheorems, WellFoundedInduction, TLAPS

-----------------------------------------------------------------------------
(* The accounting ledger.                                                  *)

(* A delivery is not the continuation; starts and glitches are counted.    *)
AccountingConstants ==
  0 \notin Deliveries /\ MaxStarts \in Nat /\ MaxGlitches \in Nat

(* What the stores, the ledger and the workers can hold.                   *)
Times == {0} \cup Deliveries
Accounts == [outcome : Accounting!Outcomes, at : Times]
Held == Accounts \cup {Accounting!None}
Tasks == [pc : {"idle", "run", "stamp", "freeze", "write", "complete", "done"}, artifact : Held,
          answer : {"none", "recorded", "deferred", "conflict", "error"}]

(* The entry of the outbox is claimed with the batch that is frozen, and   *)
(* what Brainbase has booked is that batch; it is written once that is so. *)
EntryIsSound ==
  /\ entry.state = "none" => entry.batch = Accounting!None /\ frozen = Accounting!None /\ deferred = Accounting!None /\ books = {}
  /\ entry.state = "claimed" => frozen = entry.batch
  /\ entry.state = "written" => frozen = Accounting!None /\ entry.batch \in books
  /\ entry.state # "none" => entry.batch \in Accounts /\ entry.batch.at = stamp /\ stamp # 0
  /\ deferred # Accounting!None => deferred = entry.batch
  /\ \A a \in books : a = entry.batch

(* What a worker has reached: an account stamped with the time the run     *)
(* keeps, and nothing but the batch of the entry to write.                 *)
TaskIsSound(w) ==
  /\ work[w].pc = "stamp" => work[w].artifact \in Accounts
  /\ work[w].pc = "freeze" => work[w].artifact \in Accounts /\ work[w].artifact.at = stamp /\ stamp # 0
  /\ work[w].pc \in {"write", "complete"} => entry.state # "none" /\ work[w].artifact = entry.batch
  /\ work[w].pc = "complete" => work[w].artifact \in books
  /\ w = Accounting!Continuation => work[w].pc \notin {"run", "stamp"}

LedgerTypes ==
  /\ entry \in [state : {"none", "claimed", "written"}, batch : Held]
  /\ frozen \in Held /\ deferred \in Held /\ stamp \in Times
  /\ books \subseteq Accounts /\ effect \in BOOLEAN
  /\ starts \in [Accounting!Workers -> 0..MaxStarts] /\ glitches \in 0..MaxGlitches
  /\ work \in [Accounting!Workers -> Tasks]

Accounted == LedgerTypes /\ EntryIsSound /\ \A w \in Accounting!Workers : TaskIsSound(w)

(* How a worker moves: by To, Holds and Ends.                              *)
LEMMA Moving ==
  ASSUME work \in [Accounting!Workers -> Tasks], NEW w \in Accounting!Workers
  PROVE  /\ \A p \in {"idle", "run", "stamp", "freeze", "write", "complete", "done"} : Accounting!To(w, p) =>
              /\ work' \in [Accounting!Workers -> Tasks] /\ \A x \in Accounting!Workers : x # w => work'[x] = work[x]
              /\ work'[w].pc = p /\ work'[w].artifact = work[w].artifact
         /\ \A p \in {"idle", "run", "stamp", "freeze", "write", "complete", "done"}, a \in Held : Accounting!Holds(w, p, a) =>
              /\ work' \in [Accounting!Workers -> Tasks] /\ \A x \in Accounting!Workers : x # w => work'[x] = work[x]
              /\ work'[w].pc = p /\ work'[w].artifact = a
         /\ \A n \in {"none", "recorded", "deferred", "conflict", "error"} : Accounting!Ends(w, n) =>
              /\ work' \in [Accounting!Workers -> Tasks] /\ \A x \in Accounting!Workers : x # w => work'[x] = work[x]
              /\ work'[w].pc = "done"
<1>1. ASSUME NEW p \in {"idle", "run", "stamp", "freeze", "write", "complete", "done"}, Accounting!To(w, p)
      PROVE  /\ work' \in [Accounting!Workers -> Tasks] /\ \A x \in Accounting!Workers : x # w => work'[x] = work[x]
             /\ work'[w].pc = p /\ work'[w].artifact = work[w].artifact
  BY <1>1 DEF Accounting!To, Tasks
<1>2. ASSUME NEW p \in {"idle", "run", "stamp", "freeze", "write", "complete", "done"}, NEW a \in Held, Accounting!Holds(w, p, a)
      PROVE  /\ work' \in [Accounting!Workers -> Tasks] /\ \A x \in Accounting!Workers : x # w => work'[x] = work[x]
             /\ work'[w].pc = p /\ work'[w].artifact = a
  BY <1>2 DEF Accounting!Holds, Tasks
<1>3. ASSUME NEW n \in {"none", "recorded", "deferred", "conflict", "error"}, Accounting!Ends(w, n)
      PROVE  /\ work' \in [Accounting!Workers -> Tasks] /\ \A x \in Accounting!Workers : x # w => work'[x] = work[x]
             /\ work'[w].pc = "done"
  BY <1>3 DEF Accounting!Ends, Tasks
<1>4. QED
  BY <1>1, <1>2, <1>3

(* Accounted is inductive, by one case per operation of a worker, and says *)
(* all that the run checks.                                                *)
LEMMA AccountedAtFirst == ASSUME AccountingConstants, Accounting!Init PROVE Accounted
<1>1. Accounting!None \in Held /\ 0 \in Times /\ Accounting!Continuation \in Accounting!Workers
  BY DEF Held, Times, Accounting!Workers
<1>a. Accounting!Resting \in Tasks /\ 0 \in 0..MaxStarts /\ 0 \in 0..MaxGlitches
  BY <1>1 DEF Accounting!Resting, Tasks, AccountingConstants
<1>2. LedgerTypes
  BY <1>1, <1>a DEF LedgerTypes, Accounting!Init
<1>3. EntryIsSound /\ \A w \in Accounting!Workers : TaskIsSound(w)
  BY DEF Accounting!Init, EntryIsSound, TaskIsSound, Accounting!Resting
<1>4. QED
  BY <1>2, <1>3 DEF Accounted

LEMMA StepKeepsAccounted ==
  ASSUME AccountingConstants, Accounted, NEW w \in Accounting!Workers,
         Accounting!Start(w) \/ Accounting!Proceed(w) \/ Accounting!Die(w)
  PROVE  Accounted'
<1> USE DEF Accounted
<1>0. /\ Accounting!None \notin Accounts /\ Accounting!None \in Held /\ Accounts \subseteq Held
      /\ Accounting!Workers = Times /\ \A x \in Accounting!Workers : x # Accounting!Continuation => x # 0
  BY DEF Accounting!None, Accounts, Accounting!Outcomes, Held, Accounting!Workers, Times,
     Accounting!Continuation
<1>a. \A o \in {"succeeded", "failed", "unknown"} : [Accounting!None EXCEPT !.outcome = o] \in Accounts
  BY DEF Accounting!None, Accounts, Accounting!Outcomes, Times
<1>b. \A a \in Accounts, t \in Times : [a EXCEPT !.at = t] \in Accounts /\ [a EXCEPT !.at = t].at = t
  BY DEF Accounts
<1>1. CASE Accounting!Start(w)
  <2>1. LedgerTypes'
    BY <1>1, <1>0, Moving DEF LedgerTypes, Accounting!Start, Accounting!At, EntryIsSound, TaskIsSound,
       AccountingConstants
  <2>2. EntryIsSound'
    BY <1>1, <1>0 DEF LedgerTypes, Accounting!Start, Accounting!At, EntryIsSound, TaskIsSound
  <2>3. TaskIsSound(w)'
    BY <1>1, <1>0, Moving DEF LedgerTypes, Accounting!Start, Accounting!At, EntryIsSound, TaskIsSound
  <2>4. ASSUME NEW x \in Accounting!Workers, x # w PROVE TaskIsSound(x)'
    BY <1>1, <1>0, <2>4, Moving DEF LedgerTypes, Accounting!Start, Accounting!At, EntryIsSound, TaskIsSound
  <2>5. QED
    BY <2>1, <2>2, <2>3, <2>4
<1>2. CASE w = Accounting!Continuation /\ Accounting!Continue
  <2>1. LedgerTypes'
    BY <1>2, <1>0, Moving DEF LedgerTypes, Accounting!Continue, Accounting!At, EntryIsSound, TaskIsSound,
       AccountingConstants
  <2>2. EntryIsSound'
    BY <1>2, <1>0 DEF LedgerTypes, Accounting!Continue, Accounting!At, EntryIsSound, TaskIsSound
  <2>3. TaskIsSound(w)'
    BY <1>2, <1>0, Moving DEF LedgerTypes, Accounting!Continue, Accounting!At, EntryIsSound, TaskIsSound
  <2>4. ASSUME NEW x \in Accounting!Workers, x # w PROVE TaskIsSound(x)'
    BY <1>2, <1>0, <2>4, Moving DEF LedgerTypes, Accounting!Continue, Accounting!At, EntryIsSound, TaskIsSound
  <2>5. QED
    BY <2>1, <2>2, <2>3, <2>4
<1>3. CASE Accounting!Run(w)
  <2>1. PICK o \in {"succeeded", "failed", "unknown"} : Accounting!Holds(w, "stamp", [Accounting!None EXCEPT !.outcome = o])
    BY <1>3 DEF Accounting!Run
  <2>2. /\ work' \in [Accounting!Workers -> Tasks] /\ \A x \in Accounting!Workers : x # w => work'[x] = work[x]
        /\ work'[w].pc = "stamp" /\ work'[w].artifact \in Accounts
    BY <2>1, <1>0, <1>a, Moving DEF LedgerTypes
  <2>a. glitches' \in 0..MaxGlitches
    BY <1>3 DEF LedgerTypes, Accounting!Run, Accounting!Glitch, AccountingConstants
  <2>b. effect' \in BOOLEAN
    BY <1>3 DEF LedgerTypes, Accounting!Run
  <2>3. LedgerTypes'
    BY <1>3, <2>2, <2>a, <2>b DEF LedgerTypes, Accounting!Run
  <2>4. EntryIsSound'
    BY <1>3 DEF Accounting!Run, EntryIsSound
  <2>5. \A x \in Accounting!Workers : TaskIsSound(x)'
    BY <1>3, <2>2 DEF Accounting!Run, Accounting!At, TaskIsSound
  <2>6. QED
    BY <2>3, <2>4, <2>5
<1>4. CASE Accounting!Stamp(w)
  <2>1. stamp' \in Times /\ stamp' # 0 /\ (stamp # 0 => stamp' = stamp)
    BY <1>4, <1>0 DEF Accounting!Stamp, Accounting!At, TaskIsSound, LedgerTypes, Accounting!Workers,
       Accounting!Continuation, AccountingConstants
  <2> DEFINE a == [work[w].artifact EXCEPT !.at = stamp']
  <2>a. a \in Accounts /\ a.at = stamp' /\ Accounting!Holds(w, "freeze", a)
    BY <1>4, <2>1, <1>b DEF Accounting!Stamp, Accounting!At, TaskIsSound
  <2>2. /\ work' \in [Accounting!Workers -> Tasks] /\ \A x \in Accounting!Workers : x # w => work'[x] = work[x]
        /\ work'[w].pc = "freeze" /\ work'[w].artifact = a
    BY <2>a, <1>0, Moving DEF LedgerTypes
  <2>3. LedgerTypes'
    BY <1>4, <2>1, <2>2 DEF LedgerTypes, Accounting!Stamp
  <2>4. EntryIsSound'
    BY <1>4, <2>1 DEF Accounting!Stamp, EntryIsSound
  <2>5. \A x \in Accounting!Workers : TaskIsSound(x)'
    BY <1>4, <2>1, <2>a, <2>2 DEF Accounting!Stamp, Accounting!At, TaskIsSound
  <2>6. QED
    BY <2>3, <2>4, <2>5
<1>5. CASE Accounting!Freeze(w)
  <2>1. LedgerTypes'
    BY <1>5, <1>0, Moving DEF LedgerTypes, Accounting!Freeze, Accounting!At, Accounting!Claimed, EntryIsSound,
       TaskIsSound, AccountingConstants
  <2>2. EntryIsSound'
    BY <1>5, <1>0 DEF LedgerTypes, Accounting!Freeze, Accounting!At, Accounting!Claimed, EntryIsSound,
       TaskIsSound
  <2>3. TaskIsSound(w)'
    BY <1>5, <1>0, Moving DEF LedgerTypes, Accounting!Freeze, Accounting!At, Accounting!Claimed, EntryIsSound,
       TaskIsSound
  <2>4. ASSUME NEW x \in Accounting!Workers, x # w PROVE TaskIsSound(x)'
    BY <1>5, <1>0, <2>4, Moving DEF LedgerTypes, Accounting!Freeze, Accounting!At, Accounting!Claimed,
       EntryIsSound, TaskIsSound
  <2>5. QED
    BY <2>1, <2>2, <2>3, <2>4
<1>6. CASE Accounting!Write(w)
  <2>1. LedgerTypes'
    BY <1>6, <1>0, Moving DEF LedgerTypes, Accounting!Write, Accounting!Glitch, Accounting!At, EntryIsSound,
       TaskIsSound, AccountingConstants
  <2>2. EntryIsSound'
    BY <1>6, <1>0 DEF LedgerTypes, Accounting!Write, Accounting!Glitch, Accounting!At, EntryIsSound, TaskIsSound
  <2>3. TaskIsSound(w)'
    BY <1>6, <1>0, Moving DEF LedgerTypes, Accounting!Write, Accounting!Glitch, Accounting!At, EntryIsSound,
       TaskIsSound
  <2>4. ASSUME NEW x \in Accounting!Workers, x # w PROVE TaskIsSound(x)'
    BY <1>6, <1>0, <2>4, Moving DEF LedgerTypes, Accounting!Write, Accounting!Glitch, Accounting!At,
       EntryIsSound, TaskIsSound
  <2>5. QED
    BY <2>1, <2>2, <2>3, <2>4
<1>7. CASE Accounting!Complete(w)
  <2>1. LedgerTypes'
    BY <1>7, <1>0, Moving DEF LedgerTypes, Accounting!Complete, Accounting!Claimed, Accounting!At, EntryIsSound,
       TaskIsSound, AccountingConstants
  <2>2. EntryIsSound'
    BY <1>7, <1>0 DEF LedgerTypes, Accounting!Complete, Accounting!Claimed, Accounting!At, EntryIsSound,
       TaskIsSound
  <2>3. TaskIsSound(w)'
    BY <1>7, <1>0, Moving DEF LedgerTypes, Accounting!Complete, Accounting!Claimed, Accounting!At, EntryIsSound,
       TaskIsSound
  <2>4. ASSUME NEW x \in Accounting!Workers, x # w PROVE TaskIsSound(x)'
    BY <1>7, <1>0, <2>4, Moving DEF LedgerTypes, Accounting!Complete, Accounting!Claimed, Accounting!At,
       EntryIsSound, TaskIsSound
  <2>5. QED
    BY <2>1, <2>2, <2>3, <2>4
<1>8. CASE Accounting!Die(w)
  <2>1. LedgerTypes'
    BY <1>8, <1>0, Moving DEF LedgerTypes, Accounting!Die, Accounting!Glitch, EntryIsSound, TaskIsSound,
       AccountingConstants
  <2>2. EntryIsSound'
    BY <1>8, <1>0 DEF LedgerTypes, Accounting!Die, Accounting!Glitch, EntryIsSound, TaskIsSound
  <2>3. TaskIsSound(w)'
    BY <1>8, <1>0, Moving DEF LedgerTypes, Accounting!Die, Accounting!Glitch, EntryIsSound, TaskIsSound
  <2>4. ASSUME NEW x \in Accounting!Workers, x # w PROVE TaskIsSound(x)'
    BY <1>8, <1>0, <2>4, Moving DEF LedgerTypes, Accounting!Die, Accounting!Glitch, EntryIsSound, TaskIsSound
  <2>5. QED
    BY <2>1, <2>2, <2>3, <2>4
<1>9. QED
  BY <1>1, <1>2, <1>3, <1>4, <1>5, <1>6, <1>7, <1>8 DEF Accounting!Proceed

LEMMA AccountedIsKept ==
  ASSUME AccountingConstants, Accounted, [Accounting!Next]_Accounting!ledgerVars PROVE Accounted'
<1>1. CASE Accounting!Next
  BY <1>1, StepKeepsAccounted DEF Accounting!Next
<1>2. CASE UNCHANGED Accounting!ledgerVars
  BY <1>2 DEF Accounting!ledgerVars, Accounted, LedgerTypes, EntryIsSound, TaskIsSound
<1>3. QED
  BY <1>1, <1>2

LEMMA AccountedIsEnough ==
  ASSUME Accounted
  PROVE Accounting!TypeOK /\ Accounting!BookedOnce /\ Accounting!WrittenIsBooked /\ Accounting!SameOutcomeAgrees
<1>1. Accounting!TypeOK
  <2>1. Accounting!None \notin Accounts
    BY DEF Accounting!None, Accounts, Accounting!Outcomes
  <2>2. QED
    BY <2>1 DEF Accounted, LedgerTypes, Accounting!TypeOK, Held, Accounts, Times, Tasks
<1>2. Accounting!BookedOnce /\ Accounting!WrittenIsBooked
  BY DEF Accounted, EntryIsSound, Accounting!BookedOnce, Accounting!WrittenIsBooked
<1>3. Accounting!SameOutcomeAgrees
  <2> SUFFICES ASSUME NEW w \in Accounting!Workers, Accounting!At(w, "freeze"), entry.state # "none",
                      entry.batch.outcome = work[w].artifact.outcome
               PROVE  entry.batch = work[w].artifact
    BY DEF Accounting!SameOutcomeAgrees
  <2>1. entry.batch \in Accounts /\ work[w].artifact \in Accounts /\ entry.batch.at = work[w].artifact.at
    BY DEF Accounted, EntryIsSound, TaskIsSound, Accounting!At
  <2>2. QED
    BY <2>1 DEF Accounts
<1>4. QED
  BY <1>1, <1>2, <1>3

(* What the run checks of the ledger, of every behaviour.                  *)
LEMMA AccountingHolds ==
  ASSUME AccountingConstants
  PROVE  Accounting!Init /\ [][Accounting!Next]_Accounting!ledgerVars
           => [](Accounting!TypeOK /\ Accounting!BookedOnce /\ Accounting!WrittenIsBooked
                 /\ Accounting!SameOutcomeAgrees)
<1>1. Accounting!Init => Accounted
  BY AccountedAtFirst
<1>2. Accounted /\ [Accounting!Next]_Accounting!ledgerVars => Accounted'
  BY AccountedIsKept
<1>3. Accounted => Accounting!TypeOK /\ Accounting!BookedOnce /\ Accounting!WrittenIsBooked
      /\ Accounting!SameOutcomeAgrees
  BY AccountedIsEnough
<1>4. QED
  BY <1>1, <1>2, <1>3, PTL

-----------------------------------------------------------------------------
(* Slack installations.                                                    *)

(* Misses are counted.                                                     *)
InstallationConstants == MaxMisses \in Nat

(* What the stores, the callbacks and the events can hold.                 *)
Connections == [status : {"none", "active", "reauth_required", "uninstalled", "revoked"}, revision : Nat, space : Installation!Spaces]
Returns == [pc : {"none", "claim", "exchange", "installed", "refused"}, of : Intents \cup {0}, space : Installation!Spaces]
Told == [pc : {"none", "sent", "answered"}, saw : Nat, applied : Nat,
         kind : {"none", "reauthorized", "scope_changed", "app_uninstalled", "tokens_revoked"}]
Started == [state : {"none", "open", "expired", "consumed"}, saw : Nat]

InstallationTypes ==
  /\ intents \in [Intents -> Started] /\ callbacks \in [Callbacks -> Returns] /\ exchanged \in [Intents -> Nat]
  /\ misses \in 0..MaxMisses /\ connection \in Connections /\ events \in [Events -> Told]

(* An intent is consumed before its code is exchanged, by the one callback *)
(* that consumed it.                                                       *)
Exchanging(c, i) == callbacks[c].pc = "exchange" /\ callbacks[c].of = i
IntentIsSound(i) ==
  /\ exchanged[i] <= 1
  /\ exchanged[i] = 1 => intents[i].state = "consumed" /\ \A c \in Callbacks : ~Exchanging(c, i)
  /\ \A c \in Callbacks : Exchanging(c, i) => intents[i].state = "consumed"
  /\ \A c, d \in Callbacks : Exchanging(c, i) /\ Exchanging(d, i) => c = d
ReturnIsSound(c) == callbacks[c].pc # "none" => callbacks[c].of \in Intents
(* An event was sent at a revision, and what it applies leaves that        *)
(* revision behind.                                                        *)
EventIsSound(e) ==
  /\ events[e].saw <= connection.revision
  /\ events[e].applied <= 1
  /\ events[e].applied = 1 => events[e].saw < connection.revision

Single ==
  /\ InstallationTypes /\ connection.space = "expected"
  /\ \A i \in Intents : IntentIsSound(i)
  /\ \A c \in Callbacks : ReturnIsSound(c)
  /\ \A e \in Events : EventIsSound(e)

(* Single is inductive, and says all that the run checks.                  *)
LEMMA SingleAtFirst == ASSUME InstallationConstants, Installation!Init PROVE Single
BY DEF InstallationConstants, Installation!Init, Single, InstallationTypes, Connections, Returns, Told, Started,
   IntentIsSound,
   ReturnIsSound, EventIsSound, Exchanging, Installation!Idle, Installation!NoEvent, Installation!Spaces

(* How a connection is revised.                                            *)
LEMMA Revising ==
  ASSUME connection \in Connections, NEW s \in {"active", "reauth_required", "uninstalled", "revoked"},
         Installation!Revised(s, connection.space)
  PROVE  /\ connection' \in Connections /\ connection'.space = connection.space
         /\ connection'.revision = connection.revision + 1 /\ connection'.status = s
BY DEF Installation!Revised, Connections

(* An intent is stored or runs out.                                        *)
LEMMA IntentStepKeepsSingle ==
  ASSUME InstallationConstants, Single, NEW i \in Intents,
         Installation!StartInstall(i) \/ Installation!Outlive(i)
  PROVE  Single'
<1> USE DEF Single, Installation!StartInstall, Installation!Store, Installation!Outlive
<1>1. InstallationTypes'
  BY DEF InstallationTypes, Started, Connections
<1>2. \A j \in Intents : IntentIsSound(j)'
  BY DEF InstallationTypes, IntentIsSound, Exchanging, Started
<1>3. QED
  BY <1>1, <1>2 DEF ReturnIsSound, EventIsSound

(* How a callback moves on, and what the claim and the exchange keep.      *)
LEMMA Returning ==
  ASSUME Single, NEW c \in Callbacks, NEW pc \in {"exchange", "installed", "refused"},
         Installation!CallbackTo(c, pc)
  PROVE  /\ callbacks' \in [Callbacks -> Returns]
         /\ callbacks'[c].pc = pc /\ callbacks'[c].of = callbacks[c].of
         /\ \A d \in Callbacks : d # c => callbacks'[d] = callbacks[d]
BY DEF Single, InstallationTypes, Installation!CallbackTo, Returns

LEMMA CallbackStepKeepsSingle ==
  ASSUME InstallationConstants, Single, NEW c \in Callbacks,
         Installation!CallBack(c) \/ Installation!Claim(c) \/ Installation!Exchange(c)
  PROVE  Single'
<1> USE DEF Single
<1>1. CASE Installation!CallBack(c)
  <2>1. InstallationTypes'
    BY <1>1 DEF Installation!CallBack, InstallationTypes, Returns
  <2>2. \A j \in Intents : IntentIsSound(j)'
    BY <1>1 DEF Installation!CallBack, InstallationTypes, IntentIsSound, Exchanging, Returns
  <2>3. \A d \in Callbacks : ReturnIsSound(d)'
    BY <1>1 DEF Installation!CallBack, InstallationTypes, ReturnIsSound, Returns
  <2>4. QED
    BY <1>1, <2>1, <2>2, <2>3 DEF Installation!CallBack, EventIsSound
<1>2. CASE Installation!Claim(c)
  <2>0. PICK i \in Intents : callbacks[c].of = i /\ callbacks[c].pc = "claim"
    BY <1>2 DEF Installation!Claim, ReturnIsSound
  <2>1. \/ /\ intents[i].state = "open" /\ intents' = [intents EXCEPT ![i].state = "consumed"]
           /\ Installation!CallbackTo(c, "exchange")
        \/ (Installation!CallbackTo(c, "refused") /\ UNCHANGED intents)
    BY <1>2, <2>0 DEF Installation!Claim
  <2>2. /\ callbacks' \in [Callbacks -> Returns] /\ callbacks'[c].of = i
        /\ \A d \in Callbacks : d # c => callbacks'[d] = callbacks[d]
        /\ callbacks'[c].pc = "exchange" \/ (callbacks'[c].pc = "refused" /\ UNCHANGED intents)
    <3>1. CASE Installation!CallbackTo(c, "exchange")
      BY <2>0, <3>1, Returning
    <3>2. CASE Installation!CallbackTo(c, "refused") /\ UNCHANGED intents
      BY <2>0, <3>2, Returning
    <3>3. QED
      BY <2>1, <3>1, <3>2
  <2>3. /\ intents' \in [Intents -> Started]
        /\ \A j \in Intents : j # i => intents'[j] = intents[j]
        /\ intents'[i].state = "consumed" \/ UNCHANGED intents
        /\ callbacks'[c].pc = "exchange" => intents[i].state = "open" /\ intents'[i].state = "consumed"
    BY <2>1, Returning DEF InstallationTypes, Started
  <2>4. UNCHANGED <<exchanged, connection, events, misses>>
    BY <1>2 DEF Installation!Claim
  <2>5. InstallationTypes'
    BY <2>2, <2>3, <2>4 DEF InstallationTypes
  <2>6. \A j \in Intents : IntentIsSound(j)'
    <3>1. ASSUME NEW j \in Intents, j # i PROVE IntentIsSound(j)'
      BY <2>2, <2>3, <2>4, <3>1 DEF IntentIsSound, Exchanging
    <3>2. CASE intents[i].state = "open" /\ callbacks'[c].pc = "exchange"
      BY <2>0, <2>2, <2>3, <2>4, <3>2 DEF IntentIsSound, Exchanging, InstallationTypes
    <3>3. CASE callbacks'[c].pc = "refused" /\ UNCHANGED intents
      BY <2>0, <2>2, <2>4, <3>3 DEF IntentIsSound, Exchanging
    <3>4. QED
      BY <2>2, <2>3, <3>1, <3>2, <3>3 DEF IntentIsSound, Exchanging
  <2>7. \A d \in Callbacks : ReturnIsSound(d)'
    BY <2>0, <2>2 DEF ReturnIsSound
  <2>8. QED
    BY <2>4, <2>5, <2>6, <2>7 DEF EventIsSound
<1>3. CASE Installation!Exchange(c)
  <2>0. PICK i \in Intents : callbacks[c].of = i /\ callbacks[c].pc = "exchange"
    BY <1>3 DEF Installation!Exchange, ReturnIsSound
  <2>1. /\ misses' \in 0..MaxMisses
        /\ exchanged' = [exchanged EXCEPT ![i] = @ + 1]
        /\ Installation!CallbackTo(c, "installed") \/ Installation!CallbackTo(c, "refused")
        /\ UNCHANGED <<intents, events>>
    BY <1>3, <2>0 DEF Installation!Exchange, Installation!Miss, InstallationTypes, InstallationConstants
  <2>2. connection' = connection \/ (callbacks[c].space = "expected" /\ Installation!Revised("active", callbacks[c].space))
    BY <1>3 DEF Installation!Exchange, Installation!Fits
  <2>3. /\ connection' \in Connections /\ connection'.space = "expected"
        /\ connection'.revision >= connection.revision
    BY <2>2 DEF Installation!Revised, InstallationTypes, Connections
  <2>4. /\ callbacks' \in [Callbacks -> Returns] /\ callbacks'[c].of = i /\ callbacks'[c].pc # "exchange"
        /\ \A d \in Callbacks : d # c => callbacks'[d] = callbacks[d]
    BY <2>0, <2>1, Returning
  <2>41. InstallationTypes'
    BY <2>1, <2>3, <2>4 DEF InstallationTypes
  <2>5. \A j \in Intents : IntentIsSound(j)'
    BY <2>0, <2>1, <2>4 DEF InstallationTypes, IntentIsSound, Exchanging
  <2>6. \A d \in Callbacks : ReturnIsSound(d)'
    BY <2>0, <2>4 DEF ReturnIsSound
  <2>7. \A e \in Events : EventIsSound(e)'
    BY <2>1, <2>3 DEF EventIsSound, InstallationTypes, Told, Connections
  <2>8. QED
    BY <2>3, <2>41, <2>5, <2>6, <2>7
<1>4. QED
  BY <1>1, <1>2, <1>3

(* An event is sent, and applied if its revision still stands.             *)
LEMMA EventStepKeepsSingle ==
  ASSUME InstallationConstants, Single, NEW e \in Events, Installation!Happen(e) \/ Installation!Deliver(e)
  PROVE  Single'
<1> USE DEF Single
<1>1. CASE Installation!Happen(e)
  BY <1>1 DEF Installation!Happen, InstallationTypes, Told, Connections, IntentIsSound, Exchanging,
     ReturnIsSound, EventIsSound
<1>2. CASE Installation!Deliver(e)
  <2>0. Installation!StatusAfter(events[e].kind) \in {"active", "reauth_required", "uninstalled", "revoked"}
    BY DEF Installation!StatusAfter
  <2>1. \/ UNCHANGED <<events, connection>> \/ (events' = [events EXCEPT ![e].pc = "answered"] /\ UNCHANGED connection)
        \/ /\ events[e].saw = connection.revision
           /\ Installation!Revised(Installation!StatusAfter(events[e].kind), connection.space)
           /\ \/ events' = [events EXCEPT ![e].pc = "answered", ![e].applied = @ + 1]
              \/ events' = [events EXCEPT ![e].applied = @ + 1]
    BY <1>2 DEF Installation!Deliver, Installation!Apply, Installation!EventTo
  <2>2. misses' \in 0..MaxMisses /\ UNCHANGED <<intents, callbacks, exchanged>>
    BY <1>2 DEF Installation!Deliver, Installation!Miss, InstallationTypes, InstallationConstants
  <2>3. connection' \in Connections /\ connection'.space = "expected"
    BY <2>0, <2>1, Revising DEF InstallationTypes
  <2>4. InstallationTypes'
    BY <2>1, <2>2, <2>3 DEF InstallationTypes, Told
  <2>5. \A x \in Events : EventIsSound(x)'
    BY <2>0, <2>1, Revising DEF InstallationTypes, Told, Connections, EventIsSound
  <2>6. QED
    BY <2>2, <2>3, <2>4, <2>5 DEF IntentIsSound, Exchanging, ReturnIsSound
<1>3. QED
  BY <1>1, <1>2

LEMMA SingleIsKept ==
  ASSUME InstallationConstants, Single, [Installation!Next]_Installation!installationVars PROVE Single'
<1>1. CASE Installation!Next
  BY <1>1, IntentStepKeepsSingle, CallbackStepKeepsSingle, EventStepKeepsSingle DEF Installation!Next
<1>2. CASE UNCHANGED Installation!installationVars
  BY <1>2 DEF Installation!installationVars, Single, InstallationTypes, IntentIsSound, Exchanging,
     ReturnIsSound, EventIsSound
<1>3. QED
  BY <1>1, <1>2

LEMMA SingleIsEnough ==
  ASSUME Single PROVE Installation!TypeOK /\ Installation!ExchangedOnce /\ Installation!EventAppliesOnce
BY DEF Single, InstallationTypes, Started, Returns, Connections, Told, IntentIsSound, EventIsSound,
   Installation!TypeOK,
   Installation!ExchangedOnce, Installation!EventAppliesOnce

(* A connection that was revoked is only revived by a callback or by an    *)
(* event that saw it revoked.                                              *)
LEMMA RevokedIsKept ==
  ASSUME Single, [Installation!Next]_Installation!installationVars,
         connection.status \in {"uninstalled", "revoked"}, connection'.status = "active"
  PROVE  \/ \E c \in Callbacks : callbacks[c].pc = "exchange" /\ callbacks'[c].pc # "exchange"
         \/ \E e \in Events : events[e].kind = "reauthorized" /\ events[e].saw = connection.revision
                              /\ events'[e] # events[e]
<1>0. connection' # connection
  OBVIOUS
<1>1. ASSUME NEW c \in Callbacks, Installation!Exchange(c)
      PROVE callbacks[c].pc = "exchange" /\ callbacks'[c].pc # "exchange"
  BY <1>1 DEF Installation!Exchange, Installation!CallbackTo, Single, InstallationTypes, Returns
<1>2. ASSUME NEW e \in Events, Installation!Deliver(e)
      PROVE  events[e].kind = "reauthorized" /\ events[e].saw = connection.revision /\ events'[e] # events[e]
  <2>1. /\ events[e].saw = connection.revision /\ Installation!Revised(Installation!StatusAfter(events[e].kind), connection.space)
        /\ events'[e].applied = events[e].applied + 1
    BY <1>0, <1>2 DEF Installation!Deliver, Installation!Apply, Installation!EventTo, Single, InstallationTypes,
       Told
  <2>2. Installation!StatusAfter(events[e].kind) = "active"
    BY <2>1 DEF Installation!Revised
  <2>3. events[e].kind = "reauthorized"
    BY <2>2 DEF Installation!StatusAfter
  <2>4. events'[e] # events[e]
    BY <2>1 DEF Single, InstallationTypes, Told
  <2>5. QED
    BY <2>1, <2>3, <2>4
<1>3. QED
  BY <1>0, <1>1, <1>2 DEF Installation!Next, Installation!installationVars, Installation!StartInstall,
     Installation!Store, Installation!Outlive, Installation!CallBack, Installation!Claim, Installation!Happen

(* What the run checks of an installation, of every behaviour.             *)
LEMMA InstallationHolds ==
  ASSUME InstallationConstants
  PROVE  Installation!Init /\ [][Installation!Next]_Installation!installationVars
           => [](Installation!TypeOK /\ Installation!ExchangedOnce
                 /\ Installation!EventAppliesOnce) /\ Installation!RevokedStays
<1>1. Installation!Init => Single
  BY SingleAtFirst
<1>2. Single /\ [Installation!Next]_Installation!installationVars => Single'
  BY SingleIsKept
<1>3. Single => Installation!TypeOK /\ Installation!ExchangedOnce /\ Installation!EventAppliesOnce
  BY SingleIsEnough
<1>4. Single /\ [Installation!Next]_Installation!installationVars =>
        [connection.status \in {"uninstalled", "revoked"} /\ connection'.status = "active"
           => \/ \E c \in Callbacks : callbacks[c].pc = "exchange" /\ callbacks'[c].pc # "exchange"
              \/ \E e \in Events : events[e].kind = "reauthorized" /\ events[e].saw = connection.revision
                                   /\ events'[e] # events[e]]_Installation!installationVars
  BY RevokedIsKept
<1>5. QED
  BY <1>1, <1>2, <1>3, <1>4, PTL DEF Installation!RevokedStays

-----------------------------------------------------------------------------
(* The runs of an experiment.                                              *)

(* Runs, upsets and the times are counted, a run keeps at least one recent *)
(* entry, and the body of a run ends before another may take over.         *)
AutonomyConstants ==
  /\ MaxRuns \in Nat /\ Limit \in Nat \ {0} /\ MaxTime \in Nat /\ MaxUpsets \in Nat
  /\ Stale \in Nat /\ Life \in Nat /\ Life <= Stale /\ Expires \in Nat /\ Grace \in Nat

(* What the experiment, its records and its runs can hold.                 *)
Ends == {"completed", "failed", "stale"}
Checkpoints == [count : Nat, first : Nat, last : Nat, done : Nat]
Invocations == [pc : {"none", "claim", "context", "agent", "complete", "fail", "done"}, at : 0..MaxTime]
HistoryTypes ==
  /\ active \in {0} \cup Autonomy!Runs /\ next \in Nat /\ recent \in Seq(Autonomy!Runs) /\ Len(recent) <= Limit
  /\ checkpoint \in Checkpoints /\ records \in [Autonomy!Runs -> {"none"} \cup Ends] /\ seqs \in [Autonomy!Runs -> Nat]
RunTypes ==
  /\ time \in 0..MaxTime /\ alarm \in BOOLEAN /\ upsets \in 0..MaxUpsets
  /\ cron \in [Autonomy!Runs -> Invocations] /\ containers \subseteq Autonomy!Runs

Claimed(r) == cron[r].pc \notin {"none", "claim"}
(* The claimed runs are the first of the sequence: the oldest are in the   *)
(* checkpoint, those since then are recent, in order.                      *)
HistoryIsSound ==
  /\ active # 0 => records[active] = "none" /\ seqs[active] = next
  /\ \A i \in DOMAIN recent : records[recent[i]] # "none"
  /\ Autonomy!RunsAreCounted /\ CompletedAreCounted
(* The record of a run says how far it got: the active run is the only one *)
(* without an end, and the body of a run lives only while it is not stale. *)
RunIsSound(r) ==
  /\ cron[r].at <= time
  /\ active = r \/ records[r] # "none" => Claimed(r)
  /\ cron[r].pc \in {"none", "claim", "context", "complete"} => r \notin containers
  /\ r \in containers \/ cron[r].pc \in {"context", "agent"}
       => active = r \/ Autonomy!Deadline(r) <= time \/ records[r] = "failed"
Counted == HistoryTypes /\ RunTypes /\ HistoryIsSound /\ \A r \in Autonomy!Runs : RunIsSound(r)

(* Completed runs, those since the checkpoint among them.                  *)
Winners == {r \in Autonomy!Runs : records[r] = "completed"}
RecentWinners == {i \in DOMAIN recent : records[recent[i]] = "completed"}

(* Counting the positions of a sequence: they are finite, one more counts  *)
(* one more, and when the oldest leaves the rest moves up.                 *)
LEMMA Interval == ASSUME NEW n \in Nat, NEW S, S \subseteq 1..n PROVE IsFiniteSet(S) /\ Cardinality(S) \in Nat
<1>1. IsFiniteSet(1..n)
  BY FS_Interval
<1>2. S \in SUBSET (1..n)
  OBVIOUS
<1>3. IsFiniteSet(S)
  BY <1>1, <1>2, FS_Subset
<1>4. QED
  BY <1>3, FS_CardinalityType

LEMMA OneMore ==
  ASSUME NEW S, IsFiniteSet(S), NEW x, x \notin S PROVE Cardinality(S \cup {x}) = Cardinality(S) + 1
BY FS_AddElement

LEMMA Shifting ==
  ASSUME NEW n \in Nat \ {0}, NEW S, S \subseteq 1..n, 
         NEW T, T \subseteq 1..(n - 1), \A i \in 1..(n - 1) : i \in T <=> i + 1 \in S
  PROVE  Cardinality(S) = Cardinality(T) + (IF 1 \in S THEN 1 ELSE 0)
<1>1. PICK R : R = S \ {1}
  OBVIOUS
<1>2. IsFiniteSet(R) /\ IsFiniteSet(T)
  <2>1. R \subseteq 1..n /\ T \subseteq 1..(n - 1) /\ n - 1 \in Nat
    BY <1>1
  <2>2. QED
    BY <2>1, Interval
<1>3. Cardinality(S) = Cardinality(R) + (IF 1 \in S THEN 1 ELSE 0)
  <2>1. CASE 1 \in S
    <3>1. S = R \cup {1} /\ 1 \notin R
      BY <1>1, <2>1
    <3>2. QED
      BY <1>2, <2>1, <3>1, OneMore
  <2>2. CASE 1 \notin S
    <3>1. S = R
      BY <1>1, <2>2
    <3>2. Cardinality(R) \in Nat
      BY <1>2, FS_CardinalityType
    <3>3. QED
      BY <2>2, <3>1, <3>2
  <2>3. QED
    BY <2>1, <2>2
<1>4. Cardinality(R) = Cardinality(T)
  <2> DEFINE f == [i \in T |-> i + 1]
  <2>1. f \in [T -> R]
    BY <1>1
  <2>2. \A i, j \in T : f[i] = f[j] => i = j
    OBVIOUS
  <2>3. \A k \in R : \E i \in T : f[i] = k
    <3>1. SUFFICES ASSUME NEW k \in R PROVE k - 1 \in T /\ f[k - 1] = k
      OBVIOUS
    <3>2. QED
      BY <1>1
  <2>4. f \in Bijection(T, R)
    BY <2>1, <2>2, <2>3, Fun_IsBij
  <2>5. ExistsBijection(T, R)
    BY <2>4, Fun_ExistsBij
  <2>6. QED
    BY <1>2, <2>5, FS_Bijection
<1>5. QED
  BY <1>3, <1>4

(* Counted is inductive, and says all that the run checks.                 *)
LEMMA CountedAtFirst == ASSUME AutonomyConstants, Autonomy!Init PROVE Counted
<1>1. HistoryTypes
  <2>1. recent \in Seq(Autonomy!Runs) /\ Len(recent) = 0
    BY DEF Autonomy!Init
  <2>2. QED
    BY <2>1 DEF Autonomy!Init, HistoryTypes, Autonomy!Runs, Checkpoints, Autonomy!NoCheckpoint, Ends,
       AutonomyConstants
<1>2. RunTypes
  <2>1. 0 \in 0..MaxTime /\ 0 \in 0..MaxUpsets
    BY DEF AutonomyConstants
  <2>2. QED
    BY <2>1 DEF Autonomy!Init, RunTypes, Invocations
<1>3. CompletedAreCounted
  <2>1. RecentWinners = {} /\ Winners = {}
    BY DEF Autonomy!Init, RecentWinners, Winners
  <2>2. Cardinality({}) = 0
    BY FS_EmptySet
  <2>3. Cardinality(RecentWinners) = 0 /\ Cardinality(Winners) = 0 /\ checkpoint.done = 0
    BY <2>1, <2>2 DEF Autonomy!Init, Autonomy!NoCheckpoint
  <2>4. QED
    BY <2>3 DEF CompletedAreCounted, RecentWinners, Winners
<1>4. HistoryIsSound
  BY <1>3 DEF Autonomy!Init, HistoryIsSound, Autonomy!RunsAreCounted, Autonomy!NoCheckpoint
<1>5. \A r \in Autonomy!Runs : RunIsSound(r)
  BY DEF Autonomy!Init, RunIsSound, Claimed, Autonomy!Runs, AutonomyConstants
<1>6. QED
  BY <1>1, <1>2, <1>4, <1>5 DEF Counted

(* A terminal record is counted once: appended to the recent, the oldest   *)
(* of them counted in the checkpoint when there are too many.              *)
LEMMA Recording ==
  ASSUME AutonomyConstants, HistoryTypes, HistoryIsSound, active # 0,
         NEW status \in Ends, Autonomy!Record(active, status)
  PROVE  /\ records' \in [Autonomy!Runs -> {"none"} \cup Ends] /\ records'[active] = status
         /\ \A q \in Autonomy!Runs : q # active => records'[q] = records[q]
         /\ recent' \in Seq(Autonomy!Runs) /\ Len(recent') <= Limit
         /\ \A i \in DOMAIN recent' : recent'[i] = active \/ \E j \in DOMAIN recent : recent'[i] = recent[j]
         /\ \A i \in DOMAIN recent' : records'[recent'[i]] # "none"
         /\ checkpoint' \in Checkpoints /\ checkpoint'.count + Len(recent') = next
         /\ checkpoint'.last = checkpoint'.count
         /\ \A i \in DOMAIN recent' : seqs[recent'[i]] = checkpoint'.count + i
         /\ CompletedAreCounted'
<1> DEFINE n == Len(recent)
           won == IF status = "completed" THEN 1 ELSE 0
<1>0. /\ n \in Nat /\ DOMAIN recent = 1..n /\ \A i \in 1..n : recent[i] \in Autonomy!Runs
      /\ active \in Autonomy!Runs /\ next \in Nat
      /\ checkpoint \in Checkpoints /\ records \in [Autonomy!Runs -> {"none"} \cup Ends] /\ seqs \in [Autonomy!Runs -> Nat]
  BY DEF HistoryTypes
<1>1. /\ records' = [records EXCEPT ![active] = status] /\ records[active] = "none"
      /\ \A i \in 1..n : recent[i] # active
  BY <1>0 DEF Autonomy!Record, HistoryIsSound
<1>2. /\ records' \in [Autonomy!Runs -> {"none"} \cup Ends] /\ records'[active] = status
      /\ \A q \in Autonomy!Runs : q # active => records'[q] = records[q]
  BY <1>0, <1>1 DEF Ends
<1>3. Cardinality(Winners') = Cardinality(Winners) + won /\ Cardinality(Winners) \in Nat
  <2>1. IsFiniteSet(Winners) /\ Cardinality(Winners) \in Nat
    <3>1. Winners \subseteq 1..MaxRuns /\ MaxRuns \in Nat
      BY DEF Winners, Autonomy!Runs, AutonomyConstants
    <3>2. QED
      BY <3>1, Interval
  <2>2. active \notin Winners /\ Winners' = IF status = "completed" THEN Winners \cup {active} ELSE Winners
    BY <1>0, <1>1, <1>2 DEF Winners
  <2>3. QED
    BY <2>1, <2>2, OneMore
<1>4. /\ RecentWinners \subseteq 1..n /\ IsFiniteSet(RecentWinners) /\ Cardinality(RecentWinners) \in Nat
      /\ \A i \in 1..n : i \in RecentWinners <=> records[recent[i]] = "completed"
  <2>1. RecentWinners \subseteq 1..n
    BY <1>0 DEF RecentWinners
  <2>2. IsFiniteSet(RecentWinners) /\ Cardinality(RecentWinners) \in Nat
    BY <1>0, <2>1, Interval
  <2>3. QED
    BY <1>0, <2>1, <2>2 DEF RecentWinners
<1>5. /\ checkpoint.count + n + 1 = next /\ checkpoint.done \in Nat /\ checkpoint.count \in Nat
      /\ checkpoint.done + Cardinality(RecentWinners) = Cardinality(Winners)
  BY <1>0 DEF HistoryIsSound, Autonomy!RunsAreCounted, CompletedAreCounted, RecentWinners, Winners, Checkpoints
<1>6. CompletedAreCounted' <=> checkpoint'.done + Cardinality(RecentWinners') = Cardinality(Winners')
  BY DEF CompletedAreCounted, RecentWinners, Winners
<1>9. Limit \in Nat /\ Limit # 0 /\ n <= Limit
  BY DEF HistoryTypes, AutonomyConstants
<1>7. CASE n < Limit
  <2>1. recent' = Append(recent, active) /\ checkpoint' = checkpoint
    BY <1>7 DEF Autonomy!Record
  <2>2. /\ recent' \in Seq(Autonomy!Runs) /\ Len(recent') = n + 1 /\ DOMAIN recent' = 1..(n + 1)
        /\ \A i \in 1..n : recent'[i] = recent[i]
        /\ recent'[n + 1] = active
    BY <1>0, <2>1, AppendProperties DEF HistoryTypes
  <2>3. n + 1 \notin RecentWinners
    BY <1>0, <1>4
  <2>4. RecentWinners' = IF status = "completed" THEN RecentWinners \cup {n + 1} ELSE RecentWinners
    <3>1. \A i \in 1..(n + 1) : i \in RecentWinners' <=> records'[recent'[i]] = "completed"
      BY <2>2 DEF RecentWinners
    <3>2. RecentWinners' \subseteq 1..(n + 1)
      BY <2>2 DEF RecentWinners
    <3>3. \A i \in 1..n : i \in RecentWinners' <=> i \in RecentWinners
      BY <1>0, <1>1, <1>2, <1>4, <2>2, <3>1
    <3>4. n + 1 \in RecentWinners' <=> status = "completed"
      BY <1>0, <1>2, <2>2, <3>1
    <3>5. \A i \in 1..(n + 1) : i = n + 1 \/ i \in 1..n
      BY <1>0
    <3>6. RecentWinners \subseteq 1..(n + 1)
      BY <1>0, <1>4
    <3>7. CASE status = "completed"
      BY <1>0, <3>2, <3>3, <3>4, <3>5, <3>6, <3>7
    <3>8. CASE status # "completed"
      <4>1. n + 1 \notin RecentWinners' /\ n + 1 \notin RecentWinners
        BY <2>3, <3>4, <3>8
      <4>2. \A i \in 1..(n + 1) : i \in RecentWinners' <=> i \in RecentWinners
        BY ONLY <4>1, <3>3, <3>5
      <4>3. RecentWinners' = RecentWinners
        BY ONLY <4>2, <3>2, <3>6
      <4>4. QED
        BY <3>8, <4>3
    <3>9. QED
      BY <3>7, <3>8
  <2>5. Cardinality(RecentWinners') = Cardinality(RecentWinners) + won
    BY <1>4, <2>3, <2>4, OneMore
  <2>6. CompletedAreCounted'
    BY <1>3, <1>4, <1>5, <1>6, <2>1, <2>5
  <2>7. \A i \in DOMAIN recent' : recent'[i] = active \/ \E j \in DOMAIN recent : recent'[i] = recent[j]
    BY <1>0, <2>2
  <2>8. \A i \in DOMAIN recent' : records'[recent'[i]] # "none"
    BY <1>0, <1>1, <1>2, <2>2 DEF HistoryIsSound, Ends
  <2>9. \A i \in DOMAIN recent' : seqs[recent'[i]] = checkpoint'.count + i
    BY <1>0, <1>5, <2>1, <2>2 DEF HistoryIsSound, Autonomy!RunsAreCounted
  <2>10. /\ checkpoint' \in Checkpoints /\ checkpoint'.count + Len(recent') = next
         /\ checkpoint'.last = checkpoint'.count
    BY <1>0, <1>5, <2>1, <2>2 DEF HistoryIsSound, Autonomy!RunsAreCounted
  <2>11. Len(recent') <= Limit
    BY <1>0, <1>7, <1>9, <2>2
  <2>12. QED
    BY <1>2, <2>2, <2>6, <2>7, <2>8, <2>9, <2>10, <2>11
<1>8. CASE n = Limit
  <2>0. n >= 1 /\ recent # <<>> /\ 1 \in 1..n /\ n \in Nat \ {0} /\ n - 1 \in Nat
    BY <1>0, <1>8, <1>9
  <2>1. /\ recent' = Append(Tail(recent), active)
        /\ checkpoint' = Autonomy!Fold(checkpoint, recent[1], records[recent[1]])
    BY <1>8, <2>0 DEF Autonomy!Record, AutonomyConstants
  <2>2. Tail(recent) \in Seq(Autonomy!Runs) /\ Len(Tail(recent)) = n - 1
        /\ \A i \in 1..(n - 1) : Tail(recent)[i] = recent[i + 1]
    BY <1>0, <2>0, HeadTailProperties DEF HistoryTypes
  <2>3. /\ recent' \in Seq(Autonomy!Runs) /\ Len(recent') = n /\ DOMAIN recent' = 1..n
        /\ \A i \in 1..(n - 1) : recent'[i] = recent[i + 1]
        /\ recent'[n] = active
    BY <1>0, <2>0, <2>1, <2>2, AppendProperties
  <2>4. /\ checkpoint' \in Checkpoints /\ checkpoint'.count = checkpoint.count + 1
        /\ checkpoint'.last = seqs[recent[1]]
        /\ checkpoint'.done = checkpoint.done + (IF 1 \in RecentWinners THEN 1 ELSE 0)
    BY <1>0, <1>4, <2>0, <2>1 DEF Autonomy!Fold, Checkpoints
  <2>5. checkpoint'.last = checkpoint'.count
    BY <1>0, <1>5, <2>0, <2>4 DEF HistoryIsSound, Autonomy!RunsAreCounted
  <2>6. PICK T : T = {i \in 1..(n - 1) : i + 1 \in RecentWinners}
    OBVIOUS
  <2>7. Cardinality(RecentWinners) = Cardinality(T) + (IF 1 \in RecentWinners THEN 1 ELSE 0)
    <3>1. RecentWinners \subseteq 1..n
      BY <1>4
    <3>2. T \subseteq 1..(n - 1) /\ \A i \in 1..(n - 1) : i \in T <=> i + 1 \in RecentWinners
      BY <2>6
    <3>3. n \in Nat \ {0}
      BY <2>0
    <3>4. QED
      BY ONLY <3>1, <3>2, <3>3, Shifting, Zenon
  <2>8. IsFiniteSet(T) /\ Cardinality(T) \in Nat /\ n \notin T
    <3>1. T \subseteq 1..(n - 1) /\ n - 1 \in Nat
      BY <2>0, <2>6
    <3>2. IsFiniteSet(T) /\ Cardinality(T) \in Nat
      BY ONLY <3>1, Interval
    <3>3. n \notin T
      BY <2>0, <3>1
    <3>4. QED
      BY <3>2, <3>3
  <2>9. RecentWinners' = IF status = "completed" THEN T \cup {n} ELSE T
    <3>1. \A i \in 1..n : i \in RecentWinners' <=> records'[recent'[i]] = "completed"
      BY <2>3 DEF RecentWinners
    <3>2. RecentWinners' \subseteq 1..n
      BY <2>3 DEF RecentWinners
    <3>3. ASSUME NEW i \in 1..(n - 1) PROVE i \in RecentWinners' <=> i \in T
      <4>1. i \in 1..n /\ i + 1 \in 1..n
        BY <2>0
      <4>2. records'[recent'[i]] = records[recent[i + 1]]
        BY <1>0, <1>1, <1>2, <2>3, <4>1
      <4>3. QED
        BY <1>4, <2>6, <3>1, <4>1, <4>2
    <3>4. n \in RecentWinners' <=> status = "completed"
      BY <1>2, <2>0, <2>3, <3>1
    <3>5. \A i \in 1..n : i = n \/ i \in 1..(n - 1)
      BY <2>0
    <3>6. T \subseteq 1..(n - 1) /\ 1..(n - 1) \subseteq 1..n
      BY <2>0, <2>6
    <3>7. CASE status = "completed"
      BY <2>0, <3>2, <3>3, <3>4, <3>5, <3>6, <3>7
    <3>8. CASE status # "completed"
      <4>1. n \notin RecentWinners'
        BY <3>4, <3>8
      <4>2. RecentWinners' = T
        BY ONLY <2>8, <4>1, <3>2, <3>3, <3>5, <3>6
      <4>3. QED
        BY <3>8, <4>2
    <3>9. QED
      BY <3>7, <3>8
  <2>10. Cardinality(RecentWinners') = Cardinality(T) + won
    BY <2>8, <2>9, OneMore
  <2>11. CompletedAreCounted'
    BY <1>3, <1>4, <1>5, <1>6, <2>4, <2>7, <2>8, <2>10
  <2>12. \A i \in 1..n : i = n \/ (i \in 1..(n - 1) /\ i + 1 \in 1..n)
    BY <2>0
  <2>13. \A i \in DOMAIN recent' : recent'[i] = active \/ \E j \in DOMAIN recent : recent'[i] = recent[j]
    BY <1>0, <2>3, <2>12
  <2>14. \A i \in DOMAIN recent' : records'[recent'[i]] # "none"
    <3>1. \A i \in 1..n : records[recent[i]] # "none"
      BY <1>0 DEF HistoryIsSound
    <3>2. status # "none"
      BY DEF Ends
    <3>3. ASSUME NEW i \in 1..n PROVE records'[recent'[i]] # "none"
      <4>1. CASE i = n
        BY <1>2, <2>3, <3>2, <4>1
      <4>2. CASE i # n
        <5>1. i + 1 \in 1..n /\ recent'[i] = recent[i + 1]
          BY <2>3, <2>12, <4>2
        <5>2. QED
          BY <1>0, <1>1, <1>2, <3>1, <5>1
      <4>3. QED
        BY <4>1, <4>2
    <3>4. QED
      BY <2>3, <3>3
  <2>15. \A i \in DOMAIN recent' : seqs[recent'[i]] = checkpoint'.count + i
    <3>1. \A i \in 1..n : seqs[recent[i]] = checkpoint.count + i
      BY <1>0 DEF HistoryIsSound, Autonomy!RunsAreCounted
    <3>2. seqs[active] = next
      BY DEF HistoryIsSound
    <3>3. ASSUME NEW i \in 1..n PROVE seqs[recent'[i]] = checkpoint'.count + i
      <4>1. CASE i = n
        BY <1>0, <1>5, <2>3, <2>4, <3>2, <4>1
      <4>2. CASE i # n
        <5>1. i + 1 \in 1..n /\ recent'[i] = recent[i + 1] /\ i \in Nat
          <6>1. i \in 1..(n - 1) /\ i + 1 \in 1..n
            BY <2>12, <4>2
          <6>2. recent'[i] = recent[i + 1]
            BY <2>3, <6>1
          <6>3. i \in Nat
            BY ONLY <6>1, <2>0
          <6>4. QED
            BY <6>1, <6>2, <6>3
        <5>2. seqs[recent[i + 1]] = checkpoint.count + (i + 1)
          BY <3>1, <5>1
        <5>3. QED
          <6>1. checkpoint.count \in Nat /\ checkpoint'.count = checkpoint.count + 1
            BY <1>5, <2>4
          <6>2. seqs[recent'[i]] = checkpoint.count + (i + 1)
            BY <5>1, <5>2
          <6>3. QED
            BY ONLY <5>1, <6>1, <6>2
      <4>3. QED
        BY <4>1, <4>2
    <3>4. QED
      BY <2>3, <3>3
  <2>16. checkpoint'.count + Len(recent') = next /\ Len(recent') <= Limit
    BY <1>0, <1>5, <1>8, <2>3, <2>4 DEF AutonomyConstants
  <2>17. QED
    BY <1>2, <2>3, <2>4, <2>5, <2>11, <2>13, <2>14, <2>15, <2>16
<1>10. n < Limit \/ n = Limit
  <2>1. n \in Nat
    BY <1>0
  <2>2. QED
    BY ONLY <2>1, <1>9
<1>11. QED
  BY ONLY <1>7, <1>8, <1>10
(* What a run does to the others, and to what was recorded.                *)
LEMMA Going ==
  ASSUME RunTypes, NEW r \in Autonomy!Runs
  PROVE  \A pc \in {"none", "claim", "context", "agent", "complete", "fail", "done"} : Autonomy!To(r, pc) =>
           /\ cron' \in [Autonomy!Runs -> Invocations] /\ cron'[r].pc = pc
           /\ \A q \in Autonomy!Runs : cron'[q].at = cron[q].at /\ Autonomy!Deadline(q)' = Autonomy!Deadline(q)
           /\ \A q \in Autonomy!Runs : q # r => cron'[q] = cron[q]
BY DEF RunTypes, Invocations, Autonomy!To, Autonomy!Deadline

LEMMA SameHistory ==
  ASSUME HistoryTypes, HistoryIsSound, UNCHANGED Autonomy!history
  PROVE  HistoryTypes' /\ HistoryIsSound'
<1>1. HistoryTypes'
  BY DEF HistoryTypes, Autonomy!history
<1>2. CompletedAreCounted'
  BY DEF HistoryIsSound, CompletedAreCounted, Autonomy!history
<1>3. QED
  BY <1>1, <1>2 DEF HistoryIsSound, Autonomy!RunsAreCounted, Autonomy!history

LEMMA Bystanders ==
  ASSUME NEW q \in Autonomy!Runs, RunIsSound(q), time' = time, cron'[q] = cron[q],
         Autonomy!Deadline(q)' = Autonomy!Deadline(q),
         q \in containers' <=> q \in containers,
         active' = q => active = q, active = q => active' = q \/ Autonomy!Deadline(q) <= time,
         records'[q] \in {"none", records[q]} \/ active = q, records[q] = "failed" => records'[q] = "failed"
  PROVE  RunIsSound(q)'
BY DEF RunIsSound, Claimed

(* A report of a run that is the active one, and one that is not.          *)
LEMMA Reporting ==
  ASSUME AutonomyConstants, HistoryTypes, HistoryIsSound, NEW r \in Autonomy!Runs,
         NEW status \in {"completed", "failed"}, Autonomy!Report(r, status)
  PROVE  /\ HistoryTypes' /\ HistoryIsSound'
         /\ \A q \in Autonomy!Runs : q # r => records'[q] = records[q]
         /\ \A q \in Autonomy!Runs : q # r => (active' = q <=> active = q)
         /\ active = r => records'[r] = status
         /\ records[r] # "none" => records'[r] = records[r]
<1>0. r # 0
  BY DEF Autonomy!Runs
<1>1. CASE records[r] = "none" /\ active = r
  <2>1. Autonomy!Record(active, status) /\ active' = 0 /\ UNCHANGED <<next, seqs>> /\ active # 0 /\ status \in Ends
    BY <1>0, <1>1 DEF Autonomy!Report, Ends
  <2>2. /\ records' \in [Autonomy!Runs -> {"none"} \cup Ends] /\ records'[active] = status
        /\ \A q \in Autonomy!Runs : q # active => records'[q] = records[q]
        /\ recent' \in Seq(Autonomy!Runs) /\ Len(recent') <= Limit
        /\ \A i \in DOMAIN recent' : records'[recent'[i]] # "none"
        /\ checkpoint' \in Checkpoints /\ checkpoint'.count + Len(recent') = next
        /\ checkpoint'.last = checkpoint'.count
        /\ \A i \in DOMAIN recent' : seqs[recent'[i]] = checkpoint'.count + i
        /\ CompletedAreCounted'
    BY <2>1, Recording
  <2>3. HistoryTypes'
    BY <2>1, <2>2 DEF HistoryTypes
  <2>4. Autonomy!RunsAreCounted'
    BY <2>1, <2>2, <2>3 DEF Autonomy!RunsAreCounted, HistoryTypes, Checkpoints
  <2>5. HistoryIsSound'
    BY <2>1, <2>2, <2>4 DEF HistoryIsSound
  <2>6. QED
    BY <1>0, <1>1, <2>1, <2>2, <2>3, <2>5 DEF Autonomy!Runs
<1>2. CASE ~(records[r] = "none" /\ active = r)
  <2>1. UNCHANGED Autonomy!history
    BY <1>2 DEF Autonomy!Report
  <2>2. active # r
    BY <1>0, <1>2 DEF HistoryIsSound
  <2>3. HistoryTypes' /\ HistoryIsSound'
    BY <2>1, SameHistory
  <2>4. QED
    BY <2>1, <2>2, <2>3 DEF Autonomy!history
<1>3. QED
  BY <1>1, <1>2

(* The clock ticks, and the alarm clears everything.                       *)
LEMMA WorldKeepsCounted ==
  ASSUME AutonomyConstants, Counted, Autonomy!Tick \/ Autonomy!Clear PROVE Counted'
<1>0. \A r \in Autonomy!Runs : Autonomy!Deadline(r) \in Int /\ Autonomy!Deadline(r) <= Expires
  BY DEF Counted, RunTypes, Invocations, Autonomy!Deadline, AutonomyConstants
<1>1. CASE Autonomy!Tick
  <2>1. HistoryTypes' /\ HistoryIsSound'
    BY <1>1, SameHistory DEF Autonomy!Tick, Counted
  <2>2. RunTypes'
    BY <1>1 DEF Autonomy!Tick, Counted, RunTypes, AutonomyConstants
  <2>3. ASSUME NEW r \in Autonomy!Runs PROVE RunIsSound(r)'
    <3>1. Autonomy!Deadline(r)' = Autonomy!Deadline(r) /\ time' = time + 1 /\ time \in Int /\ cron[r].at \in Int
      BY <1>1 DEF Autonomy!Tick, Autonomy!Deadline, Counted, RunTypes, Invocations, AutonomyConstants
    <3>2. RunIsSound(r) /\ UNCHANGED <<cron, active, records, containers>>
      BY <1>1 DEF Autonomy!Tick, Counted, Autonomy!history
    <3>3. QED
      BY <1>0, <3>1, <3>2 DEF RunIsSound, Claimed
  <2>4. QED
    BY <2>1, <2>2, <2>3 DEF Counted
<1>2. CASE Autonomy!Clear
  <2>1. HistoryTypes'
    <3>1. recent' \in Seq(Autonomy!Runs) /\ Len(recent') = 0
      BY <1>2 DEF Autonomy!Clear
    <3>2. QED
      BY <1>2, <3>1 DEF Autonomy!Clear, HistoryTypes, Checkpoints, Autonomy!NoCheckpoint, AutonomyConstants
  <2>2. RunTypes'
    BY <1>2 DEF Autonomy!Clear, Counted, RunTypes
  <2>3. CompletedAreCounted'
    <3>1. RecentWinners' = {} /\ Winners' = {}
      BY <1>2 DEF Autonomy!Clear, RecentWinners, Winners
    <3>2. Cardinality({}) = 0
      BY FS_EmptySet
    <3>3. Cardinality(RecentWinners') = 0 /\ Cardinality(Winners') = 0 /\ checkpoint'.done = 0
      BY <1>2, <3>1, <3>2 DEF Autonomy!Clear, Autonomy!NoCheckpoint
    <3>4. QED
      BY <3>3 DEF CompletedAreCounted, RecentWinners, Winners
  <2>4. HistoryIsSound'
    BY <1>2, <2>3 DEF Autonomy!Clear, HistoryIsSound, Autonomy!RunsAreCounted, Autonomy!NoCheckpoint
  <2>5. ASSUME NEW r \in Autonomy!Runs PROVE RunIsSound(r)'
    <3>1. Autonomy!Deadline(r)' = Autonomy!Deadline(r) /\ time' = time /\ time >= Expires + Grace /\ time \in Int
      BY <1>2 DEF Autonomy!Clear, Autonomy!Deadline, Counted, RunTypes, AutonomyConstants
    <3>2. Autonomy!Deadline(r)' <= time'
      BY <1>0, <3>1 DEF AutonomyConstants
    <3>3. RunIsSound(r) /\ UNCHANGED <<cron, containers>> /\ active' # r /\ records'[r] = "none"
      BY <1>2 DEF Autonomy!Clear, Counted, Autonomy!Runs
    <3>4. QED
      BY <3>1, <3>2, <3>3 DEF RunIsSound
  <2>6. QED
    BY <2>1, <2>2, <2>4, <2>5 DEF Counted
<1>3. QED
  BY <1>1, <1>2

(* The cron starts a run, which claims the experiment.                     *)
LEMMA StartKeepsCounted ==
  ASSUME AutonomyConstants, Counted, NEW r \in Autonomy!Runs, Autonomy!Start(r) PROVE Counted'
<1>1. HistoryTypes' /\ HistoryIsSound'
  BY SameHistory DEF Autonomy!Start, Counted
<1>2. /\ cron' = [cron EXCEPT ![r] = [pc |-> "claim", at |-> time]] /\ cron[r].pc = "none"
      /\ UNCHANGED <<time, alarm, active, records, containers, upsets>>
  BY DEF Autonomy!Start, Autonomy!At, Autonomy!history
<1>3. RunTypes' /\ cron'[r] = [pc |-> "claim", at |-> time] /\ \A q \in Autonomy!Runs : q # r => cron'[q] = cron[q]
  BY <1>2 DEF Counted, RunTypes, Invocations
<1>4. RunIsSound(r)'
  BY <1>2, <1>3 DEF Counted, RunIsSound, Claimed, RunTypes, AutonomyConstants
<1>5. ASSUME NEW q \in Autonomy!Runs, q # r PROVE RunIsSound(q)'
  BY <1>2, <1>3, <1>5, Bystanders DEF Counted, Autonomy!Deadline
<1>6. QED
  BY <1>1, <1>3, <1>4, <1>5 DEF Counted

LEMMA ClaimKeepsCounted ==
  ASSUME AutonomyConstants, Counted, NEW r \in Autonomy!Runs, Autonomy!Claim(r) PROVE Counted'
<1>0. /\ cron[r].pc = "claim" /\ r # 0 /\ active # r /\ records[r] = "none" /\ r \notin containers
      /\ UNCHANGED <<time, containers, upsets>> /\ RunIsSound(r) /\ RunTypes /\ HistoryTypes /\ HistoryIsSound
      /\ \A q \in Autonomy!Runs : RunIsSound(q)
  BY DEF Autonomy!Claim, Autonomy!At, Counted, RunIsSound, Claimed, Autonomy!Runs
<1>1. CASE active # 0 /\ cron[r].at <= cron[active].at + Stale
  <2>1. Autonomy!To(r, "done") /\ UNCHANGED <<alarm, Autonomy!history>>
    BY <1>1 DEF Autonomy!Claim
  <2>2. HistoryTypes' /\ HistoryIsSound' /\ UNCHANGED <<active, records>>
    BY <1>0, <2>1, SameHistory DEF Autonomy!history
  <2>3. /\ cron' \in [Autonomy!Runs -> Invocations] /\ cron'[r].pc = "done"
        /\ \A q \in Autonomy!Runs : cron'[q].at = cron[q].at /\ Autonomy!Deadline(q)' = Autonomy!Deadline(q)
        /\ \A q \in Autonomy!Runs : q # r => cron'[q] = cron[q]
    BY <1>0, <2>1, Going
  <2>4. RunTypes'
    BY <1>0, <2>1, <2>3 DEF RunTypes
  <2>5. RunIsSound(r)'
    BY <1>0, <2>2, <2>3 DEF RunIsSound, Claimed
  <2>6. ASSUME NEW q \in Autonomy!Runs, q # r PROVE RunIsSound(q)'
    BY <1>0, <2>2, <2>3, <2>6, Bystanders
  <2>7. QED
    BY <2>2, <2>4, <2>5, <2>6 DEF Counted
<1>2. CASE ~(active # 0 /\ cron[r].at <= cron[active].at + Stale)
  <2>1. /\ IF active # 0 THEN Autonomy!Record(active, "stale") ELSE UNCHANGED <<recent, checkpoint, records>>
        /\ next' = next + 1 /\ active' = r /\ seqs' = [seqs EXCEPT ![r] = next']
        /\ alarm' = TRUE /\ Autonomy!To(r, "context")
    BY <1>2 DEF Autonomy!Claim
  <2>2. /\ cron' \in [Autonomy!Runs -> Invocations] /\ cron'[r].pc = "context"
        /\ \A q \in Autonomy!Runs : cron'[q].at = cron[q].at /\ Autonomy!Deadline(q)' = Autonomy!Deadline(q)
        /\ \A q \in Autonomy!Runs : q # r => cron'[q] = cron[q]
    BY <1>0, <2>1, Going
  <2>3. /\ records' \in [Autonomy!Runs -> {"none"} \cup Ends]
        /\ \A q \in Autonomy!Runs : q # active => records'[q] = records[q]
        /\ recent' \in Seq(Autonomy!Runs) /\ Len(recent') <= Limit
        /\ \A i \in DOMAIN recent' : records'[recent'[i]] # "none"
        /\ checkpoint' \in Checkpoints /\ checkpoint'.count + Len(recent') = next
        /\ checkpoint'.last = checkpoint'.count
        /\ \A i \in DOMAIN recent' : seqs[recent'[i]] = checkpoint'.count + i
        /\ CompletedAreCounted'
    <3>1. CASE active # 0
      <4>1. Autonomy!Record(active, "stale") /\ "stale" \in Ends
        BY <2>1, <3>1 DEF Ends
      <4>2. QED
        BY <1>0, <3>1, <4>1, Recording
    <3>2. CASE active = 0
      <4>1. UNCHANGED <<recent, checkpoint, records>>
        BY <2>1, <3>2
      <4>2. CompletedAreCounted'
        BY <1>0, <4>1 DEF HistoryIsSound, CompletedAreCounted
      <4>3. QED
        BY <1>0, <3>2, <4>1, <4>2 DEF HistoryTypes, HistoryIsSound, Autonomy!RunsAreCounted, Checkpoints
    <3>3. QED
      BY <3>1, <3>2
  <2>4. HistoryTypes' /\ seqs'[r] = next' /\ records'[r] = "none"
        /\ \A q \in Autonomy!Runs : q # r => seqs'[q] = seqs[q]
    <3>1. seqs' = [seqs EXCEPT ![r] = next'] /\ next' \in Nat /\ seqs \in [Autonomy!Runs -> Nat]
      BY <1>0, <2>1 DEF HistoryTypes
    <3>2. seqs' \in [Autonomy!Runs -> Nat] /\ seqs'[r] = next'
          /\ \A q \in Autonomy!Runs : q # r => seqs'[q] = seqs[q]
      BY <3>1
    <3>3. records'[r] = "none"
      BY <1>0, <2>3
    <3>4. active' \in {0} \cup Autonomy!Runs
      BY <2>1
    <3>5. QED
      BY <2>3, <3>1, <3>2, <3>3, <3>4 DEF HistoryTypes
  <2>5. \A i \in DOMAIN recent' : recent'[i] \in Autonomy!Runs /\ recent'[i] # r
    BY <2>3, <2>4 DEF HistoryTypes
  <2>6. Autonomy!RunsAreCounted'
    BY <1>0, <2>1, <2>3, <2>4, <2>5 DEF Autonomy!RunsAreCounted, HistoryTypes, Checkpoints
  <2>7. HistoryIsSound'
    BY <2>1, <2>3, <2>4, <2>6 DEF HistoryIsSound
  <2>8. RunTypes'
    BY <1>0, <2>1, <2>2 DEF RunTypes
  <2>9. RunIsSound(r)'
    BY <1>0, <2>1, <2>2 DEF RunIsSound, Claimed
  <2>10. ASSUME NEW q \in Autonomy!Runs, q # r PROVE RunIsSound(q)'
    <3>1. active = q => Autonomy!Deadline(q) <= time
      <4>1. SUFFICES ASSUME active = q PROVE Autonomy!Deadline(q) <= time
        OBVIOUS
      <4>2. /\ ~(cron[r].at <= cron[q].at + Stale) /\ cron[r].at <= time
            /\ cron[r].at \in Int /\ cron[q].at \in Int /\ time \in Int
        BY <1>0, <1>2, <4>1 DEF RunIsSound, RunTypes, Invocations, Autonomy!Runs, AutonomyConstants
      <4>3. QED
        BY <4>2 DEF Autonomy!Deadline, AutonomyConstants
    <3>2. records[q] = "failed" => records'[q] = "failed"
      BY <1>0, <2>3 DEF HistoryIsSound, Autonomy!Runs
    <3>3. QED
      BY <1>0, <2>1, <2>2, <2>3, <2>10, <3>1, <3>2, Bystanders
  <2>11. QED
    BY <2>4, <2>7, <2>8, <2>9, <2>10 DEF Counted
<1>3. QED
  BY <1>1, <1>2
(* The steps of a run after its claim, and its failures.                   *)
LEMMA StepKeepsCounted ==
  ASSUME AutonomyConstants, Counted, NEW r \in Autonomy!Runs,
         Autonomy!Enter(r) \/ Autonomy!Finish(r) \/ Autonomy!Fail(r) \/ Autonomy!Complete(r) \/ Autonomy!ReportFailure(r) \/ Autonomy!Lose(r) \/ Autonomy!Die(r)
  PROVE  Counted'
<1>0. /\ time' = time /\ r # 0 /\ RunIsSound(r) /\ RunTypes /\ HistoryTypes /\ HistoryIsSound
      /\ \A q \in Autonomy!Runs : RunIsSound(q)
  BY DEF Counted, Autonomy!Runs, Autonomy!Enter, Autonomy!Finish, Autonomy!Fail, Autonomy!Complete,
     Autonomy!ReportFailure, Autonomy!Lose, Autonomy!Die
<1>1. upsets' \in 0..MaxUpsets /\ alarm' \in BOOLEAN
  <2>1. upsets' = upsets \/ Autonomy!Upset
    BY DEF Autonomy!Enter, Autonomy!Finish, Autonomy!Fail, Autonomy!Complete, Autonomy!ReportFailure,
       Autonomy!Lose, Autonomy!Die
  <2>2. upsets' \in 0..MaxUpsets
    BY <1>0, <2>1 DEF RunTypes, Autonomy!Upset, AutonomyConstants
  <2>3. alarm' = alarm \/ alarm' = TRUE
    BY DEF Autonomy!Enter, Autonomy!Finish, Autonomy!Fail, Autonomy!Complete, Autonomy!ReportFailure,
       Autonomy!Lose, Autonomy!Die
  <2>4. QED
    BY <1>0, <2>2, <2>3 DEF RunTypes
<1>2. \E pc \in {"agent", "complete", "fail", "done"} : Autonomy!To(r, pc)
  BY DEF Autonomy!Enter, Autonomy!Finish, Autonomy!Fail, Autonomy!Complete, Autonomy!ReportFailure,
     Autonomy!Lose, Autonomy!Die
<1>3. /\ cron' \in [Autonomy!Runs -> Invocations]
      /\ \A q \in Autonomy!Runs : cron'[q].at = cron[q].at /\ Autonomy!Deadline(q)' = Autonomy!Deadline(q)
      /\ \A q \in Autonomy!Runs : q # r => cron'[q] = cron[q]
  BY <1>0, <1>2, Going
<1>4. containers' \subseteq Autonomy!Runs
      /\ \A q \in Autonomy!Runs : q # r => (q \in containers' <=> q \in containers)
  BY <1>0 DEF RunTypes, Autonomy!Enter, Autonomy!Finish, Autonomy!Fail, Autonomy!Complete,
     Autonomy!ReportFailure, Autonomy!Lose, Autonomy!Die
<1>5. RunTypes'
  BY <1>0, <1>1, <1>3, <1>4 DEF RunTypes
<1>6. SUFFICES /\ HistoryTypes' /\ HistoryIsSound' /\ RunIsSound(r)'
               /\ \A q \in Autonomy!Runs : q # r => (active' = q <=> active = q) /\ records'[q] = records[q]
  BY <1>0, <1>3, <1>4, <1>5, Bystanders DEF Counted
<1>7. CASE UNCHANGED Autonomy!history /\ (Autonomy!Enter(r) \/ Autonomy!Finish(r) \/ Autonomy!Fail(r) \/ Autonomy!Die(r))
  <2>1. HistoryTypes' /\ HistoryIsSound' /\ UNCHANGED <<active, records>>
    BY <1>0, <1>7, SameHistory DEF Autonomy!history
  <2>2. RunIsSound(r)'
    <3>1. CASE Autonomy!Enter(r)
      <4>1. Autonomy!To(r, "agent") /\ cron[r].pc = "context"
        BY <3>1 DEF Autonomy!Enter, Autonomy!At
      <4>2. cron'[r].pc = "agent"
        BY <1>0, <4>1, Going
      <4>3. QED
        BY <1>0, <1>3, <2>1, <4>1, <4>2 DEF RunIsSound, Claimed
    <3>2. CASE Autonomy!Finish(r)
      <4>1. Autonomy!To(r, "complete") /\ cron[r].pc = "agent" /\ containers' = containers \ {r}
        BY <3>2 DEF Autonomy!Finish, Autonomy!At
      <4>2. cron'[r].pc = "complete"
        BY <1>0, <4>1, Going
      <4>3. QED
        BY <1>0, <1>3, <2>1, <4>1, <4>2 DEF RunIsSound, Claimed
    <3>3. CASE Autonomy!Fail(r)
      <4>1. Autonomy!To(r, "fail") /\ cron[r].pc \in {"context", "agent"}
            /\ containers' \in {containers, containers \ {r}}
        BY <3>3 DEF Autonomy!Fail
      <4>2. cron'[r].pc = "fail"
        BY <1>0, <4>1, Going
      <4>3. QED
        BY <1>0, <1>3, <2>1, <4>1, <4>2 DEF RunIsSound, Claimed
    <3>4. CASE Autonomy!Die(r)
      <4>1. Autonomy!To(r, "done") /\ containers' = containers
        BY <3>4 DEF Autonomy!Die
      <4>2. cron'[r].pc = "done"
        BY <1>0, <4>1, Going
      <4>3. QED
        BY <1>0, <1>3, <2>1, <4>1, <4>2 DEF RunIsSound, Claimed
    <3>5. QED
      BY <1>7, <3>1, <3>2, <3>3, <3>4
  <2>3. QED
    BY <2>1, <2>2
<1>8. CASE Autonomy!At(r, "complete") /\ containers' = containers
           /\ (Autonomy!Report(r, "completed") \/ UNCHANGED Autonomy!history)
           /\ (Autonomy!To(r, "fail") \/ Autonomy!To(r, "done"))
  <2>1. /\ HistoryTypes' /\ HistoryIsSound'
        /\ \A q \in Autonomy!Runs : q # r => records'[q] = records[q] /\ (active' = q <=> active = q)
    <3>1. CASE UNCHANGED Autonomy!history
      BY <1>0, <3>1, SameHistory DEF Autonomy!history
    <3>2. CASE Autonomy!Report(r, "completed")
      BY <1>0, <3>2, Reporting
    <3>3. QED
      BY <1>8, <3>1, <3>2
  <2>2. cron'[r].pc \in {"fail", "done"}
    BY <1>0, <1>8, Going
  <2>3. r \notin containers'
    BY <1>0, <1>8 DEF RunIsSound, Autonomy!At
  <2>4. RunIsSound(r)'
    BY <1>0, <1>3, <2>2, <2>3 DEF RunIsSound, Claimed
  <2>5. QED
    BY <2>1, <2>4
<1>9. CASE Autonomy!At(r, "fail") /\ containers' = containers /\ Autonomy!To(r, "done")
           /\ (Autonomy!Report(r, "failed") \/ UNCHANGED Autonomy!history)
  <2>1. /\ HistoryTypes' /\ HistoryIsSound'
        /\ \A q \in Autonomy!Runs : q # r => records'[q] = records[q] /\ (active' = q <=> active = q)
        /\ active = r => active' = r \/ records'[r] = "failed"
        /\ records[r] = "failed" => records'[r] = "failed"
    <3>1. CASE UNCHANGED Autonomy!history
      BY <1>0, <3>1, SameHistory DEF Autonomy!history
    <3>2. CASE Autonomy!Report(r, "failed")
      BY <1>0, <3>2, Reporting
    <3>3. QED
      BY <1>9, <3>1, <3>2
  <2>2. cron'[r].pc = "done"
    BY <1>0, <1>9, Going
  <2>3. RunIsSound(r)'
    BY <1>0, <1>3, <1>9, <2>1, <2>2 DEF RunIsSound, Claimed
  <2>4. QED
    BY <2>1, <2>3
<1>10. CASE /\ Autonomy!At(r, "claim") /\ active = 0 /\ next' = next + 1 /\ active' = r
            /\ seqs' = [seqs EXCEPT ![r] = next']
            /\ UNCHANGED <<recent, checkpoint, records, containers>> /\ Autonomy!To(r, "done")
  <2>1. records[r] = "none" /\ r \notin containers
    BY <1>0, <1>10 DEF RunIsSound, Autonomy!At, Claimed
  <2>2. /\ seqs' \in [Autonomy!Runs -> Nat] /\ seqs'[r] = next' /\ next' \in Nat
        /\ \A q \in Autonomy!Runs : q # r => seqs'[q] = seqs[q]
    BY <1>0, <1>10 DEF HistoryTypes
  <2>3. HistoryTypes'
    BY <1>0, <1>10, <2>2 DEF HistoryTypes
  <2>4. CompletedAreCounted'
    BY <1>0, <1>10 DEF HistoryIsSound, CompletedAreCounted
  <2>5. \A i \in DOMAIN recent : recent[i] \in Autonomy!Runs /\ recent[i] # r
    BY <1>0, <2>1 DEF HistoryTypes, HistoryIsSound
  <2>6. Autonomy!RunsAreCounted'
    BY <1>0, <1>10, <2>2, <2>5 DEF HistoryIsSound, Autonomy!RunsAreCounted, HistoryTypes, Checkpoints
  <2>7. HistoryIsSound'
    BY <1>0, <1>10, <2>1, <2>2, <2>4, <2>6 DEF HistoryIsSound
  <2>8. cron'[r].pc = "done"
    BY <1>0, <1>10, Going
  <2>9. RunIsSound(r)'
    BY <1>0, <1>3, <1>10, <2>1, <2>8 DEF RunIsSound, Claimed
  <2>10. QED
    BY <1>0, <1>10, <2>3, <2>7, <2>9 DEF Autonomy!Runs
<1>11. QED
  BY <1>7, <1>8, <1>9, <1>10 DEF Autonomy!Enter, Autonomy!Finish, Autonomy!Fail, Autonomy!Complete,
     Autonomy!ReportFailure, Autonomy!Lose, Autonomy!Die

LEMMA CountedIsKept == ASSUME AutonomyConstants, Counted, [Autonomy!Next]_Autonomy!autonomyVars PROVE Counted'
<1>1. CASE Autonomy!Next
  BY <1>1, WorldKeepsCounted, StartKeepsCounted, ClaimKeepsCounted, StepKeepsCounted DEF Autonomy!Next,
     Autonomy!Proceed
<1>2. CASE UNCHANGED Autonomy!autonomyVars
  <2>1. HistoryTypes' /\ HistoryIsSound'
    BY <1>2, SameHistory DEF Counted, Autonomy!autonomyVars, Autonomy!history
  <2>2. RunTypes' /\ \A r \in Autonomy!Runs : RunIsSound(r)'
    BY <1>2 DEF Counted, Autonomy!autonomyVars, Autonomy!history, RunTypes, RunIsSound, Claimed,
       Autonomy!Deadline
  <2>3. QED
    BY <2>1, <2>2 DEF Counted
<1>3. QED
  BY <1>1, <1>2

LEMMA CountedIsEnough ==
  ASSUME AutonomyConstants, Counted
         PROVE Autonomy!TypeOK /\ Autonomy!RunsAreCounted /\ CompletedAreCounted /\ Autonomy!OneWriter
<1>1. Autonomy!TypeOK
  BY DEF Counted, HistoryTypes, RunTypes, Autonomy!TypeOK, Ends, Checkpoints, Invocations
<1>2. Autonomy!OneWriter
  <2> SUFFICES ASSUME NEW q \in Autonomy!Runs, NEW r \in Autonomy!Runs, q # r, Autonomy!MayWrite(q), Autonomy!MayWrite(r)
               PROVE  "failed" \in {records[q], records[r]}
    BY DEF Autonomy!OneWriter
  <2>1. time \in Int /\ ~(Autonomy!Deadline(q) <= time) /\ ~(Autonomy!Deadline(r) <= time)
    <3>1. time \in Int /\ Autonomy!Deadline(q) \in Int /\ Autonomy!Deadline(r) \in Int
      BY DEF Counted, RunTypes, Invocations, Autonomy!Deadline, AutonomyConstants
    <3>2. QED
      BY <3>1 DEF Autonomy!MayWrite
  <2>2. QED
    BY <2>1 DEF Counted, RunIsSound, Autonomy!MayWrite
<1>3. QED
  BY <1>1, <1>2 DEF Counted, HistoryIsSound

(* And no terminal record is written over.                                 *)
LEMMA RecordsStay ==
  ASSUME AutonomyConstants, Counted, [Autonomy!Next]_Autonomy!autonomyVars, NEW r \in Autonomy!Runs,
         records[r] # "none"
  PROVE  records'[r] = records[r] \/ next' = 0
<1>0. active # r /\ HistoryTypes /\ HistoryIsSound
  BY DEF Counted, HistoryIsSound, Autonomy!Runs
<1>1. ASSUME NEW q \in Autonomy!Runs, Autonomy!Claim(q), active # 0, Autonomy!Record(active, "stale")
      PROVE records'[r] = records[r]
  BY <1>0, <1>1 DEF Autonomy!Record, HistoryTypes
<1>2. ASSUME NEW q \in Autonomy!Runs, NEW status \in {"completed", "failed"}, Autonomy!Report(q, status)
      PROVE records'[r] = records[r]
  BY <1>0, <1>2, Reporting
<1>3. QED
  BY <1>1, <1>2 DEF Autonomy!Next, Autonomy!Proceed, Autonomy!autonomyVars, Autonomy!history, Autonomy!Tick,
     Autonomy!Clear, Autonomy!Start, Autonomy!Claim, Autonomy!Enter, Autonomy!Finish, Autonomy!Fail,
     Autonomy!Complete,
    Autonomy!ReportFailure, Autonomy!Lose, Autonomy!Die

(* What the run checks of an experiment, of every behaviour.               *)
LEMMA AutonomyHolds ==
  ASSUME AutonomyConstants
  PROVE  Autonomy!Init /\ [][Autonomy!Next]_Autonomy!autonomyVars
           => [](Autonomy!TypeOK /\ Autonomy!RunsAreCounted /\ CompletedAreCounted
                 /\ Autonomy!OneWriter) /\ Autonomy!RecordIsFinal
<1>1. Autonomy!Init => Counted
  BY CountedAtFirst
<1>2. Counted /\ [Autonomy!Next]_Autonomy!autonomyVars => Counted'
  BY CountedIsKept
<1>3. Counted => Autonomy!TypeOK /\ Autonomy!RunsAreCounted /\ CompletedAreCounted /\ Autonomy!OneWriter
  BY CountedIsEnough
<1>4. Counted /\ [Autonomy!Next]_Autonomy!autonomyVars =>
        [\A r \in Autonomy!Runs : records[r] # "none" => records'[r] = records[r] \/ next' = 0]_Autonomy!autonomyVars
  BY RecordsStay
<1>5. QED
  BY <1>1, <1>2, <1>3, <1>4, PTL DEF Autonomy!RecordIsFinal

-----------------------------------------------------------------------------
(* The contract ledger.                                                    *)

(* Envelopes are numbered; retries and slips are counted.                  *)
ContractConstants ==
  Envelopes \subseteq Nat \ {0} /\ IsFiniteSet(Envelopes) /\ MaxRetries \in Nat /\ MaxSlips \in Nat

(* What the sheet, the cards, the queue and the desk can hold.             *)
Rows == [of : Envelopes, no : Nat \ {0}, status : Contracts!Statuses]
Cards == [status : {"none", "pending", "applying", "approved", "rejected"}, told : BOOLEAN,
          row : [of : Envelopes \cup {0}, no : Nat, status : Contracts!Statuses]]
Messages == [kind : Contracts!Kinds, of : Envelopes \cup Days, tries : 0..(MaxRetries + 1), state : {"queued", "acked", "dead"}]
Desks == [pc : {"none", "claim", "read", "update", "save", "post", "mark", "complete", "append", "verify", "finish"},
          job : Nat, seen : [Envelopes -> Contracts!Statuses], todo : SUBSET Envelopes, fresh : SUBSET Envelopes]
ContractTypes ==
  /\ mode \in {"audit", "existing", "full"} /\ docs \in [Envelopes -> Contracts!Statuses] /\ sheet \in Seq(Rows)
  /\ cards \in [Envelopes -> Cards] /\ runs \in [Days -> {"none", "running", "failed", "completed"}]
  /\ asked \in [Envelopes -> Nat] /\ jobs \in Seq(Messages) /\ desk \in Desks /\ outages \in 0..MaxSlips

(* A decision about an envelope was taken on its card.                     *)
JobIsSound(i) ==
  /\ jobs[i].kind = "sync" => jobs[i].of \in Days
  /\ jobs[i].kind # "sync" => jobs[i].of \in Envelopes /\ asked[jobs[i].of] > 0
  /\ jobs[i].state = "queued" => jobs[i].tries <= MaxRetries
Approved(e) == \E i \in DOMAIN jobs : jobs[i].kind = "approved" /\ jobs[i].of = e
CardIsSound(e) ==
  /\ asked[e] <= 1 /\ (asked[e] > 0 => cards[e].status # "none")
  /\ cards[e].status = "none" => cards[e] = Contracts!NoCard
  /\ cards[e].status # "none" => cards[e].row.of = e
  /\ e \in Contracts!Listed(sheet) /\ cards[e].status # "none" => Approved(e)
  /\ cards[e].status = "approved" => e \in Contracts!Listed(sheet)
(* No envelope has two rows and no number is given twice, but to a row     *)
(* whose envelope is already on it.                                        *)
SheetIsSound ==
  /\ Contracts!RowsAreUnique
  /\ \E m \in Nat : (m = 0 \/ \E i \in DOMAIN sheet : sheet[i].no = m) /\ \A i \in DOMAIN sheet : sheet[i].no <= m

(* What a run of the day has reached: the rows it read, brought up to      *)
(* date, and no card for an envelope that has a row.                       *)
Current(i) == sheet[i].status = desk.seen[sheet[i].of]
SyncIsSound ==
  /\ desk.pc \in {"claim", "read", "update", "save", "post", "mark", "complete"}
  /\ desk.pc \in {"update", "save", "post", "mark"} => \A e \in desk.fresh : e \notin Contracts!Listed(sheet)
  /\ desk.pc \in {"post", "mark"} => desk.fresh # {} /\ cards[Contracts!Min(desk.fresh)].status # "none"
  /\ desk.pc = "post" => asked[Contracts!Min(desk.fresh)] = 0
  /\ mode # "audit" /\ desk.pc \in {"save", "post", "mark", "complete"} => \A i \in DOMAIN sheet : Current(i)
  /\ mode # "audit" /\ desk.pc = "update" => \A i \in DOMAIN sheet : Current(i) \/ sheet[i].of \in desk.todo
(* What a decision has reached: its row is appended while the card is      *)
(* being applied.                                                          *)
DecisionIsSound ==
  /\ desk.pc \in {"claim", "read", "append", "verify", "finish"}
  /\ desk.pc # "claim" => Contracts!This.kind = "approved"
  /\ desk.pc = "append" => Contracts!This.of \notin Contracts!Listed(sheet)
  /\ desk.pc = "finish" => Contracts!This.of \in Contracts!Listed(sheet)
(* The desk works on a queued job, at the step its kind has.               *)
Busy == desk.job \in DOMAIN jobs /\ Contracts!This.state = "queued"
DeskIsSound ==
  \/ desk = Contracts!NoWork
  \/ Busy /\ ((Contracts!This.kind = "sync" /\ SyncIsSound) \/ (Contracts!This.kind # "sync" /\ DecisionIsSound))

Truthful ==
  /\ ContractTypes /\ SheetIsSound /\ DeskIsSound
  /\ \A i \in DOMAIN jobs : JobIsSound(i)
  /\ \A e \in Envelopes : CardIsSound(e)

(* The least of a finite set of numbers exists, and is one of them; and    *)
(* the number after the last of the sheet is free.                         *)
LEMMA LeastExists ==
  ASSUME NEW S, S \subseteq Nat, S # {} PROVE \E x \in S : \A y \in S : x <= y
<1>1. \A x, y \in Nat : <<y, x>> \in OpToRel(<, Nat) <=> y < x
  BY DEF OpToRel
<1>2. PICK R : IsWellFoundedOn(R, Nat) /\ \A x, y \in Nat : <<y, x>> \in R <=> y < x
  BY <1>1, NatLessThanWellFounded
<1>3. PICK x \in S : \A y \in S : ~ (<<y, x>> \in R)
  BY <1>2, WFMin
<1>4. \A y \in S : ~ (y < x)
  BY <1>2, <1>3, Zenon
<1>5. QED
  BY <1>4

LEMMA LeastIsIn == ASSUME ContractConstants, NEW S, S \subseteq Envelopes, S # {} PROVE Contracts!Min(S) \in S
<1>1. S \subseteq Nat
  BY DEF ContractConstants
<1>2. PICK x \in S : \A y \in S : x <= y
  BY <1>1, LeastExists
<1>3. QED
  BY <1>2 DEF Contracts!Min

LEMMA NextIsFree ==
  ASSUME ContractTypes, SheetIsSound
  PROVE  Contracts!NextNo(sheet) \in Nat \ {0} /\ \A i \in DOMAIN sheet : sheet[i].no < Contracts!NextNo(sheet)
<1> DEFINE N == {0} \cup {sheet[i].no : i \in DOMAIN sheet}
<1>1. N \subseteq Nat /\ \A i \in DOMAIN sheet : sheet[i].no \in N
  <2>1. \A i \in DOMAIN sheet : sheet[i].no \in Nat
    <3>1. \A i \in DOMAIN sheet : sheet[i] \in Rows
      BY DEF ContractTypes
    <3>2. QED
      BY <3>1 DEF Rows
  <2>2. QED
    BY <2>1
<1>2. PICK m \in N : \A k \in N : m >= k
  <2>1. PICK m \in Nat : (m = 0 \/ \E i \in DOMAIN sheet : sheet[i].no = m) /\ \A i \in DOMAIN sheet : sheet[i].no <= m
    BY DEF SheetIsSound
  <2>2. m \in N /\ \A i \in DOMAIN sheet : m >= sheet[i].no
    BY <1>1, <2>1
  <2>3. m >= 0
    BY <2>1
  <2>4. QED
    BY <2>2, <2>3
<1> HIDE DEF N
<1>3. Contracts!Max(N) \in N /\ \A k \in N : Contracts!Max(N) >= k
  BY <1>2 DEF Contracts!Max
<1>4. Contracts!NextNo(sheet) = 1 + Contracts!Max(N)
  BY DEF Contracts!NextNo, N
<1>5. Contracts!Max(N) \in Nat /\ \A i \in DOMAIN sheet : sheet[i].no \in Nat /\ Contracts!Max(N) >= sheet[i].no
  BY <1>1, <1>3
<1>6. QED
  BY <1>4, <1>5

(* Truthful is inductive, and says all that the run checks.                *)
LEMMA TruthfulAtFirst == ASSUME ContractConstants, Contracts!Init PROVE Truthful
<1>1. ContractTypes
  <2>1. sheet \in Seq(Rows) /\ jobs \in Seq(Messages)
    <3>1. \A e \in Envelopes : Contracts!Row(e, 1, "sent") \in Rows
      BY DEF Contracts!Row, Rows, Contracts!Statuses
    <3>2. \A e \in Envelopes : <<Contracts!Row(e, 1, "sent")>> \in Seq(Rows)
      BY <3>1
    <3>3. sheet = <<>> \/ \E e \in Envelopes : sheet = <<Contracts!Row(e, 1, "sent")>>
      BY DEF Contracts!Init
    <3>4. sheet \in Seq(Rows)
      <4>1. <<>> \in Seq(Rows)
        OBVIOUS
      <4>2. QED
        BY <3>2, <3>3, <4>1
    <3>5. QED
      BY <3>4 DEF Contracts!Init
  <2>2. Contracts!NoWork \in Desks /\ Contracts!NoCard \in Cards
    BY DEF Contracts!NoWork, Desks, Contracts!Statuses, Contracts!NoCard, Cards, Contracts!Row
  <2>3. 0 \in 0..MaxSlips
    BY DEF ContractConstants
  <2>4. docs \in [Envelopes -> Contracts!Statuses]
    BY DEF Contracts!Init, Contracts!Statuses
  <2>5. QED
    BY <2>1, <2>2, <2>3, <2>4 DEF Contracts!Init, ContractTypes
<1>2. SheetIsSound
  <2>1. CASE sheet = <<>>
    BY <2>1 DEF SheetIsSound, Contracts!RowsAreUnique
  <2>2. ASSUME NEW e \in Envelopes, sheet = <<Contracts!Row(e, 1, "sent")>> PROVE SheetIsSound
    <3>1. DOMAIN sheet = {1} /\ sheet[1].no = 1
      BY <2>2 DEF Contracts!Row
    <3>2. QED
      BY <3>1 DEF SheetIsSound, Contracts!RowsAreUnique
  <2>3. QED
    BY <2>1, <2>2 DEF Contracts!Init
<1>3. DeskIsSound /\ \A i \in DOMAIN jobs : JobIsSound(i)
  BY DEF Contracts!Init, DeskIsSound
<1>4. \A e \in Envelopes : CardIsSound(e)
  BY DEF Contracts!Init, CardIsSound, Contracts!NoCard
<1>5. QED
  BY <1>1, <1>2, <1>3, <1>4 DEF Truthful

(* A card that is not written stays sound; settling a job takes it off the *)
(* desk.                                                                   *)
LEMMA CardStays ==
  ASSUME NEW e \in Envelopes, CardIsSound(e), cards'[e] = cards[e], asked'[e] = asked[e],
         e \in Contracts!Listed(sheet)' <=> e \in Contracts!Listed(sheet), Approved(e) => Approved(e)'
  PROVE  CardIsSound(e)'
BY DEF CardIsSound

LEMMA Settling ==
  ASSUME ContractConstants, Truthful, Busy, Contracts!Acks \/ Contracts!Retries
  PROVE  /\ jobs' \in Seq(Messages) /\ DOMAIN jobs' = DOMAIN jobs
         /\ \A i \in DOMAIN jobs : jobs'[i].kind = jobs[i].kind /\ jobs'[i].of = jobs[i].of
         /\ \A i \in DOMAIN jobs : jobs'[i].state = "queued" => jobs'[i].tries <= MaxRetries
         /\ \A e \in Envelopes : Approved(e) => Approved(e)'
         /\ desk' = Contracts!NoWork /\ desk' \in Desks /\ DeskIsSound'
<1>1. /\ jobs \in Seq(Messages) /\ desk.job \in DOMAIN jobs /\ Contracts!This.state = "queued" /\ Contracts!This.tries \in 0..MaxRetries
      /\ \A i \in DOMAIN jobs : jobs[i].state = "queued" => jobs[i].tries <= MaxRetries
  <2>1. jobs \in Seq(Messages) /\ desk.job \in DOMAIN jobs /\ Contracts!This.state = "queued"
    BY DEF Truthful, ContractTypes, Busy
  <2>2. jobs[desk.job] \in Messages
    BY <2>1
  <2>3. QED
    BY <2>1, <2>2 DEF Truthful, JobIsSound, Contracts!This, Messages, ContractConstants
<1>2. PICK s \in {"queued", "acked", "dead"}, t \in 0..(MaxRetries + 1) :
        /\ jobs' = [jobs EXCEPT ![desk.job] = [jobs[desk.job] EXCEPT !.state = s, !.tries = t]]
        /\ s = "queued" => t <= MaxRetries
  <2>1. CASE Contracts!Acks
    <3>1. jobs' = [jobs EXCEPT ![desk.job] = [jobs[desk.job] EXCEPT !.state = "acked", !.tries = Contracts!This.tries]]
      BY <1>1, <2>1 DEF Contracts!Acks, Contracts!This, Messages
    <3>2. Contracts!This.tries \in 0..(MaxRetries + 1)
      BY <1>1 DEF ContractConstants
    <3>3. QED
      BY <3>1, <3>2
  <2>2. CASE Contracts!Retries
    <3>1. Contracts!This.tries + 1 \in 0..(MaxRetries + 1)
          /\ (Contracts!This.tries # MaxRetries => Contracts!This.tries + 1 <= MaxRetries)
      BY <1>1 DEF ContractConstants
    <3>2. jobs' = [jobs EXCEPT ![desk.job] = [jobs[desk.job] EXCEPT
                     !.state = IF Contracts!This.tries = MaxRetries THEN "dead" ELSE "queued", !.tries = Contracts!This.tries + 1]]
      BY <1>1, <2>2 DEF Contracts!Retries, Contracts!This, Messages
    <3>3. QED
      BY <3>1, <3>2
  <2>3. QED
    BY <2>1, <2>2
<1>3. jobs' \in Seq(Messages) /\ DOMAIN jobs' = DOMAIN jobs
  <2>1. [jobs[desk.job] EXCEPT !.state = s, !.tries = t] \in Messages
    <3>1. jobs[desk.job] \in Messages
      BY <1>1
    <3>2. QED
      BY <3>1 DEF Messages
  <2>2. QED
    BY <1>1, <1>2, <2>1
<1>4. \A i \in DOMAIN jobs : /\ jobs'[i].kind = jobs[i].kind /\ jobs'[i].of = jobs[i].of
                             /\ jobs'[i].state = "queued" => jobs'[i].tries <= MaxRetries
  BY <1>1, <1>2 DEF Messages
<1>5. desk' = Contracts!NoWork /\ desk' \in Desks /\ DeskIsSound'
  BY DEF Contracts!Acks, Contracts!Retries, DeskIsSound, Contracts!NoWork, Desks, Contracts!Statuses
<1>6. QED
  BY <1>3, <1>4, <1>5 DEF Approved
(* An envelope is signed, a message sent, a message received.              *)
LEMMA WorldKeepsTruthful ==
  ASSUME ContractConstants, Truthful,
         \/ \E e \in Envelopes : Contracts!Sign(e)
         \/ \E kind \in Contracts!Kinds, of \in Envelopes \cup Days : Contracts!Send(kind, of)
         \/ \E i \in DOMAIN jobs : Contracts!Receive(i)
  PROVE  Truthful'
<1>0. ContractTypes /\ SheetIsSound /\ DeskIsSound /\ \A i \in DOMAIN jobs : JobIsSound(i)
  BY DEF Truthful
<1>1. ASSUME NEW e \in Envelopes, Contracts!Sign(e) PROVE Truthful'
  <2>1. docs' \in [Envelopes -> Contracts!Statuses]
    BY <1>0, <1>1 DEF ContractTypes, Contracts!Sign, Contracts!Statuses
  <2>2. ContractTypes'
    BY <1>0, <1>1, <2>1 DEF ContractTypes, Contracts!Sign
  <2>3. QED
    BY <1>1, <2>2 DEF Truthful, Contracts!Sign, SheetIsSound, Contracts!RowsAreUnique, JobIsSound, Approved,
       CardIsSound, Contracts!Listed,
      DeskIsSound, Busy, Contracts!This, SyncIsSound, Current, DecisionIsSound
<1>2. ASSUME NEW kind \in Contracts!Kinds, NEW of \in Envelopes \cup Days, Contracts!Send(kind, of) PROVE Truthful'
  <2> DEFINE job == [kind |-> kind, of |-> of, tries |-> 0, state |-> "queued"]
  <2>0. PICK n \in Nat : n = Len(jobs)
    BY <1>0 DEF ContractTypes
  <2>1. /\ job \in Messages /\ jobs \in Seq(Messages) /\ jobs' = Append(jobs, job)
        /\ UNCHANGED <<mode, docs, sheet, cards, runs, asked, desk, outages>>
        /\ kind = "sync" => of \in Days
        /\ kind # "sync" => of \in Envelopes /\ asked[of] > 0
    BY <1>0, <1>2 DEF Contracts!Send, ContractTypes, Messages, ContractConstants
  <2>2. /\ jobs' \in Seq(Messages) /\ DOMAIN jobs = 1..n /\ DOMAIN jobs' = 1..(n + 1)
        /\ \A i \in 1..n : jobs'[i] = jobs[i]
        /\ jobs'[n + 1] = job
    BY <2>0, <2>1, AppendProperties
  <2>3. DOMAIN jobs \subseteq DOMAIN jobs' /\ \A i \in DOMAIN jobs' : i \in DOMAIN jobs \/ i = n + 1
    BY <2>2
  <2>4. ContractTypes'
    BY <1>0, <2>1, <2>2 DEF ContractTypes
  <2>5. SheetIsSound'
    BY <1>0, <2>1 DEF SheetIsSound, Contracts!RowsAreUnique
  <2>6. \A i \in DOMAIN jobs' : JobIsSound(i)'
    <3>1. ASSUME NEW i \in DOMAIN jobs PROVE JobIsSound(i)'
      BY <1>0, <2>1, <2>2 DEF JobIsSound
    <3>2. JobIsSound(n + 1)'
      <4>1. jobs'[n + 1].kind = kind /\ jobs'[n + 1].of = of /\ jobs'[n + 1].tries = 0 /\ asked' = asked
        BY <2>1, <2>2
      <4>2. jobs'[n + 1].tries <= MaxRetries
        BY <4>1 DEF ContractConstants
      <4>3. jobs'[n + 1].kind = "sync" => jobs'[n + 1].of \in Days
        BY <2>1, <4>1
      <4>4. jobs'[n + 1].kind # "sync" => jobs'[n + 1].of \in Envelopes /\ asked'[jobs'[n + 1].of] > 0
        BY <2>1, <4>1
      <4>5. QED
        BY <4>2, <4>3, <4>4 DEF JobIsSound
    <3>3. ASSUME NEW i \in DOMAIN jobs' PROVE JobIsSound(i)'
      <4>1. CASE i \in DOMAIN jobs
        BY <3>1, <4>1
      <4>2. CASE i = n + 1
        BY <3>2, <4>2
      <4>3. QED
        BY <2>3, <4>1, <4>2
    <3>4. QED
      BY <3>3
  <2>7. ASSUME NEW e \in Envelopes PROVE CardIsSound(e)'
    <3>1. Approved(e) => Approved(e)'
      BY <2>2, <2>3 DEF Approved
    <3>2. QED
      BY <2>1, <3>1, CardStays DEF Truthful, Contracts!Listed
  <2>8. DeskIsSound'
    <3>1. CASE desk = Contracts!NoWork
      BY <2>1, <3>1 DEF DeskIsSound
    <3>2. CASE desk # Contracts!NoWork
      <4>0. Busy
        BY <1>0, <3>2 DEF DeskIsSound
      <4>1. Busy' /\ Contracts!This' = Contracts!This
        BY <2>1, <2>2, <2>3, <4>0 DEF Busy, Contracts!This
      <4>2. (SyncIsSound => SyncIsSound') /\ (DecisionIsSound => DecisionIsSound')
        BY <2>1, <4>1 DEF SyncIsSound, DecisionIsSound, Current, Contracts!Listed
      <4>3. QED
        BY <1>0, <3>2, <4>1, <4>2 DEF DeskIsSound
    <3>3. QED
      BY <3>1, <3>2
  <2>9. QED
    BY <2>4, <2>5, <2>6, <2>7, <2>8 DEF Truthful
<1>3. ASSUME NEW i \in DOMAIN jobs, Contracts!Receive(i) PROVE Truthful'
  <2>1. desk' = [Contracts!NoWork EXCEPT !.pc = "claim", !.job = i]
        /\ UNCHANGED <<mode, docs, sheet, cards, runs, asked, jobs, outages>>
    BY <1>3 DEF Contracts!Receive
  <2>2. i \in Nat /\ jobs[i].kind \in Contracts!Kinds /\ jobs[i].state = "queued"
    <3>1. jobs[i] \in Messages /\ i \in Nat
      BY <1>0 DEF ContractTypes
    <3>2. QED
      BY <1>3, <3>1 DEF Messages, Contracts!Receive
  <2>3. desk' \in Desks /\ desk'.pc = "claim" /\ desk'.job = i
    BY <2>1, <2>2 DEF Desks, Contracts!NoWork, Contracts!Statuses
  <2>4. ContractTypes'
    BY <1>0, <2>1, <2>3 DEF ContractTypes
  <2>5. Busy' /\ SyncIsSound' /\ DecisionIsSound'
    BY <2>1, <2>2, <2>3 DEF Busy, Contracts!This, SyncIsSound, DecisionIsSound
  <2>6. DeskIsSound'
    BY <2>5 DEF DeskIsSound
  <2>7. QED
    BY <2>1, <2>4, <2>6 DEF Truthful, SheetIsSound, Contracts!RowsAreUnique, JobIsSound, Approved, CardIsSound,
       Contracts!Listed
<1>4. QED
  BY <1>1, <1>2, <1>3

(* The step of the desk says what it works on.                             *)
LEMMA SyncIsBusy ==
  ASSUME Truthful, desk.job # 0, Contracts!This.kind = "sync"
  PROVE  Busy /\ SyncIsSound /\ Contracts!This.of \in Days
BY DEF Truthful, DeskIsSound, Contracts!NoWork, Busy, JobIsSound, Contracts!This
LEMMA DecisionIsBusy ==
  ASSUME Truthful, desk.job # 0, Contracts!This.kind \in Contracts!Decisions
  PROVE  Busy /\ DecisionIsSound /\ Contracts!This.kind # "sync" /\ Contracts!This.of \in Envelopes
         /\ asked[Contracts!This.of] > 0
BY DEF Truthful, DeskIsSound, Contracts!NoWork, Busy, JobIsSound, Contracts!This, Contracts!Decisions

(* A desk that settled its job, and one that goes on working.              *)
LEMMA SettledIsTruthful ==
  ASSUME ContractConstants, Truthful, Busy, Contracts!Acks \/ Contracts!Retries,
         /\ UNCHANGED <<mode, docs>> /\ sheet' \in Seq(Rows) /\ cards' \in [Envelopes -> Cards]
         /\ runs' \in [Days -> {"none", "running", "failed", "completed"}]
         /\ asked' \in [Envelopes -> Nat] /\ outages' \in 0..MaxSlips,
         SheetIsSound', \A e \in Envelopes : asked'[e] >= asked[e],
         \A e \in Envelopes : (Approved(e) => Approved(e)') => CardIsSound(e)'
  PROVE  Truthful'
<1>1. /\ jobs' \in Seq(Messages) /\ DOMAIN jobs' = DOMAIN jobs
      /\ \A i \in DOMAIN jobs : jobs'[i].kind = jobs[i].kind /\ jobs'[i].of = jobs[i].of
      /\ \A i \in DOMAIN jobs : jobs'[i].state = "queued" => jobs'[i].tries <= MaxRetries
      /\ \A e \in Envelopes : Approved(e) => Approved(e)'
      /\ desk' \in Desks /\ DeskIsSound'
  BY Settling
<1>2. ContractTypes'
  BY <1>1 DEF Truthful, ContractTypes
<1>3. ASSUME NEW i \in DOMAIN jobs PROVE JobIsSound(i)'
  <2>1. /\ JobIsSound(i) /\ jobs'[i].kind = jobs[i].kind /\ jobs'[i].of = jobs[i].of
        /\ jobs'[i].state = "queued" => jobs'[i].tries <= MaxRetries
    BY <1>1 DEF Truthful
  <2>2. \A e \in Envelopes : asked[e] > 0 => asked'[e] > 0
    BY DEF Truthful, ContractTypes
  <2>3. QED
    BY <2>1, <2>2 DEF JobIsSound
<1>4. QED
  BY <1>1, <1>2, <1>3 DEF Truthful

LEMMA SameSheet == ASSUME Truthful, sheet' = sheet PROVE sheet' \in Seq(Rows) /\ SheetIsSound'
BY DEF Truthful, ContractTypes, SheetIsSound, Contracts!RowsAreUnique
LEMMA WorkingIsTruthful ==
  ASSUME Truthful, Busy, mode' = mode /\ docs' = docs /\ jobs' = jobs, desk' \in Desks, desk'.job = desk.job,
         /\ sheet' \in Seq(Rows) /\ cards' \in [Envelopes -> Cards]
         /\ runs' \in [Days -> {"none", "running", "failed", "completed"}]
         /\ asked' \in [Envelopes -> Nat] /\ outages' \in 0..MaxSlips,
         SheetIsSound', \A e \in Envelopes : asked'[e] >= asked[e],
         \A e \in Envelopes : CardIsSound(e)',
         Contracts!This.kind = "sync" => SyncIsSound', Contracts!This.kind # "sync" => DecisionIsSound'
  PROVE  Truthful'
<1>1. ContractTypes'
  BY DEF Truthful, ContractTypes
<1>2. ASSUME NEW i \in DOMAIN jobs PROVE JobIsSound(i)'
  <2>1. \A e \in Envelopes : asked[e] > 0 => asked'[e] > 0
    BY DEF Truthful, ContractTypes
  <2>2. QED
    BY <2>1 DEF Truthful, JobIsSound
<1>3. Busy' /\ Contracts!This' = Contracts!This
  BY DEF Busy, Contracts!This
<1>4. DeskIsSound'
  BY <1>3 DEF DeskIsSound
<1>5. QED
  BY <1>1, <1>2, <1>4 DEF Truthful

LEMMA GoingTo ==
  ASSUME Truthful, NEW pc \in {"none", "claim", "read", "update", "save", "post", "mark", "complete", "append", "verify", "finish"}, Contracts!To(pc)
  PROVE  desk' \in Desks /\ desk'.pc = pc /\ desk'.job = desk.job /\ desk'.seen = desk.seen
         /\ desk'.todo = desk.todo /\ desk'.fresh = desk.fresh
BY DEF Truthful, ContractTypes, Desks, Contracts!To

LEMMA SameCards ==
  ASSUME Truthful, cards' = cards, asked' = asked, Contracts!Listed(sheet)' = Contracts!Listed(sheet),
         \A e \in Envelopes : Approved(e) => Approved(e)'
  PROVE  \A e \in Envelopes : CardIsSound(e)'
BY CardStays DEF Truthful

(* The desk claims a job, reads both sides, and completes a run.           *)
LEMMA RunKeepsTruthful ==
  ASSUME ContractConstants, Truthful, Contracts!Claim \/ Contracts!ReadBoth \/ Contracts!CompleteRun
  PROVE Truthful'
<1>0. /\ desk.job # 0 /\ Contracts!This.kind = "sync" /\ UNCHANGED <<mode, docs, sheet, cards, asked, outages>>
  BY DEF Contracts!Claim, Contracts!ReadBoth, Contracts!CompleteRun, Contracts!At
<1>1. Busy /\ SyncIsSound /\ Contracts!This.of \in Days
  BY <1>0, SyncIsBusy
<1>2. /\ sheet' \in Seq(Rows) /\ SheetIsSound' /\ cards' \in [Envelopes -> Cards] /\ asked' \in [Envelopes -> Nat]
      /\ outages' \in 0..MaxSlips /\ \A e \in Envelopes : asked'[e] >= asked[e]
      /\ Contracts!Listed(sheet)' = Contracts!Listed(sheet)
  BY <1>0, SameSheet DEF Truthful, ContractTypes, Contracts!Listed
<1>3. runs' \in [Days -> {"none", "running", "failed", "completed"}]
  <2>1. runs' = runs \/ \E s \in {"running", "completed"} : runs' = [runs EXCEPT ![Contracts!This.of] = s]
    BY DEF Contracts!Claim, Contracts!ReadBoth, Contracts!CompleteRun
  <2>2. QED
    BY <2>1 DEF Truthful, ContractTypes
<1>4. CASE Contracts!Acks \/ Contracts!Retries
  <2>1. ASSUME NEW e \in Envelopes, Approved(e) => Approved(e)' PROVE CardIsSound(e)'
    BY <1>0, <1>2, <2>1, CardStays DEF Truthful
  <2>2. QED
    BY <1>0, <1>1, <1>2, <1>3, <1>4, <2>1, SettledIsTruthful
<1>5. CASE jobs' = jobs /\ (Contracts!To("read") \/ (Contracts!ReadBoth /\ desk' = Contracts!Plan))
  <2>1. \A e \in Envelopes : CardIsSound(e)'
    BY <1>0, <1>2, <1>5, SameCards DEF Approved
  <2>2. desk' \in Desks /\ desk'.job = desk.job /\ SyncIsSound'
    <3>1. CASE Contracts!To("read")
      <4>1. desk' \in Desks /\ desk'.pc = "read" /\ desk'.job = desk.job
        BY <3>1, GoingTo
      <4>2. QED
        BY <4>1 DEF SyncIsSound
    <3>2. CASE Contracts!ReadBoth /\ desk' = Contracts!Plan
      <4>1. /\ desk'.pc = "update" /\ desk'.job = desk.job /\ desk'.seen = docs /\ desk'.fresh = Contracts!Fresh(sheet, docs)
            /\ desk'.todo = {sheet[i].of : i \in {j \in DOMAIN sheet : sheet[j].status # docs[sheet[j].of]}}
        BY <3>2 DEF Contracts!Plan, Truthful, ContractTypes, Desks
      <4>2. \A i \in DOMAIN sheet : sheet[i].of \in Envelopes
        <5>1. \A i \in DOMAIN sheet : sheet[i] \in Rows
          BY DEF Truthful, ContractTypes
        <5>2. QED
          BY <5>1 DEF Rows
      <4>3. /\ {sheet[i].of : i \in {j \in DOMAIN sheet : sheet[j].status # docs[sheet[j].of]}} \in SUBSET Envelopes
            /\ Contracts!Fresh(sheet, docs) \in SUBSET Envelopes /\ docs \in [Envelopes -> Contracts!Statuses]
        BY <4>2 DEF Contracts!Fresh, Truthful, ContractTypes
      <4>4. desk' \in Desks
        BY <3>2, <4>3 DEF Contracts!Plan, Truthful, ContractTypes, Desks
      <4>5. \A e \in desk'.fresh : e \notin Contracts!Listed(sheet')
        BY <1>0, <4>1 DEF Contracts!Fresh
      <4>6. \A i \in DOMAIN sheet' : Current(i)' \/ sheet'[i].of \in desk'.todo
        BY <1>0, <4>1 DEF Current
      <4>7. QED
        BY <4>1, <4>4, <4>5, <4>6 DEF SyncIsSound
    <3>3. QED
      BY <1>5, <3>1, <3>2
  <2>3. QED
    BY <1>0, <1>1, <1>2, <1>3, <1>5, <2>1, <2>2, WorkingIsTruthful
<1>6. QED
  BY <1>4, <1>5 DEF Contracts!Claim, Contracts!ReadBoth, Contracts!CompleteRun

(* Rows are brought up to date one at a time.                              *)
LEMMA UpdateKeepsTruthful == ASSUME ContractConstants, Truthful, Contracts!Update PROVE Truthful'
<1>0. /\ desk.job # 0 /\ Contracts!This.kind = "sync" /\ desk.pc = "update"
      /\ UNCHANGED <<mode, docs, cards, runs, asked, jobs, outages>>
  BY DEF Contracts!Update, Contracts!At
<1>1. Busy /\ SyncIsSound
  BY <1>0, SyncIsBusy
<1>2. /\ cards' \in [Envelopes -> Cards] /\ asked' \in [Envelopes -> Nat] /\ outages' \in 0..MaxSlips
      /\ runs' \in [Days -> {"none", "running", "failed", "completed"}]
      /\ \A e \in Envelopes : asked'[e] >= asked[e] /\ (Approved(e) => Approved(e)')
  BY <1>0 DEF Truthful, ContractTypes, Approved
<1>3. CASE desk.todo = {}
  <2>1. sheet' = sheet /\ Contracts!To("save")
    BY <1>3 DEF Contracts!Update
  <2>2. desk' \in Desks /\ desk'.pc = "save" /\ desk'.job = desk.job /\ desk'.seen = desk.seen
        /\ desk'.fresh = desk.fresh
    BY <2>1, GoingTo
  <2>3. SyncIsSound'
    BY <1>0, <1>1, <1>3, <2>1, <2>2 DEF SyncIsSound, Current
  <2>4. sheet' \in Seq(Rows) /\ SheetIsSound' /\ Contracts!Listed(sheet)' = Contracts!Listed(sheet)
    BY <2>1, SameSheet DEF Contracts!Listed
  <2>5. \A e \in Envelopes : CardIsSound(e)'
    BY <1>0, <1>2, <2>4, SameCards
  <2>6. QED
    BY <1>0, <1>1, <1>2, <2>2, <2>3, <2>4, <2>5, WorkingIsTruthful
<1>4. CASE desk.todo # {}
  <2>0. PICK u : u = Contracts!Min(desk.todo)
    OBVIOUS
  <2>1. /\ sheet' = IF mode = "audit" THEN sheet
                    ELSE [i \in DOMAIN sheet |->
                            IF sheet[i].of = u THEN [sheet[i] EXCEPT !.status = desk.seen[u]] ELSE sheet[i]]
        /\ desk' = [desk EXCEPT !.todo = @ \ {u}]
    BY <1>4, <2>0 DEF Contracts!Update
  <2>2. /\ desk' \in Desks /\ desk'.pc = "update" /\ desk'.job = desk.job /\ desk'.seen = desk.seen
        /\ desk'.fresh = desk.fresh /\ desk'.todo = desk.todo \ {u}
    BY <1>0, <2>1 DEF Truthful, ContractTypes, Desks
  <2>3. \A i \in DOMAIN sheet : sheet[i] \in Rows /\ desk.seen \in [Envelopes -> Contracts!Statuses]
    BY DEF Truthful, ContractTypes, Desks
  <2>4. /\ DOMAIN sheet' = DOMAIN sheet
        /\ \A i \in DOMAIN sheet : sheet'[i] \in Rows
        /\ \A i \in DOMAIN sheet : sheet'[i].of = sheet[i].of
        /\ \A i \in DOMAIN sheet : sheet'[i].no = sheet[i].no
        /\ mode # "audit" => \A i \in DOMAIN sheet :
             sheet'[i].status = IF sheet[i].of = u THEN desk.seen[u] ELSE sheet[i].status
    BY <2>1, <2>3 DEF Rows
  <2>5. sheet' \in Seq(Rows)
    <3>1. PICK n \in Nat : DOMAIN sheet = 1..n
      BY DEF Truthful, ContractTypes
    <3>2. CASE sheet' = sheet
      BY <3>2 DEF Truthful, ContractTypes
    <3>3. CASE sheet' = [i \in DOMAIN sheet |->
                           IF sheet[i].of = u THEN [sheet[i] EXCEPT !.status = desk.seen[u]] ELSE sheet[i]]
      <4>1. sheet' \in [1..n -> Rows]
        BY <2>4, <3>1, <3>3
      <4>2. QED
        BY <4>1, SeqDef
    <3>4. QED
      BY <2>1, <3>2, <3>3
  <2>6. SheetIsSound' /\ Contracts!Listed(sheet)' = Contracts!Listed(sheet)
    <3>1. SheetIsSound
      BY DEF Truthful
    <3>2. Contracts!RowsAreUnique'
      BY <2>4, <3>1 DEF SheetIsSound, Contracts!RowsAreUnique
    <3>3. PICK m \in Nat : (m = 0 \/ \E i \in DOMAIN sheet : sheet[i].no = m) /\ \A i \in DOMAIN sheet : sheet[i].no <= m
      BY <3>1 DEF SheetIsSound
    <3>4. (m = 0 \/ \E i \in DOMAIN sheet' : sheet'[i].no = m) /\ \A i \in DOMAIN sheet' : sheet'[i].no <= m
      BY <2>4, <3>3
    <3>5. \A e : e \in Contracts!Listed(sheet)' <=> e \in Contracts!Listed(sheet)
      BY <2>4 DEF Contracts!Listed
    <3>6. QED
      BY <3>2, <3>4, <3>5 DEF SheetIsSound
  <2>7. SyncIsSound'
    <3>1. \A e \in desk'.fresh : e \notin Contracts!Listed(sheet')
      BY <1>0, <1>1, <2>2, <2>6 DEF SyncIsSound
    <3>2. mode # "audit" => \A i \in DOMAIN sheet' : Current(i)' \/ sheet'[i].of \in desk'.todo
      <4>1. ASSUME mode # "audit", NEW i \in DOMAIN sheet PROVE Current(i)' \/ sheet'[i].of \in desk'.todo
        <5>1. Current(i) \/ sheet[i].of \in desk.todo
          BY <1>0, <1>1, <4>1 DEF SyncIsSound
        <5>2. sheet'[i].of = sheet[i].of /\ sheet'[i].status = IF sheet[i].of = u THEN desk.seen[u] ELSE sheet[i].status
          BY <2>4, <4>1
        <5>3. QED
          BY <2>2, <5>1, <5>2 DEF Current
      <4>2. QED
        BY <2>4, <4>1
    <3>3. QED
      BY <1>0, <2>2, <3>1, <3>2 DEF SyncIsSound
  <2>8. \A e \in Envelopes : CardIsSound(e)'
    BY <1>0, <1>2, <2>6, SameCards
  <2>9. QED
    BY <1>0, <1>1, <1>2, <2>2, <2>5, <2>6, <2>7, <2>8, WorkingIsTruthful
<1>5. QED
  BY <1>3, <1>4
(* A question is saved, posted and marked.                                 *)
LEMMA AskingKeepsTruthful ==
  ASSUME ContractConstants, Truthful, Contracts!Save \/ Contracts!Post \/ Contracts!Mark PROVE Truthful'
<1>0. /\ desk.job # 0 /\ Contracts!This.kind = "sync" /\ desk.pc \in {"save", "post", "mark"}
      /\ UNCHANGED <<mode, docs, sheet, runs, jobs, outages>>
  BY DEF Contracts!Save, Contracts!Post, Contracts!Mark, Contracts!At
<1>1. Busy /\ SyncIsSound /\ desk \in Desks /\ desk.fresh \subseteq Envelopes
      /\ desk.seen \in [Envelopes -> Contracts!Statuses]
  BY <1>0, SyncIsBusy DEF Truthful, ContractTypes, Desks
<1>2. /\ sheet' \in Seq(Rows) /\ SheetIsSound' /\ outages' \in 0..MaxSlips
      /\ runs' \in [Days -> {"none", "running", "failed", "completed"}]
      /\ Contracts!Listed(sheet)' = Contracts!Listed(sheet) /\ \A e \in Envelopes : Approved(e) => Approved(e)'
  BY <1>0, SameSheet DEF Truthful, ContractTypes, Contracts!Listed, Approved
<1>3. cards \in [Envelopes -> Cards] /\ asked \in [Envelopes -> Nat]
  BY DEF Truthful, ContractTypes
<1>4. \A i \in DOMAIN sheet' : desk'.seen = desk.seen => (Current(i)' <=> Current(i))
  BY <1>0 DEF Current
<1>5. (\A e \in desk.fresh : e \notin Contracts!Listed(sheet))
      /\ (mode # "audit" => \A i \in DOMAIN sheet : Current(i))
  BY <1>0, <1>1 DEF SyncIsSound
<1>6. CASE cards' = cards /\ asked' = asked /\ Contracts!Save
  <2>1. \/ desk.fresh = {} /\ Contracts!To("complete")
        \/ \E u : desk' = [desk EXCEPT !.fresh = @ \ {u}] /\ desk.pc = "save"
    <3>1. CASE desk.fresh = {}
      BY <1>6, <3>1 DEF Contracts!Save
    <3>2. CASE desk.fresh # {}
      <4>1. PICK u : u = Contracts!Min(desk.fresh)
        OBVIOUS
      <4>2. \/ desk' = [desk EXCEPT !.fresh = @ \ {u}]
            \/ cards[u] = Contracts!NoCard /\ cards' = [cards EXCEPT ![u] = [status |-> "pending", told |-> FALSE, row |-> Contracts!Proposed(u)]]
        BY <1>6, <3>2, <4>1 DEF Contracts!Save
      <4>3. u \in Envelopes
        BY <1>1, <3>2, <4>1, LeastIsIn
      <4>4. desk' = [desk EXCEPT !.fresh = @ \ {u}]
        BY <1>3, <1>6, <4>2, <4>3 DEF Contracts!NoCard
      <4>5. QED
        BY <1>6, <4>4 DEF Contracts!Save, Contracts!At
    <3>3. QED
      BY <3>1, <3>2
  <2>2. /\ desk' \in Desks /\ desk'.job = desk.job /\ desk'.seen = desk.seen /\ desk'.fresh \subseteq desk.fresh
        /\ desk'.pc \in {"save", "complete"}
    <3>1. CASE Contracts!To("complete")
      BY <3>1, GoingTo
    <3>2. ASSUME NEW u, desk' = [desk EXCEPT !.fresh = @ \ {u}], desk.pc = "save" 
          PROVE  /\ desk' \in Desks /\ desk'.job = desk.job /\ desk'.seen = desk.seen
                 /\ desk'.fresh \subseteq desk.fresh
                 /\ desk'.pc \in {"save", "complete"}
      BY <1>1, <3>2 DEF Desks
    <3>3. QED
      BY <2>1, <3>1, <3>2
  <2>3. SyncIsSound'
    BY <1>0, <1>2, <1>4, <1>5, <2>2 DEF SyncIsSound
  <2>4. \A e \in Envelopes : CardIsSound(e)'
    BY <1>2, <1>6, SameCards
  <2>5. \A e \in Envelopes : asked'[e] >= asked[e]
    BY <1>3, <1>6
  <2>6. QED
    BY <1>0, <1>1, <1>2, <1>3, <1>6, <2>2, <2>3, <2>4, <2>5, WorkingIsTruthful
<1>7. CASE ~(cards' = cards /\ asked' = asked /\ Contracts!Save)
  <2>0. desk.fresh # {}
    BY <1>0, <1>1, <1>7 DEF Contracts!Save, SyncIsSound, Contracts!Post, Contracts!Mark, Contracts!At
  <2>1. PICK u \in Envelopes : u = Contracts!Min(desk.fresh) /\ u \in desk.fresh /\ u \notin Contracts!Listed(sheet)
    BY <1>1, <1>5, <2>0, LeastIsIn
  <2>2. CardIsSound(u)
    BY DEF Truthful
  <2>3. \/ /\ Contracts!Save /\ cards[u] = Contracts!NoCard /\ Contracts!To("post") /\ asked' = asked
           /\ cards' = [cards EXCEPT ![u] = [status |-> "pending", told |-> FALSE, row |-> Contracts!Proposed(u)]]
        \/ Contracts!Post /\ cards' = cards /\ asked' = [asked EXCEPT ![u] = @ + 1] /\ Contracts!To("mark")
        \/ Contracts!Mark /\ cards' = [cards EXCEPT ![u].told = TRUE] /\ asked' = asked
           /\ desk' = [desk EXCEPT !.pc = "save", !.fresh = @ \ {u}]
    BY <1>7, <2>0, <2>1 DEF Contracts!Save, Contracts!Post, Contracts!Mark
  <2>4. CASE /\ Contracts!Save /\ cards[u] = Contracts!NoCard /\ Contracts!To("post") /\ asked' = asked
             /\ cards' = [cards EXCEPT ![u] = [status |-> "pending", told |-> FALSE, row |-> Contracts!Proposed(u)]]
    <3>1. Contracts!Proposed(u).of = u /\ [status |-> "pending", told |-> FALSE, row |-> Contracts!Proposed(u)] \in Cards
      <4>1. PICK B : B = {f \in Contracts!Fresh(sheet, desk.seen) : f < u}
        OBVIOUS
      <4>2. B \in SUBSET Envelopes
        BY <4>1 DEF Contracts!Fresh
      <4>3. IsFiniteSet(B)
        BY <4>2, FS_Subset DEF ContractConstants
      <4>4. Cardinality(B) \in Nat
        BY <4>3, FS_CardinalityType
      <4>5. Contracts!NextNo(sheet) \in Nat
        BY NextIsFree DEF Truthful
      <4>6. Contracts!Proposed(u) = [of |-> u, no |-> Contracts!NextNo(sheet) + Cardinality(B), status |-> desk.seen[u]]
        <5>1. Contracts!Proposed(u) = Contracts!Row(u, Contracts!NextNo(sheet) + Cardinality({f \in Contracts!Fresh(sheet, desk.seen) : f < u}), desk.seen[u])
          BY DEF Contracts!Proposed, Contracts!Cardinality, Cardinality
        <5>2. QED
          BY <4>1, <5>1 DEF Contracts!Row
      <4>7. desk.seen[u] \in Contracts!Statuses /\ Contracts!NextNo(sheet) + Cardinality(B) \in Nat
        BY <1>1, <4>4, <4>5
      <4>8. QED
        BY <4>6, <4>7 DEF Cards
    <3>2. /\ cards' \in [Envelopes -> Cards] /\ cards'[u].status = "pending" /\ cards'[u].row.of = u
          /\ \A e \in Envelopes : e # u => cards'[e] = cards[e]
      BY <1>3, <2>4, <3>1
    <3>3. asked[u] = 0
      BY <1>3, <2>2, <2>4 DEF CardIsSound, Contracts!NoCard
    <3>4. CardIsSound(u)'
      BY <1>2, <2>1, <2>4, <3>2, <3>3 DEF CardIsSound
    <3>5. \A e \in Envelopes : e # u => CardIsSound(e)'
      BY <1>2, <2>4, <3>2, CardStays DEF Truthful
    <3>6. /\ desk' \in Desks /\ desk'.pc = "post" /\ desk'.job = desk.job /\ desk'.seen = desk.seen
          /\ desk'.fresh = desk.fresh
      BY <2>4, GoingTo
    <3>7. SyncIsSound'
      BY <1>0, <1>2, <1>4, <1>5, <2>0, <2>1, <2>4, <3>2, <3>3, <3>6 DEF SyncIsSound
    <3>8. \A e \in Envelopes : asked'[e] >= asked[e]
      BY <1>3, <2>4
    <3>9. QED
      BY <1>0, <1>1, <1>2, <1>3, <2>4, <3>2, <3>4, <3>5, <3>6, <3>7, <3>8, WorkingIsTruthful
  <2>5. CASE Contracts!Post /\ cards' = cards /\ asked' = [asked EXCEPT ![u] = @ + 1] /\ Contracts!To("mark")
    <3>1. /\ asked' \in [Envelopes -> Nat] /\ asked'[u] = asked[u] + 1
          /\ \A e \in Envelopes : e # u => asked'[e] = asked[e]
          /\ \A e \in Envelopes : asked'[e] >= asked[e]
      BY <1>3, <2>5
    <3>2. asked[u] = 0 /\ cards[u].status # "none"
      BY <1>1, <2>1, <2>5 DEF Contracts!Post, Contracts!At, SyncIsSound
    <3>3. CardIsSound(u)'
      BY <1>2, <2>1, <2>2, <2>5, <3>1, <3>2 DEF CardIsSound
    <3>4. \A e \in Envelopes : e # u => CardIsSound(e)'
      BY <1>2, <2>5, <3>1, CardStays DEF Truthful
    <3>5. /\ desk' \in Desks /\ desk'.pc = "mark" /\ desk'.job = desk.job /\ desk'.seen = desk.seen
          /\ desk'.fresh = desk.fresh
      BY <2>5, GoingTo
    <3>6. SyncIsSound'
      BY <1>0, <1>2, <1>4, <1>5, <2>0, <2>1, <2>5, <3>2, <3>5 DEF SyncIsSound
    <3>7. QED
      BY <1>0, <1>1, <1>2, <1>3, <2>5, <3>1, <3>3, <3>4, <3>5, <3>6, WorkingIsTruthful
  <2>6. CASE Contracts!Mark /\ cards' = [cards EXCEPT ![u].told = TRUE] /\ asked' = asked
             /\ desk' = [desk EXCEPT !.pc = "save", !.fresh = @ \ {u}]
    <3>1. /\ cards' \in [Envelopes -> Cards] /\ cards'[u].status = cards[u].status /\ cards'[u].row = cards[u].row
          /\ \A e \in Envelopes : e # u => cards'[e] = cards[e]
      BY <1>3, <2>6 DEF Cards
    <3>2. cards[u].status # "none"
      BY <1>1, <2>1, <2>6 DEF Contracts!Mark, Contracts!At, SyncIsSound
    <3>3. CardIsSound(u)'
      BY <1>2, <2>1, <2>2, <2>6, <3>1, <3>2 DEF CardIsSound
    <3>4. \A e \in Envelopes : e # u => CardIsSound(e)'
      BY <1>2, <2>6, <3>1, CardStays DEF Truthful
    <3>5. /\ desk' \in Desks /\ desk'.pc = "save" /\ desk'.job = desk.job /\ desk'.seen = desk.seen
          /\ desk'.fresh = desk.fresh \ {u}
      BY <1>1, <2>6 DEF Desks
    <3>6. SyncIsSound'
      BY <1>0, <1>2, <1>4, <1>5, <3>5 DEF SyncIsSound
    <3>7. \A e \in Envelopes : asked'[e] >= asked[e]
      BY <1>3, <2>6
    <3>8. QED
      BY <1>0, <1>1, <1>2, <1>3, <2>6, <3>1, <3>3, <3>4, <3>5, <3>6, <3>7, WorkingIsTruthful
  <2>7. QED
    BY <2>3, <2>4, <2>5, <2>6
<1>8. QED
  BY <1>6, <1>7
(* A row is added after the last, for an envelope that has none.           *)
LEMMA Adding ==
  ASSUME Truthful, NEW e \in Envelopes, cards[e].status # "none", e \notin Contracts!Listed(sheet),
         sheet' = Append(sheet, Contracts!Added(e))
  PROVE  /\ sheet' \in Seq(Rows) /\ SheetIsSound'
         /\ \A f \in Envelopes : f \in Contracts!Listed(sheet)' <=> f \in Contracts!Listed(sheet) \/ f = e
<1>1. sheet \in Seq(Rows) /\ SheetIsSound /\ cards[e] \in Cards /\ cards[e].row.of = e
  BY DEF Truthful, ContractTypes, CardIsSound
<1>2. Contracts!NextNo(sheet) \in Nat \ {0} /\ \A i \in DOMAIN sheet : sheet[i].no < Contracts!NextNo(sheet)
  BY NextIsFree DEF Truthful
<1>3. PICK k \in Nat \ {0} : k = Contracts!NextNo(sheet)
  BY <1>2
<1>4. PICK row \in Rows : row = Contracts!Added(e) /\ row.of = e /\ row.no = k
  BY <1>1, <1>3 DEF Contracts!Added, Cards, Rows
<1>5. PICK n \in Nat : n = Len(sheet)
  BY <1>1
<1>6. /\ sheet' \in Seq(Rows) /\ DOMAIN sheet = 1..n /\ DOMAIN sheet' = 1..(n + 1)
      /\ \A i \in 1..n : sheet'[i] = sheet[i]
      /\ sheet'[n + 1] = row
  BY <1>1, <1>4, <1>5, AppendProperties
<1>7. \A i \in 1..n : sheet[i].no \in Nat /\ sheet[i].no < k /\ sheet[i].of # e
  <2>1. \A i \in 1..n : sheet[i] \in Rows
    BY <1>1, <1>6
  <2>2. \A i \in 1..n : sheet[i].no \in Nat
    BY <2>1 DEF Rows
  <2>3. \A i \in 1..n : sheet[i].of # e
    BY <1>6 DEF Contracts!Listed
  <2>4. QED
    BY <1>2, <1>3, <1>6, <2>2, <2>3
<1>8. \A i \in 1..(n + 1) : i \in 1..n \/ i = n + 1
  OBVIOUS
<1>9. Contracts!RowsAreUnique'
  <2>1. ASSUME NEW i \in 1..n, NEW j \in 1..n, i # j
        PROVE sheet'[i].of # sheet'[j].of /\ sheet'[i].no # sheet'[j].no
    BY <1>1, <1>6, <2>1 DEF SheetIsSound, Contracts!RowsAreUnique
  <2>2. ASSUME NEW i \in 1..n
        PROVE  /\ sheet'[i].of # sheet'[n + 1].of /\ sheet'[i].no # sheet'[n + 1].no
               /\ sheet'[n + 1].of # sheet'[i].of /\ sheet'[n + 1].no # sheet'[i].no
    BY <1>4, <1>6, <1>7
  <2>3. ASSUME NEW i \in 1..(n + 1), NEW j \in 1..(n + 1), i # j
        PROVE  sheet'[i].of # sheet'[j].of /\ sheet'[i].no # sheet'[j].no
    BY <1>8, <2>1, <2>2, <2>3
  <2>4. QED
    BY <1>6, <2>3 DEF Contracts!RowsAreUnique
<1>10. \A i \in DOMAIN sheet' : sheet'[i].no <= k
  BY <1>4, <1>6, <1>7, <1>8
<1>11. \E i \in DOMAIN sheet' : sheet'[i].no = k
  BY <1>4, <1>6
<1>12. SheetIsSound'
  BY <1>9, <1>10, <1>11 DEF SheetIsSound
<1>13. ASSUME NEW f \in Envelopes PROVE f \in Contracts!Listed(sheet)' <=> f \in Contracts!Listed(sheet) \/ f = e
  <2>1. f \in Contracts!Listed(sheet)' <=> \E i \in 1..(n + 1) : sheet'[i].of = f
    BY <1>6 DEF Contracts!Listed
  <2>2. f \in Contracts!Listed(sheet) <=> \E i \in 1..n : sheet[i].of = f
    BY <1>6 DEF Contracts!Listed
  <2>3. (\E i \in 1..(n + 1) : sheet'[i].of = f) <=> (\E i \in 1..n : sheet[i].of = f) \/ f = e
    BY <1>4, <1>6, <1>8
  <2>4. QED
    BY <2>1, <2>2, <2>3
<1>14. QED
  BY <1>6, <1>12, <1>13

(* The steps of a decision.                                                *)
LEMMA DecisionKeepsTruthful ==
  ASSUME ContractConstants, Truthful,
         Contracts!Decide \/ Contracts!Read \/ Contracts!AppendRow \/ Contracts!Verify \/ Contracts!Finish
         PROVE Truthful'
<1>0. /\ desk.job # 0 /\ Contracts!This.kind \in Contracts!Decisions /\ UNCHANGED <<mode, docs, runs, asked>>
  BY DEF Contracts!Decide, Contracts!Read, Contracts!AppendRow, Contracts!Verify, Contracts!Finish, Contracts!At
<1>1. Busy /\ DecisionIsSound /\ Contracts!This.kind # "sync" /\ Contracts!This.of \in Envelopes
      /\ asked[Contracts!This.of] > 0
  BY <1>0, DecisionIsBusy
<1>2. /\ asked' \in [Envelopes -> Nat] /\ runs' \in [Days -> {"none", "running", "failed", "completed"}]
      /\ cards \in [Envelopes -> Cards] /\ \A e \in Envelopes : asked'[e] >= asked[e]
  BY <1>0 DEF Truthful, ContractTypes
<1>3. PICK e \in Envelopes : e = Contracts!This.of
  BY <1>1
<1>4. cards[e].status # "none" /\ CardIsSound(e)
  BY <1>1, <1>3 DEF Truthful, CardIsSound
<1>5. Contracts!This.kind = "approved" => Approved(e)
  BY <1>1, <1>3 DEF Busy, Approved, Contracts!This
<1>6. CASE Contracts!Decide
  <2>0. UNCHANGED <<sheet, outages>>
    BY <1>6 DEF Contracts!Decide
  <2>1. sheet' \in Seq(Rows) /\ SheetIsSound' /\ outages' \in 0..MaxSlips
        /\ Contracts!Listed(sheet)' = Contracts!Listed(sheet)
    BY <2>0, SameSheet DEF Truthful, ContractTypes, Contracts!Listed
  <2>2. \/ cards' = cards
        \/ /\ cards[e].status # "approved"
           /\ \E s \in {"applying", "rejected"} : cards' = [cards EXCEPT ![e].status = s]
    BY <1>3, <1>6 DEF Contracts!Decide
  <2>3. /\ cards' \in [Envelopes -> Cards] /\ cards'[e].status # "none" /\ cards'[e].row = cards[e].row
        /\ cards'[e].status = "approved" => cards[e].status = "approved"
        /\ \A f \in Envelopes : f # e => cards'[f] = cards[f]
    <3>1. CASE cards' = cards
      BY <1>2, <1>4, <3>1
    <3>2. ASSUME NEW s \in {"applying", "rejected"}, cards' = [cards EXCEPT ![e].status = s] 
          PROVE  /\ cards' \in [Envelopes -> Cards] /\ cards'[e].status # "none" /\ cards'[e].row = cards[e].row
                 /\ cards'[e].status = "approved" => cards[e].status = "approved"
                 /\ \A f \in Envelopes : f # e => cards'[f] = cards[f]
      BY <1>2, <3>2 DEF Cards
    <3>3. QED
      BY <2>2, <3>1, <3>2
  <2>4. ASSUME NEW f \in Envelopes, Approved(f) => Approved(f)' PROVE CardIsSound(f)'
    <3>1. CASE f = e
      BY <1>0, <1>4, <2>1, <2>3, <2>4, <3>1 DEF CardIsSound
    <3>2. CASE f # e
      BY <1>0, <2>1, <2>3, <2>4, <3>2, CardStays DEF Truthful
    <3>3. QED
      BY <3>1, <3>2
  <2>5. CASE Contracts!Acks
    BY <1>0, <1>1, <1>2, <2>1, <2>3, <2>4, <2>5, SettledIsTruthful
  <2>6. CASE Contracts!This.kind # "rejected" /\ Contracts!To("read") /\ jobs' = jobs
    <3>1. desk' \in Desks /\ desk'.pc = "read" /\ desk'.job = desk.job
      BY <2>6, GoingTo
    <3>2. DecisionIsSound'
      BY <1>0, <2>6, <3>1 DEF DecisionIsSound, Contracts!This, Contracts!Decisions
    <3>3. \A f \in Envelopes : CardIsSound(f)'
      BY <2>4, <2>6 DEF Approved
    <3>4. QED
      BY <1>0, <1>1, <1>2, <2>1, <2>3, <2>6, <3>1, <3>2, <3>3, WorkingIsTruthful
  <2>7. QED
    BY <1>6, <2>5, <2>6 DEF Contracts!Decide
<1>7. CASE (Contracts!Read \/ Contracts!Verify) /\ sheet' = sheet
  <2>0. cards' = cards /\ outages' = outages /\ Contracts!This.kind = "approved" /\ desk.pc # "append"
        /\ desk.pc # "claim"
    BY <1>1, <1>7 DEF Contracts!Read, Contracts!Verify, Contracts!At, DecisionIsSound
  <2>1. /\ sheet' \in Seq(Rows) /\ SheetIsSound' /\ outages' \in 0..MaxSlips /\ Contracts!Listed(sheet)' = Contracts!Listed(sheet)
        /\ cards' \in [Envelopes -> Cards]
    BY <1>2, <1>7, <2>0, SameSheet DEF Truthful, ContractTypes, Contracts!Listed
  <2>2. ASSUME NEW f \in Envelopes, Approved(f) => Approved(f)' PROVE CardIsSound(f)'
    BY <1>0, <2>0, <2>1, <2>2, CardStays DEF Truthful
  <2>3. CASE Contracts!Retries
    BY <1>0, <1>1, <1>2, <2>1, <2>2, <2>3, SettledIsTruthful
  <2>4. CASE ~Contracts!Retries
    <3>1. PICK pc \in {"finish", "append"} : /\ Contracts!To(pc) /\ jobs' = jobs /\ (pc = "finish" => e \in Contracts!Listed(sheet))
                                             /\ (pc = "append" => e \notin Contracts!Listed(sheet))
      BY <1>3, <1>7, <2>4 DEF Contracts!Read, Contracts!Verify, Contracts!To
    <3>2. desk' \in Desks /\ desk'.pc = pc /\ desk'.job = desk.job
      BY <3>1, GoingTo
    <3>3. Contracts!This' = Contracts!This
      BY <3>1, <3>2 DEF Contracts!This
    <3>4. DecisionIsSound'
      BY <1>3, <2>0, <2>1, <3>1, <3>2, <3>3 DEF DecisionIsSound
    <3>5. \A f \in Envelopes : CardIsSound(f)'
      BY <2>2, <3>1 DEF Approved
    <3>6. QED
      BY <1>0, <1>1, <1>2, <2>1, <3>1, <3>2, <3>4, <3>5, WorkingIsTruthful
  <2>5. QED
    BY <2>3, <2>4
<1>8. CASE Contracts!AppendRow
  <2>0. /\ cards' = cards /\ jobs' = jobs /\ Contracts!This.kind = "approved" /\ e \notin Contracts!Listed(sheet) /\ Contracts!To("verify")
        /\ (sheet' = Append(sheet, Contracts!Added(e)) /\ outages' = outages) \/ (Contracts!Slip /\ sheet' = sheet)
    BY <1>1, <1>3, <1>8 DEF Contracts!AppendRow, Contracts!At, DecisionIsSound
  <2>1. /\ sheet' \in Seq(Rows) /\ SheetIsSound'
        /\ \A f \in Envelopes : f # e => (f \in Contracts!Listed(sheet)' <=> f \in Contracts!Listed(sheet))
    <3>1. CASE sheet' = sheet
      BY <3>1, SameSheet DEF Contracts!Listed
    <3>2. CASE sheet' = Append(sheet, Contracts!Added(e))
      BY <1>4, <2>0, <3>2, Adding
    <3>3. QED
      BY <2>0, <3>1, <3>2
  <2>2. outages' \in 0..MaxSlips /\ cards' \in [Envelopes -> Cards]
    BY <1>2, <2>0 DEF Truthful, ContractTypes, Contracts!Slip, ContractConstants
  <2>3. \A f \in Envelopes : Approved(f)' <=> Approved(f)
    BY <2>0 DEF Approved
  <2>4. ASSUME NEW f \in Envelopes PROVE CardIsSound(f)'
    <3>1. CASE f = e
      <4>1. Approved(e)' /\ cards[e].status # "approved"
        BY <1>4, <1>5, <2>0, <2>3 DEF CardIsSound
      <4>2. QED
        BY <1>0, <1>4, <2>0, <3>1, <4>1 DEF CardIsSound
    <3>2. CASE f # e
      BY <1>0, <2>0, <2>1, <2>3, <3>2, CardStays DEF Truthful
    <3>3. QED
      BY <3>1, <3>2
  <2>5. desk' \in Desks /\ desk'.pc = "verify" /\ desk'.job = desk.job
    BY <2>0, GoingTo
  <2>6. Contracts!This' = Contracts!This
    BY <2>0, <2>5 DEF Contracts!This
  <2>7. DecisionIsSound'
    BY <2>0, <2>5, <2>6 DEF DecisionIsSound
  <2>8. QED
    BY <1>0, <1>1, <1>2, <2>0, <2>1, <2>2, <2>4, <2>5, <2>7, WorkingIsTruthful
<1>9. CASE Contracts!Finish
  <2>0. /\ UNCHANGED <<sheet, outages>> /\ cards' = [cards EXCEPT ![e].status = "approved"] /\ Contracts!Acks
        /\ Contracts!This.kind = "approved" /\ e \in Contracts!Listed(sheet)
    BY <1>1, <1>3, <1>9 DEF Contracts!Finish, Contracts!At, DecisionIsSound
  <2>1. sheet' \in Seq(Rows) /\ SheetIsSound' /\ outages' \in 0..MaxSlips
        /\ Contracts!Listed(sheet)' = Contracts!Listed(sheet)
    BY <2>0, SameSheet DEF Truthful, ContractTypes, Contracts!Listed
  <2>2. /\ cards' \in [Envelopes -> Cards] /\ cards'[e].status = "approved" /\ cards'[e].row = cards[e].row
        /\ \A f \in Envelopes : f # e => cards'[f] = cards[f]
    BY <1>2, <2>0 DEF Cards
  <2>3. ASSUME NEW f \in Envelopes, Approved(f) => Approved(f)' PROVE CardIsSound(f)'
    <3>1. CASE f = e
      BY <1>0, <1>4, <1>5, <2>0, <2>1, <2>2, <2>3, <3>1 DEF CardIsSound
    <3>2. CASE f # e
      BY <1>0, <2>1, <2>2, <2>3, <3>2, CardStays DEF Truthful
    <3>3. QED
      BY <3>1, <3>2
  <2>4. QED
    BY <1>0, <1>1, <1>2, <2>0, <2>1, <2>2, <2>3, SettledIsTruthful
<1>10. QED
  BY <1>6, <1>7, <1>8, <1>9 DEF Contracts!Decide, Contracts!Read, Contracts!AppendRow, Contracts!Verify,
     Contracts!Finish

(* A step that fails, and a Worker that dies.                              *)
LEMMA FailingKeepsTruthful == ASSUME ContractConstants, Truthful, Contracts!Fail \/ Contracts!Die PROVE Truthful'
<1>0. desk # Contracts!NoWork /\ Contracts!Slip /\ Contracts!Effect /\ Contracts!Retries
      /\ UNCHANGED <<mode, docs, cards>>
  BY DEF Contracts!Fail, Contracts!Die
<1>1. Busy
  BY <1>0 DEF Truthful, DeskIsSound
<1>2. /\ outages' \in 0..MaxSlips /\ cards' \in [Envelopes -> Cards] /\ asked \in [Envelopes -> Nat]
      /\ runs' \in [Days -> {"none", "running", "failed", "completed"}]
  <2>1. runs' = runs \/ runs' = [runs EXCEPT ![Contracts!This.of] = "failed"]
    BY DEF Contracts!Fail, Contracts!Die
  <2>2. QED
    BY <1>0, <2>1 DEF Truthful, ContractTypes, Contracts!Slip, ContractConstants
<1>3. CASE UNCHANGED <<sheet, asked>>
  <2>1. sheet' \in Seq(Rows) /\ SheetIsSound' /\ Contracts!Listed(sheet)' = Contracts!Listed(sheet)
    BY <1>3, SameSheet DEF Contracts!Listed
  <2>2. asked' \in [Envelopes -> Nat] /\ \A e \in Envelopes : asked'[e] >= asked[e]
    BY <1>2, <1>3
  <2>3. ASSUME NEW e \in Envelopes, Approved(e) => Approved(e)' PROVE CardIsSound(e)'
    BY <1>0, <1>3, <2>1, <2>3, CardStays DEF Truthful
  <2>4. QED
    BY <1>0, <1>1, <1>2, <2>1, <2>2, <2>3, SettledIsTruthful
<1>4. CASE Contracts!At({"sync"}, "post") /\ asked' = [asked EXCEPT ![Contracts!Min(desk.fresh)] = @ + 1]
           /\ sheet' = sheet
  <2>1. sheet' \in Seq(Rows) /\ SheetIsSound' /\ Contracts!Listed(sheet)' = Contracts!Listed(sheet)
    BY <1>4, SameSheet DEF Contracts!Listed
  <2>2. SyncIsSound /\ desk.pc = "post" /\ desk.fresh \subseteq Envelopes
    BY <1>4, SyncIsBusy DEF Contracts!At, Truthful, ContractTypes, Desks
  <2>3. PICK u \in Envelopes : u = Contracts!Min(desk.fresh) /\ asked[u] = 0 /\ cards[u].status # "none"
    BY <2>2, LeastIsIn DEF SyncIsSound
  <2>4. /\ asked' \in [Envelopes -> Nat] /\ asked'[u] = 1 /\ \A e \in Envelopes : e # u => asked'[e] = asked[e]
        /\ \A e \in Envelopes : asked'[e] >= asked[e]
    BY <1>2, <1>4, <2>3
  <2>5. ASSUME NEW e \in Envelopes, Approved(e) => Approved(e)' PROVE CardIsSound(e)'
    <3>1. CASE e = u
      BY <1>0, <2>1, <2>3, <2>4, <2>5, <3>1 DEF Truthful, CardIsSound
    <3>2. CASE e # u
      BY <1>0, <2>1, <2>4, <2>5, <3>2, CardStays DEF Truthful
    <3>3. QED
      BY <3>1, <3>2
  <2>6. QED
    BY <1>0, <1>1, <1>2, <2>1, <2>4, <2>5, SettledIsTruthful
<1>5. CASE Contracts!At(Contracts!Decisions, "append")
           /\ sheet' = Append(sheet, Contracts!Added(Contracts!This.of)) /\ asked' = asked
  <2>1. /\ Busy /\ DecisionIsSound /\ Contracts!This.of \in Envelopes /\ asked[Contracts!This.of] > 0 /\ desk.pc = "append"
    BY <1>5, DecisionIsBusy DEF Contracts!At
  <2>2. PICK e \in Envelopes : e = Contracts!This.of
    BY <2>1
  <2>3. /\ Contracts!This.kind = "approved" /\ e \notin Contracts!Listed(sheet) /\ cards[e].status # "none"
        /\ CardIsSound(e) /\ Approved(e)
    BY <2>1, <2>2 DEF DecisionIsSound, Truthful, CardIsSound, Busy, Approved, Contracts!This
  <2>4. /\ sheet' \in Seq(Rows) /\ SheetIsSound'
        /\ \A f \in Envelopes : f # e => (f \in Contracts!Listed(sheet)' <=> f \in Contracts!Listed(sheet))
    BY <1>5, <2>2, <2>3, Adding
  <2>5. asked' \in [Envelopes -> Nat] /\ \A f \in Envelopes : asked'[f] >= asked[f]
    BY <1>2, <1>5
  <2>6. ASSUME NEW f \in Envelopes, Approved(f) => Approved(f)' PROVE CardIsSound(f)'
    <3>1. CASE f = e
      <4>1. cards[e].status # "approved"
        BY <2>3 DEF CardIsSound
      <4>2. QED
        BY <1>0, <1>5, <2>3, <2>6, <3>1, <4>1 DEF CardIsSound
    <3>2. CASE f # e
      BY <1>0, <1>5, <2>4, <2>6, <3>2, CardStays DEF Truthful
    <3>3. QED
      BY <3>1, <3>2
  <2>7. QED
    BY <1>0, <1>1, <1>2, <2>4, <2>5, <2>6, SettledIsTruthful
<1>6. QED
  BY <1>0, <1>3, <1>4, <1>5 DEF Contracts!Effect

LEMMA TruthfulIsKept == ASSUME ContractConstants, Truthful, [Contracts!Next]_Contracts!contractVars PROVE Truthful'
<1>1. CASE Contracts!Next
  BY <1>1, WorldKeepsTruthful, RunKeepsTruthful, UpdateKeepsTruthful, AskingKeepsTruthful,
     DecisionKeepsTruthful, FailingKeepsTruthful
    DEF Contracts!Next, Contracts!Consume, Contracts!Step
<1>2. CASE UNCHANGED Contracts!contractVars
  <2>1. UNCHANGED <<mode, docs, sheet, cards, runs, asked, jobs, desk, outages>>
    BY <1>2 DEF Contracts!contractVars
  <2>2. ContractTypes' /\ SheetIsSound'
    BY <2>1, SameSheet DEF Truthful, ContractTypes
  <2>3. \A i \in DOMAIN jobs' : JobIsSound(i)'
    BY <2>1 DEF Truthful, JobIsSound
  <2>4. \A e \in Envelopes : CardIsSound(e)'
    BY <2>1, SameCards DEF Approved, Contracts!Listed
  <2>5. DeskIsSound'
    BY <2>1 DEF Truthful, DeskIsSound, Busy, Contracts!This, SyncIsSound, Current, DecisionIsSound,
       Contracts!Listed
  <2>6. QED
    BY <2>2, <2>3, <2>4, <2>5 DEF Truthful
<1>3. QED
  BY <1>1, <1>2

LEMMA TruthfulIsEnough ==
  ASSUME Truthful
  PROVE Contracts!TypeOK /\ Contracts!RowsAreUnique /\ Contracts!AskedOnce /\ Contracts!AddedIsApproved
        /\ Contracts!CompletedIsCurrent
<1>1. Contracts!TypeOK
  <2>1. \A i \in DOMAIN sheet : sheet[i] \in Rows
    BY DEF Truthful, ContractTypes
  <2>2. \A i \in DOMAIN jobs : jobs[i] \in Messages
    BY DEF Truthful, ContractTypes
  <2>3. \A e \in Envelopes : cards[e] \in Cards
    BY DEF Truthful, ContractTypes
  <2>4. desk.job \in 0..Len(jobs)
    BY DEF Truthful, ContractTypes, DeskIsSound, Busy, Contracts!NoWork
  <2>5. QED
    BY <2>1, <2>2, <2>3, <2>4 DEF Truthful, ContractTypes, Contracts!TypeOK, Rows, Messages, Cards
<1>2. Contracts!RowsAreUnique /\ Contracts!AskedOnce
  BY DEF Truthful, SheetIsSound, CardIsSound, Contracts!AskedOnce
<1>3. Contracts!AddedIsApproved
  BY DEF Truthful, CardIsSound, Approved, Contracts!AddedIsApproved
<1>4. Contracts!CompletedIsCurrent
  BY SyncIsBusy DEF Contracts!CompletedIsCurrent, Contracts!At, SyncIsSound, Current
<1>5. QED
  BY <1>1, <1>2, <1>3, <1>4

(* What the run checks of the contract ledger, of every behaviour.         *)
LEMMA ContractsHold ==
  ASSUME ContractConstants
  PROVE  Contracts!Init /\ [][Contracts!Next]_Contracts!contractVars
           => [](Contracts!TypeOK /\ Contracts!RowsAreUnique /\ Contracts!AskedOnce
                 /\ Contracts!AddedIsApproved /\ Contracts!CompletedIsCurrent)
<1>1. Contracts!Init => Truthful
  BY TruthfulAtFirst
<1>2. Truthful /\ [Contracts!Next]_Contracts!contractVars => Truthful'
  BY TruthfulIsKept
<1>3. Truthful => Contracts!TypeOK /\ Contracts!RowsAreUnique /\ Contracts!AskedOnce
      /\ Contracts!AddedIsApproved /\ Contracts!CompletedIsCurrent
  BY TruthfulIsEnough
<1>4. QED
  BY <1>1, <1>2, <1>3, PTL

-----------------------------------------------------------------------------
(* The suite.                                                              *)

(* The four side by side: each only moves by its own steps.                *)
LEMMA LedgersBehave ==
  Spec => /\ Accounting!Init /\ [][Accounting!Next]_Accounting!ledgerVars
          /\ Contracts!Init /\ [][Contracts!Next]_Contracts!contractVars
          /\ Autonomy!Init /\ [][Autonomy!Next]_Autonomy!autonomyVars
          /\ Installation!Init /\ [][Installation!Next]_Installation!installationVars
<1> USE DEF AccountingMoves, ContractsMoves, AutonomyMoves, InstallationMoves, suiteVars,
            accountingVars, contractVars, autonomyVars, installationVars
<1>1. Init => Accounting!Init /\ Contracts!Init /\ Autonomy!Init /\ Installation!Init
  BY DEF Init
<1>2. [Next]_suiteVars => [Accounting!Next]_Accounting!ledgerVars
  BY DEF Next, Accounting!ledgerVars
<1>3. [Next]_suiteVars => [Contracts!Next]_Contracts!contractVars
  BY DEF Next, Contracts!contractVars
<1>4. [Next]_suiteVars => [Autonomy!Next]_Autonomy!autonomyVars
  BY DEF Next, Autonomy!autonomyVars
<1>5. [Next]_suiteVars => [Installation!Next]_Installation!installationVars
  BY DEF Next, Installation!installationVars
<1>6. QED
  BY <1>1, <1>2, <1>3, <1>4, <1>5, PTL DEF Spec

(* Brainbase gets one account of an operation, however often its message   *)
(* is delivered and whoever writes it, what is marked as written was       *)
(* written, and who finds another batch with the same outcome agrees with  *)
(* it (a0-accounting.ts, operation-accounting.ts).                         *)
THEOREM OperationsAreBookedOnce ==
  ASSUME AccountingConstants
  PROVE  Spec => []AccountsAgree
BY AccountingHolds, LedgersBehave, PTL DEF AccountsAgree

(* One row, one number and one question per envelope, a row that is added  *)
(* was approved, and a run that completes leaves current rows              *)
(* (contract-ledger.ts), for any number of envelopes, jobs and retries.    *)
THEOREM ContractRowsAreTrue ==
  ASSUME ContractConstants
  PROVE  Spec => []ContractsAreTrue
BY ContractsHold, LedgersBehave, PTL DEF ContractsAreTrue

(* Every claimed run is counted, in order, and one run writes at a time    *)
(* (autonomy-run-history.ts, autonomy-scheduled.ts); the code of an intent *)
(* is exchanged once and an event of the workspace is applied once (slack- *)
(* oauth-installation.ts), for any number of runs, intents, callbacks and  *)
(* events.                                                                 *)
THEOREM RunsAndInstallationsAreSingle ==
  ASSUME AutonomyConstants, InstallationConstants
  PROVE  Spec => []RunsAndEventsAreSingle
BY AutonomyHolds, InstallationHolds, LedgersBehave, PTL DEF RunsAndEventsAreSingle

(* The record of a run is final, whoever reports late, until the alarm     *)
(* clears the experiment (handleAutonomyRunHistoryRequest).                *)
THEOREM RunRecordsAreFinal ==
  ASSUME AutonomyConstants
  PROVE  Spec => Autonomy!RecordIsFinal
BY AutonomyHolds, LedgersBehave, PTL

(* A connection that was revoked is revived by a new installation, or by   *)
(* an event that saw it revoked, and by nothing that comes late.           *)
THEOREM RevocationsStay ==
  ASSUME InstallationConstants
  PROVE  Spec => Installation!RevokedStays
BY InstallationHolds, LedgersBehave, PTL

=============================================================================
