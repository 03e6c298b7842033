-------------------------- MODULE DevelopmentProofs --------------------------
(***************************************************************************)
(* Theorems about the parts that DevelopmentMC puts side by side, for      *)
(* every value of their constants.                                         *)
(*                                                                         *)
(* Judgment hook: for any number of calls, Stop events and flaws. Judged   *)
(* is the inductive invariant. Whoever writes the state file read it       *)
(* behind the lock (LockIsHeld), so nothing noted is undone; a call is     *)
(* told to the Host once by its own hook, and again only by a Stop that    *)
(* finds it neither kept nor denied, which takes a flaw (MissedIsLost);    *)
(* and from the question to the Host on nothing is missing (NoneMissing).  *)
(*                                                                         *)
(* Development runner: for any number of runners and kills.  Kept is the   *)
(* inductive invariant: whom the lock names (LockIsKept), whom a runner on *)
(* its way has met (RivalsMet), which runs of a story are over and whose   *)
(* questions its worktree holds (StoriesAreKept).                          *)
(*                                                                         *)
(* Development job: for any number of launches and faults.  Ending is the  *)
(* inductive invariant: what the alarm handler holds is the record         *)
(* (RingHoldsRecord), what it has reached by the step it is at (RingIsAt), *)
(* and what an owner claim that is settled says (OwnerIsSettled).  Asked   *)
(* is the one of the request that starts the job.                          *)
(***************************************************************************)
EXTENDS DevelopmentMC, TLAPS

-----------------------------------------------------------------------------
(* The judgment hook.                                                      *)

(* 0 is no call, and the calls that resolve are calls.                     *)
HookConstants ==
  /\ 0 \notin Calls /\ Resolving \subseteq Calls
  /\ MaxStops \in Nat /\ MaxFlaws \in Nat

Notes == [resolved : BOOLEAN, repair : BOOLEAN, denied : SUBSET Calls, kept : SUBSET Calls]
Phases == {"model", "replay", "ask", "result", "posted", "rejected"}

HookTypes ==
  /\ state \in Notes /\ copy \in [Calls -> Notes] /\ latch \in Calls \cup {0}
  /\ call \in [Calls -> Hook!Stages] /\ outcome \in [Calls -> {"none", "success", "error"}]
  /\ told \in [Calls -> Nat] /\ phase \in Phases /\ verified \in BOOLEAN
  /\ stops \in Nat /\ stops <= MaxStops /\ fresh \in Nat /\ flaws \in Nat

(* Who is behind the lock read what the state file holds.                  *)
Behind == {"denying", "recording", "marking"}

LockIsHeld ==
  /\ \A c \in Calls : call[c] \in Behind => latch = c /\ copy[c] = state
  /\ latch # 0 => call[latch] \in Behind \cup {"over"}

(* Claude ends its answer when no call is under way.                       *)
CallsRest == phase # "model" => \A c \in Calls : call[c] \in {"off", "over"}

(* What a call did by the stage it is at.                                  *)
StageTells ==
  \A c \in Calls :
    /\ call[c] \in {"off", "run"} => outcome[c] = "none"
    /\ call[c] \in {"off", "deny", "denying", "run", "send"} => told[c] = 0
    /\ call[c] \in {"record", "recording", "mark", "marking"} => told[c] = 1
    /\ call[c] \in {"mark", "marking"} => /\ Hook!Resolve(c) /\ outcome[c] = "success"
                                         /\ c \in state.kept
    /\ c \in state.denied => call[c] = "over"
    /\ c \in state.kept => /\ call[c] \in {"mark", "marking", "over"} /\ told[c] > 0
                           /\ c \notin state.denied

(* The turn was resolved, and the Host knows.                              *)
Resolution == \E r \in Resolving : outcome[r] = "success" /\ told[r] > 0

ResolutionFirst ==
  /\ state.resolved => Resolution
  /\ \A c \in Calls : ~Hook!Resolve(c) /\ call[c] \in {"run", "send", "record", "recording"} => Resolution

(* A call is told once by its hook, and once by each Stop that misses it.  *)
ToldByStops ==
  \A c \in Calls : told[c] <= 1 + stops /\ (phase = "replay" /\ c \in Hook!Missing => told[c] <= stops)

(* A call that is missed was not told but for a flaw.                      *)
MissedIsLost ==
  ~Hook!Stuck => \A c \in Calls :
    /\ told[c] <= 1 + flaws
    /\ call[c] = "over" /\ c \notin state.kept \cup state.denied => told[c] <= flaws

(* From the question to the Host on, nothing is missing.                   *)
NoneMissing == phase \in {"ask", "result", "posted", "rejected"} => Hook!Missing = {}

AnswerIsPassed ==
  /\ phase = "result" /\ verified => answer = passed
  /\ phase = "posted" => posted = passed

FirstIsNoted ==
  ~Hook!Stuck =>
    /\ fresh <= 1 + flaws
    /\ ~state.repair /\ phase \in {"model", "replay", "ask"} => fresh <= flaws

Judged ==
  /\ HookTypes
  /\ LockIsHeld
  /\ CallsRest
  /\ StageTells
  /\ ResolutionFirst
  /\ ToldByStops
  /\ MissedIsLost
  /\ NoneMissing
  /\ AnswerIsPassed
  /\ FirstIsNoted

-----------------------------------------------------------------------------
(* A call goes to its next stage, the others stay.                         *)
LEMMA StepMoves ==
  ASSUME call \in [Calls -> Hook!Stages], NEW c \in Calls, NEW p \in Hook!Stages, Hook!Step(c, p)
  PROVE  /\ call' \in [Calls -> Hook!Stages] /\ call'[c] = p
         /\ \A d \in Calls : d # c => call'[d] = call[d]
  BY DEF Hook!Step

(* A flaw is counted.                                                      *)
LEMMA FlawCounts ==
  ASSUME flaws \in Nat, Hook!Flaw
  PROVE  flaws' \in Nat /\ flaws' = flaws + 1
  BY DEF Hook!Flaw

(* More flaws allow no less.                                               *)
LEMMA Grows == \A a, b, d \in Nat : d >= b /\ a <= 1 + b => a <= 1 + d /\ (a <= b => a <= d)
  OBVIOUS

(* What does not ask leaves the question as it was.                        *)
LEMMA FirstStaysNoted ==
  ASSUME FirstIsNoted, fresh \in Nat, flaws \in Nat, flaws' \in Nat, flaws' >= flaws,
         fresh' = fresh, state'.repair = state.repair, phase' = phase, Hook!Stuck => Hook!Stuck'
  PROVE  FirstIsNoted'
  BY Grows DEF FirstIsNoted

(* What tells nothing and loses nothing leaves the journal as it was.      *)
LEMMA MissedStaysLost ==
  ASSUME MissedIsLost, told \in [Calls -> Nat], flaws \in Nat, flaws' \in Nat, flaws' >= flaws,
         told' = told, Hook!Stuck => Hook!Stuck',
         \A c \in Calls : call'[c] = "over" /\ c \notin state'.kept \cup state'.denied
           => told[c] <= flaws' \/ (call[c] = "over" /\ c \notin state.kept \cup state.denied)
  PROVE  MissedIsLost'
  BY Grows DEF MissedIsLost

(* PreToolUse: a read runs only after the turn was resolved.               *)
LEMMA BeforeKeeps ==
  ASSUME HookConstants, Judged, NEW c \in Calls, Hook!Before(c)
  PROVE  Judged'
<1>. USE DEF Judged
<1>a. /\ phase = "model" /\ call[c] = "off"
      /\ UNCHANGED <<state, latch, copy, told, phase, answer, passed, verified, posted, stops, fresh, flaws>>
      /\ Hook!Step(c, IF Hook!Allowed(c) THEN "run" ELSE "deny")
      /\ outcome' = IF Hook!Allowed(c) THEN outcome ELSE [outcome EXCEPT ![c] = "error"]
  BY DEF Hook!Before, Hook!stopVars
<1>b. /\ call' \in [Calls -> Hook!Stages] /\ \A d \in Calls : d # c => call'[d] = call[d]
      /\ call'[c] = IF Hook!Allowed(c) THEN "run" ELSE "deny"
  BY <1>a, StepMoves DEF HookTypes, Hook!Stages
<1>c. /\ outcome' \in [Calls -> {"none", "success", "error"}]
      /\ \A d \in Calls : d # c => outcome'[d] = outcome[d]
      /\ outcome'[c] = IF Hook!Allowed(c) THEN "none" ELSE "error"
      /\ outcome[c] = "none" /\ told[c] = 0
  BY <1>a DEF HookTypes, StageTells
<1>d. Resolution' <=> Resolution
  BY <1>a, <1>c DEF Resolution, HookConstants
<1>e. Hook!Stuck' <=> Hook!Stuck
  BY <1>a, <1>b DEF Hook!Stuck, LockIsHeld, HookTypes, HookConstants, Behind
<1>1. HookTypes'
  BY <1>a, <1>b, <1>c DEF HookTypes
<1>2. LockIsHeld'
  BY <1>a, <1>b DEF LockIsHeld, Behind, HookTypes
<1>3. CallsRest' /\ NoneMissing' /\ AnswerIsPassed'
  BY <1>a DEF CallsRest, NoneMissing, AnswerIsPassed
<1>4. StageTells'
  BY <1>a, <1>b, <1>c DEF StageTells
<1>5. ResolutionFirst'
  <2>1. Hook!Allowed(c) /\ ~Hook!Resolve(c) => Resolution
    BY DEF Hook!Allowed, ResolutionFirst, HookTypes, Notes, Hook!Resolve
  <2>2. QED
    BY <1>a, <1>b, <1>d, <2>1 DEF ResolutionFirst, Hook!Resolve
<1>6. ToldByStops'
  BY <1>a DEF ToldByStops
<1>7. MissedIsLost'
  BY <1>a, <1>b, <1>e DEF MissedIsLost
<1>8. FirstIsNoted'
  BY <1>a, <1>e DEF FirstIsNoted
<1>9. QED
  BY <1>1, <1>2, <1>3, <1>4, <1>5, <1>6, <1>7, <1>8

(* A call returns, with its hook or without.                               *)
LEMMA ReturnKeeps ==
  ASSUME HookConstants, Judged, NEW c \in Calls, Hook!Return(c) \/ Hook!Omit(c)
  PROVE  Judged'
<1>. USE DEF Judged
<1>. DEFINE p == IF Hook!Return(c) THEN "send" ELSE "over"
<1>a. /\ call[c] = "run"
      /\ UNCHANGED <<state, latch, copy, told, phase, answer, passed, verified, posted, stops, fresh>>
      /\ \E q \in {"send", "over"} : Hook!Step(c, q)
      /\ \E o \in {"success", "error"} : outcome' = [outcome EXCEPT ![c] = o]
      /\ flaws' \in Nat /\ flaws' >= flaws
  BY FlawCounts DEF Hook!Return, Hook!Omit, Hook!stopVars, HookTypes
<1>b. /\ call' \in [Calls -> Hook!Stages] /\ \A d \in Calls : d # c => call'[d] = call[d]
      /\ call'[c] \in {"send", "over"}
  BY <1>a, StepMoves DEF HookTypes, Hook!Stages
<1>c. /\ outcome' \in [Calls -> {"none", "success", "error"}]
      /\ \A d \in Calls : d # c => outcome'[d] = outcome[d]
      /\ outcome[c] = "none" /\ told[c] = 0 /\ phase = "model"
  BY <1>a DEF HookTypes, StageTells, CallsRest
<1>d. Resolution => Resolution'
  BY <1>a, <1>c DEF Resolution, HookConstants
<1>e. Hook!Stuck' <=> Hook!Stuck
  BY <1>a, <1>b DEF Hook!Stuck, LockIsHeld, HookTypes, HookConstants, Behind
<1>1. HookTypes'
  BY <1>a, <1>b, <1>c DEF HookTypes
<1>2. LockIsHeld'
  BY <1>a, <1>b DEF LockIsHeld, Behind, HookTypes
<1>3. CallsRest' /\ NoneMissing' /\ AnswerIsPassed'
  BY <1>a, <1>c DEF CallsRest, NoneMissing, AnswerIsPassed
<1>4. StageTells'
  BY <1>a, <1>b, <1>c DEF StageTells
<1>5. ResolutionFirst'
  BY <1>a, <1>b, <1>d DEF ResolutionFirst, Hook!Resolve
<1>6. ToldByStops'
  BY <1>a, <1>c DEF ToldByStops
<1>7. MissedIsLost'
  BY <1>a, <1>b, <1>c, <1>e DEF MissedIsLost, HookTypes
<1>8. FirstIsNoted'
  <2>1. fresh \in Nat /\ flaws \in Nat
    BY DEF HookTypes
  <2>2. QED
    BY <1>a, <1>e, <2>1, FirstStaysNoted
<1>9. QED
  BY <1>1, <1>2, <1>3, <1>4, <1>5, <1>6, <1>7, <1>8

(* PostToolUse tells the Host, once.                                       *)
LEMMA SendKeeps ==
  ASSUME HookConstants, Judged, NEW c \in Calls, Hook!Send(c)
  PROVE  Judged'
<1>. USE DEF Judged
<1>a. /\ call[c] = "send"
      /\ UNCHANGED <<state, latch, copy, outcome, phase, answer, passed, verified, posted, stops, fresh>>
      /\ told' = [told EXCEPT ![c] = @ + 1]
      /\ \/ Hook!Step(c, "record") /\ flaws' = flaws
         \/ Hook!Step(c, "over") /\ flaws' = flaws + 1
  BY DEF Hook!Send, Hook!Flaw, Hook!stopVars, HookTypes
<1>b. /\ call' \in [Calls -> Hook!Stages] /\ \A d \in Calls : d # c => call'[d] = call[d]
      /\ \/ call'[c] = "record" /\ flaws' = flaws
         \/ call'[c] = "over" /\ flaws' = flaws + 1
  BY <1>a, StepMoves DEF HookTypes, Hook!Stages
<1>c. /\ told' \in [Calls -> Nat] /\ told'[c] = 1 /\ phase = "model"
      /\ \A d \in Calls : d # c => told'[d] = told[d]
      /\ c \notin state.kept /\ c \notin state.denied
  BY <1>a DEF HookTypes, StageTells, CallsRest
<1>d. Resolution => Resolution'
  BY <1>a, <1>c DEF Resolution, HookConstants, HookTypes
<1>e. Hook!Stuck' <=> Hook!Stuck
  BY <1>a, <1>b DEF Hook!Stuck, LockIsHeld, HookTypes, HookConstants, Behind
<1>1. HookTypes'
  BY <1>a, <1>b, <1>c DEF HookTypes
<1>2. LockIsHeld'
  BY <1>a, <1>b DEF LockIsHeld, Behind, HookTypes
<1>3. CallsRest' /\ NoneMissing' /\ AnswerIsPassed'
  BY <1>a, <1>c DEF CallsRest, NoneMissing, AnswerIsPassed
<1>4. StageTells'
  BY <1>a, <1>b, <1>c DEF StageTells
<1>5. ResolutionFirst'
  BY <1>a, <1>b, <1>d DEF ResolutionFirst, Hook!Resolve
<1>6. ToldByStops'
  BY <1>a, <1>c DEF ToldByStops, HookTypes
<1>7. MissedIsLost'
  BY <1>a, <1>b, <1>c, <1>e DEF MissedIsLost, HookTypes
<1>8. FirstIsNoted'
  BY <1>a, <1>b, <1>e DEF FirstIsNoted, HookTypes
<1>9. QED
  BY <1>1, <1>2, <1>3, <1>4, <1>5, <1>6, <1>7, <1>8

(* A hook reads the state file behind the lock.                            *)
LEMMA EnterKeeps ==
  ASSUME HookConstants, Judged, NEW c \in Calls, Hook!Enter(c)
  PROVE  Judged'
<1>. USE DEF Judged
<1>a. /\ call[c] \in {"deny", "record", "mark"} /\ latch = 0 /\ latch' = c
      /\ copy' = [copy EXCEPT ![c] = state]
      /\ UNCHANGED <<state, outcome, told, phase, answer, passed, verified, posted, stops, fresh, flaws>>
      /\ Hook!Step(c, Hook!Waits[call[c]])
  BY DEF Hook!Enter, Hook!Waits, Hook!LockFree, Hook!stopVars
<1>b. /\ call' \in [Calls -> Hook!Stages] /\ \A d \in Calls : d # c => call'[d] = call[d]
      /\ call'[c] \in Behind
      /\ call[c] = "deny" => call'[c] = "denying"
      /\ call[c] = "record" => call'[c] = "recording"
      /\ call[c] = "mark" => call'[c] = "marking"
  <2>1. /\ Hook!Waits[call[c]] \in Hook!Stages /\ Hook!Waits[call[c]] \in Behind
        /\ call[c] = "deny" => Hook!Waits[call[c]] = "denying"
        /\ call[c] = "record" => Hook!Waits[call[c]] = "recording"
        /\ call[c] = "mark" => Hook!Waits[call[c]] = "marking"
    BY <1>a DEF Hook!Waits, Hook!Stages, Behind
  <2>2. call \in [Calls -> Hook!Stages]
    BY DEF HookTypes
  <2>3. QED
    BY <1>a, <2>1, <2>2, StepMoves
<1>c. /\ copy' \in [Calls -> Notes] /\ copy'[c] = state /\ phase = "model" /\ c # 0
      /\ \A d \in Calls : call[d] \notin Behind
  BY <1>a DEF HookTypes, LockIsHeld, CallsRest, HookConstants
<1>d. Resolution' <=> Resolution
  BY <1>a DEF Resolution
<1>e. ~Hook!Stuck /\ ~Hook!Stuck'
  BY <1>a, <1>b DEF Hook!Stuck, Behind
<1>1. HookTypes'
  BY <1>a, <1>b, <1>c DEF HookTypes
<1>2. LockIsHeld'
  BY <1>a, <1>b, <1>c DEF LockIsHeld
<1>3. CallsRest' /\ NoneMissing' /\ AnswerIsPassed'
  BY <1>a, <1>c DEF CallsRest, NoneMissing, AnswerIsPassed
<1>4. StageTells'
  BY <1>a, <1>b DEF StageTells
<1>5. ResolutionFirst'
  BY <1>a, <1>b, <1>d DEF ResolutionFirst, Hook!Resolve
<1>6. ToldByStops'
  BY <1>a, <1>c DEF ToldByStops
<1>7. MissedIsLost'
  BY <1>a, <1>b, <1>e DEF MissedIsLost
<1>8. FirstIsNoted'
  BY <1>a, <1>e DEF FirstIsNoted
<1>9. QED
  BY <1>1, <1>2, <1>3, <1>4, <1>5, <1>6, <1>7, <1>8

(* Who writes the state file read it behind the lock, and adds to it.      *)
LEMMA PersistMoves ==
  ASSUME HookConstants, Judged, NEW c \in Calls, Hook!Persist(c)
  PROVE  /\ call[c] \in Behind /\ latch = c /\ latch' = 0 /\ phase = "model"
         /\ copy' \in [Calls -> Notes] /\ state' \in Notes /\ state'.repair = state.repair
         /\ state'.denied = IF call[c] = "denying" THEN state.denied \cup {c} ELSE state.denied
         /\ state'.kept = IF call[c] = "recording" THEN state.kept \cup {c} ELSE state.kept
         /\ state'.resolved = IF call[c] = "marking" THEN TRUE ELSE state.resolved
         /\ call' \in [Calls -> Hook!Stages] /\ \A d \in Calls : d # c => call'[d] = call[d]
         /\ \/ call'[c] = "over"
            \/ call[c] = "recording" /\ call'[c] = "mark" /\ Hook!Resolve(c) /\ outcome[c] = "success"
         /\ flaws' \in Nat /\ flaws' >= flaws
         /\ UNCHANGED <<outcome, told, phase, answer, passed, verified, posted, stops, fresh>>
<1>. USE DEF Judged
<1>1. /\ call[c] \in Behind /\ latch = c /\ copy[c] = state /\ phase = "model"
  BY DEF Hook!Persist, Behind, LockIsHeld, CallsRest
<1>2. /\ latch' = 0 /\ copy' = [copy EXCEPT ![c] = Hook!Blank] /\ state' = Hook!Updated(c)
      /\ UNCHANGED <<outcome, told, phase, answer, passed, verified, posted, stops, fresh>>
  BY DEF Hook!Persist, Hook!stopVars
<1>3. copy' \in [Calls -> Notes]
  BY <1>2 DEF HookTypes, Hook!Blank, Notes
<1>4. state \in Notes
  BY DEF HookTypes
<1>5. /\ state' \in Notes /\ state'.repair = state.repair
      /\ state'.denied = IF call[c] = "denying" THEN state.denied \cup {c} ELSE state.denied
      /\ state'.kept = IF call[c] = "recording" THEN state.kept \cup {c} ELSE state.kept
      /\ state'.resolved = IF call[c] = "marking" THEN TRUE ELSE state.resolved
  <2>1. CASE call[c] = "denying"
    BY <1>1, <1>2, <1>4, <2>1 DEF Hook!Updated, Notes
  <2>2. CASE call[c] = "recording"
    BY <1>1, <1>2, <1>4, <2>2 DEF Hook!Updated, Notes
  <2>3. CASE call[c] = "marking"
    BY <1>1, <1>2, <1>4, <2>3 DEF Hook!Updated, Notes
  <2>4. QED
    BY <1>1, <2>1, <2>2, <2>3 DEF Behind
<1>6. \/ Hook!Step(c, "over")
      \/ call[c] = "recording" /\ Hook!Step(c, "mark") /\ Hook!Resolve(c) /\ outcome[c] = "success"
  BY DEF Hook!Persist
<1>7. /\ call' \in [Calls -> Hook!Stages] /\ \A d \in Calls : d # c => call'[d] = call[d]
      /\ \/ call'[c] = "over"
         \/ call[c] = "recording" /\ call'[c] = "mark" /\ Hook!Resolve(c) /\ outcome[c] = "success"
  BY <1>6, StepMoves DEF HookTypes, Hook!Stages
<1>8. flaws' \in Nat /\ flaws' >= flaws
  <2>1. flaws \in Nat
    BY DEF HookTypes
  <2>2. UNCHANGED flaws \/ Hook!Flaw
    BY DEF Hook!Persist
  <2>3. QED
    BY <2>1, <2>2, FlawCounts
<1>9. QED
  BY <1>1, <1>2, <1>3, <1>5, <1>7, <1>8

(* It adds to what it read, which nobody has changed since.                *)
LEMMA PersistKeeps ==
  ASSUME HookConstants, Judged, NEW c \in Calls, Hook!Persist(c)
  PROVE  Judged'
<1>. USE DEF Judged
<1>a. /\ call[c] \in Behind /\ latch = c /\ latch' = 0 /\ phase = "model"
      /\ copy' \in [Calls -> Notes] /\ state' \in Notes /\ state'.repair = state.repair
      /\ call' \in [Calls -> Hook!Stages] /\ \A d \in Calls : d # c => call'[d] = call[d]
      /\ \/ call'[c] = "over"
         \/ call[c] = "recording" /\ call'[c] = "mark" /\ Hook!Resolve(c) /\ outcome[c] = "success"
      /\ flaws' \in Nat /\ flaws' >= flaws
      /\ UNCHANGED <<outcome, told, phase, answer, passed, verified, posted, stops, fresh>>
  BY PersistMoves
<1>b. /\ state'.denied = IF call[c] = "denying" THEN state.denied \cup {c} ELSE state.denied
      /\ state'.kept = IF call[c] = "recording" THEN state.kept \cup {c} ELSE state.kept
      /\ state'.resolved = IF call[c] = "marking" THEN TRUE ELSE state.resolved
  BY PersistMoves
<1>c. /\ fresh \in Nat /\ flaws \in Nat /\ told \in [Calls -> Nat] /\ c # 0
      /\ state.denied \subseteq Calls /\ state.kept \subseteq Calls
  BY DEF HookTypes, Notes, HookConstants
<1>d. Resolution' <=> Resolution
  BY <1>a DEF Resolution
<1>e. ~Hook!Stuck /\ ~Hook!Stuck'
  BY <1>a, <1>c DEF Hook!Stuck, Behind
<1>1. HookTypes'
  BY <1>a DEF HookTypes
<1>2. LockIsHeld'
  BY <1>a DEF LockIsHeld, Behind
<1>3. CallsRest' /\ NoneMissing' /\ AnswerIsPassed'
  BY <1>a DEF CallsRest, NoneMissing, AnswerIsPassed
<1>4. StageTells'
  BY <1>a, <1>b, <1>c DEF StageTells, Behind
<1>5. ResolutionFirst'
  <2>1. call[c] = "marking" => Resolution
    BY <1>c DEF StageTells, Resolution, Hook!Resolve
  <2>2. QED
    BY <1>a, <1>b, <1>d, <2>1 DEF ResolutionFirst, Hook!Resolve
<1>6. ToldByStops'
  BY <1>a DEF ToldByStops
<1>7. MissedIsLost'
  <2>1. c \in state'.kept \cup state'.denied
    BY <1>a, <1>b DEF Behind, StageTells
  <2>2. \A d \in Calls : d # c => (d \in state'.kept \cup state'.denied <=> d \in state.kept \cup state.denied)
    BY <1>b
  <2>3. QED
    BY <1>a, <1>c, <1>e, <2>1, <2>2, MissedStaysLost
<1>8. FirstIsNoted'
  BY <1>a, <1>c, <1>e, FirstStaysNoted
<1>9. QED
  BY <1>1, <1>2, <1>3, <1>4, <1>5, <1>6, <1>7, <1>8

(* A hook that dies with the lock keeps the later ones out.                *)
LEMMA DieKeeps ==
  ASSUME HookConstants, Judged, NEW c \in Calls, Hook!Die(c) \/ Hook!GiveUp(c)
  PROVE  Judged'
<1>. USE DEF Judged
<1>a. /\ call[c] \notin {"off", "over", "run", "send"}
      /\ UNCHANGED <<state, latch, copy, outcome, told, phase, answer, passed, verified, posted, stops, fresh>>
      /\ Hook!Step(c, "over")
      /\ call[c] \in Behind \/ Hook!Stuck
  BY DEF Hook!Die, Hook!GiveUp, Hook!Waits, Hook!stopVars, Behind, Hook!Stuck
<1>b. /\ call' \in [Calls -> Hook!Stages] /\ \A d \in Calls : d # c => call'[d] = call[d]
      /\ call'[c] = "over"
  BY <1>a, StepMoves DEF HookTypes, Hook!Stages
<1>c. flaws' \in Nat
  <2>1. flaws \in Nat
    BY DEF HookTypes
  <2>2. UNCHANGED flaws \/ Hook!Flaw
    BY DEF Hook!Die, Hook!GiveUp
  <2>3. QED
    BY <2>1, <2>2, FlawCounts
<1>d. Resolution' <=> Resolution
  BY <1>a DEF Resolution
<1>e. Hook!Stuck' /\ phase = "model"
  <2>1. phase = "model"
    BY <1>a DEF CallsRest
  <2>2. CASE Hook!Stuck
    <3>1. latch \in Calls /\ latch # 0 /\ call[latch] = "over"
      BY <2>2 DEF Hook!Stuck, HookTypes
    <3>2. call'[latch] = "over"
      BY <1>b, <3>1
    <3>3. QED
      BY <1>a, <2>1, <3>1, <3>2 DEF Hook!Stuck
  <2>3. CASE call[c] \in Behind
    <3>1. latch = c /\ c # 0
      BY <2>3 DEF LockIsHeld, HookConstants
    <3>2. QED
      BY <1>a, <1>b, <2>1, <3>1 DEF Hook!Stuck
  <2>4. QED
    BY <1>a, <2>1, <2>2, <2>3
<1>1. HookTypes'
  BY <1>a, <1>b, <1>c DEF HookTypes
<1>2. LockIsHeld'
  BY <1>a, <1>b DEF LockIsHeld, Behind, HookTypes
<1>3. CallsRest' /\ NoneMissing' /\ AnswerIsPassed'
  BY <1>a, <1>e DEF CallsRest, NoneMissing, AnswerIsPassed
<1>4. StageTells'
  BY <1>a, <1>b DEF StageTells
<1>5. ResolutionFirst'
  BY <1>a, <1>b, <1>d DEF ResolutionFirst, Hook!Resolve
<1>6. ToldByStops'
  BY <1>a, <1>e DEF ToldByStops
<1>7. MissedIsLost' /\ FirstIsNoted'
  BY <1>e DEF MissedIsLost, FirstIsNoted
<1>8. QED
  BY <1>1, <1>2, <1>3, <1>4, <1>5, <1>6, <1>7

-----------------------------------------------------------------------------
(* Claude ends its answer when no call is under way.                       *)
LEMMA StopKeeps ==
  ASSUME HookConstants, Judged, Hook!Stop
  PROVE  Judged'
<1>. USE DEF Judged
<1>a. /\ phase = "model" /\ phase' = "replay" /\ stops' = stops + 1 /\ stops < MaxStops
      /\ \A c \in Calls : call[c] \in {"off", "over"}
      /\ UNCHANGED <<state, latch, copy, call, outcome, told, passed, verified, posted, fresh, flaws>>
  BY DEF Hook!Stop, Hook!turnVars
<1>b. Hook!Stuck' <=> Hook!Stuck
  BY <1>a DEF Hook!Stuck
<1>1. HookTypes'
  BY <1>a DEF HookTypes, Phases, HookConstants
<1>2. LockIsHeld' /\ CallsRest' /\ StageTells'
  BY <1>a DEF LockIsHeld, CallsRest, StageTells
<1>3. ResolutionFirst'
  BY <1>a DEF ResolutionFirst, Resolution
<1>4. ToldByStops'
  BY <1>a DEF ToldByStops, HookTypes
<1>5. MissedIsLost' /\ NoneMissing' /\ AnswerIsPassed' /\ FirstIsNoted'
  BY <1>a, <1>b DEF MissedIsLost, NoneMissing, AnswerIsPassed, FirstIsNoted
<1>6. QED
  BY <1>1, <1>2, <1>3, <1>4, <1>5

(* Stop tells the Host of a call that was missed.                          *)
LEMMA ReplayKeeps ==
  ASSUME HookConstants, Judged, NEW c \in Calls, Hook!Replay(c)
  PROVE  Judged'
<1>. USE DEF Judged
<1>a. /\ phase = "replay" /\ c \in Hook!Missing /\ told' = [told EXCEPT ![c] = @ + 1]
      /\ UNCHANGED <<latch, call, copy, outcome, passed, posted, stops, fresh, verified>>
      /\ \A d \in Calls : call[d] \in {"off", "over"}
      /\ call[c] = "over" /\ outcome[c] # "none" /\ c \notin state.kept /\ c \notin state.denied
  BY DEF Hook!Replay, Hook!Fail, Hook!stopVars, CallsRest, StageTells, Hook!Missing, Hook!Seen
<1>b. /\ told' \in [Calls -> Nat] /\ told'[c] = told[c] + 1 /\ told[c] \in Nat
      /\ \A d \in Calls : d # c => told'[d] = told[d]
      /\ fresh \in Nat /\ flaws \in Nat /\ state \in Notes /\ stops \in Nat
  BY <1>a DEF HookTypes
<1>c. \/ /\ latch = 0 /\ phase' = "replay" /\ flaws' = flaws
         /\ state' = [state EXCEPT !.kept = @ \cup {c}, !.resolved = @ \/ (Hook!Resolve(c) /\ outcome[c] = "success")]
      \/ latch # 0 /\ phase' = "model" /\ state' = state /\ flaws' = flaws
      \/ phase' = "model" /\ state' = state /\ flaws' = flaws + 1
  BY <1>a DEF Hook!Replay, Hook!Fail, Hook!Flaw, Hook!stopVars
<1>d. /\ state' \in Notes /\ state'.denied = state.denied /\ state'.repair = state.repair
      /\ \/ state' = state /\ phase' = "model"
         \/ /\ state'.kept = state.kept \cup {c} /\ phase' = "replay"
            /\ state'.resolved = (state.resolved \/ (Hook!Resolve(c) /\ outcome[c] = "success"))
  <2>1. CASE state' = state /\ phase' = "model"
    BY <1>b, <2>1
  <2>2. CASE /\ phase' = "replay"
             /\ state' = [state EXCEPT !.kept = @ \cup {c},
                           !.resolved = @ \/ (Hook!Resolve(c) /\ outcome[c] = "success")]
    <3>. DEFINE resolved == state.resolved \/ (Hook!Resolve(c) /\ outcome[c] = "success")
    <3>1. resolved \in BOOLEAN
      OBVIOUS
    <3>2. state' = [state EXCEPT !.kept = @ \cup {c}, !.resolved = resolved]
      BY <2>2
    <3>. HIDE DEF resolved
    <3>3. /\ state' \in Notes /\ state'.denied = state.denied /\ state'.repair = state.repair
          /\ state'.kept = state.kept \cup {c} /\ state'.resolved = resolved
      BY <1>b, <3>1, <3>2 DEF Notes
    <3>4. QED
      BY <2>2, <3>3 DEF resolved
  <2>3. QED
    BY <1>c, <2>1, <2>2
<1>e. Resolution => Resolution'
  BY <1>a, <1>b DEF Resolution, HookConstants
<1>f. (Hook!Stuck' <=> Hook!Stuck) /\ (latch # 0 => Hook!Stuck)
  BY <1>a DEF Hook!Stuck, LockIsHeld, HookTypes, Behind
<1>1. HookTypes'
  BY <1>a, <1>b, <1>c, <1>d DEF HookTypes, Phases
<1>2. LockIsHeld' /\ CallsRest'
  BY <1>a DEF LockIsHeld, CallsRest, Behind
<1>3. StageTells'
  BY <1>a, <1>b, <1>d DEF StageTells
<1>4. ResolutionFirst'
  <2>1. Hook!Resolve(c) /\ outcome[c] = "success" => Resolution'
    BY <1>a, <1>b DEF Resolution, Hook!Resolve
  <2>2. QED
    BY <1>a, <1>d, <1>e, <2>1 DEF ResolutionFirst, Hook!Resolve
<1>5. ToldByStops'
  <2>1. \A d \in Calls : d # c /\ d \in Hook!Missing' => d \in Hook!Missing
    BY <1>a, <1>d DEF Hook!Missing, Hook!Seen
  <2>2. phase' = "replay" => c \notin Hook!Missing'
    BY <1>b, <1>c, <1>d DEF Hook!Missing, Notes
  <2>3. QED
    BY <1>a, <1>b, <2>1, <2>2 DEF ToldByStops
<1>6. MissedIsLost'
  <2>. SUFFICES ASSUME ~Hook!Stuck'
                PROVE  \A d \in Calls :
                         /\ told'[d] <= 1 + flaws'
                         /\ call'[d] = "over" /\ d \notin state'.kept \cup state'.denied => told'[d] <= flaws'
    BY DEF MissedIsLost
  <2>1. /\ told[c] <= flaws
        /\ \A d \in Calls : /\ told[d] <= 1 + flaws
                            /\ call[d] = "over" /\ d \notin state.kept \cup state.denied => told[d] <= flaws
    BY <1>a, <1>f DEF MissedIsLost
  <2>2. \/ flaws' = flaws /\ c \in state'.kept
        \/ flaws' = flaws + 1
    BY <1>a, <1>c, <1>d, <1>f
  <2>3. \A d \in Calls : d # c => (d \in state'.kept \cup state'.denied <=> d \in state.kept \cup state.denied)
    BY <1>d
  <2>4. \A d \in Calls : told[d] \in Nat
    BY DEF HookTypes
  <2>5. QED
    BY <1>a, <1>b, <2>1, <2>2, <2>3, <2>4
<1>7. NoneMissing' /\ AnswerIsPassed'
  BY <1>c DEF NoneMissing, AnswerIsPassed
<1>8. FirstIsNoted'
  BY <1>a, <1>b, <1>c, <1>d, <1>f DEF FirstIsNoted
<1>9. QED
  BY <1>1, <1>2, <1>3, <1>4, <1>5, <1>6, <1>7, <1>8

(* Then nothing is missing.                                                *)
LEMMA ReplayedKeeps ==
  ASSUME HookConstants, Judged, Hook!Replayed
  PROVE  Judged'
<1>. USE DEF Judged
<1>a. /\ phase = "replay" /\ phase' = "ask" /\ Hook!Missing = {}
      /\ UNCHANGED <<state, latch, copy, call, outcome, told, passed, verified, posted, stops, fresh, flaws>>
  BY DEF Hook!Replayed, Hook!turnVars
<1>b. (Hook!Stuck' <=> Hook!Stuck) /\ Hook!Missing' = Hook!Missing
  BY <1>a DEF Hook!Stuck, Hook!Missing, Hook!Seen
<1>1. HookTypes'
  BY <1>a DEF HookTypes, Phases
<1>2. LockIsHeld' /\ CallsRest' /\ StageTells'
  BY <1>a DEF LockIsHeld, CallsRest, StageTells
<1>3. ResolutionFirst' /\ ToldByStops'
  BY <1>a DEF ResolutionFirst, Resolution, ToldByStops
<1>4. MissedIsLost' /\ NoneMissing' /\ AnswerIsPassed' /\ FirstIsNoted'
  BY <1>a, <1>b DEF MissedIsLost, NoneMissing, AnswerIsPassed, FirstIsNoted
<1>5. QED
  BY <1>1, <1>2, <1>3, <1>4

(* The Host is asked: what it says of the answer leaves the calls alone.   *)
LEMMA AskKeeps ==
  ASSUME HookConstants, Judged, Hook!AskPass \/ Hook!AskRepair \/ Hook!AskBlocked \/ Hook!AskFails
  PROVE  Judged'
<1>. USE DEF Judged
<1>a. /\ phase = "ask" /\ phase' \in {"model", "result"}
      /\ UNCHANGED <<latch, copy, call, outcome, told, posted, stops>>
      /\ fresh' = IF state.repair THEN fresh ELSE fresh + 1
      /\ verified' \in BOOLEAN
      /\ phase' = "result" /\ verified' => answer' = passed'
  BY DEF Hook!AskPass, Hook!AskRepair, Hook!AskBlocked, Hook!AskFails, Hook!Pass, Hook!Fail, Hook!Asks,
     Hook!turnVars, HookTypes
<1>b. /\ fresh \in Nat /\ flaws \in Nat /\ state \in Notes
      /\ latch # 0 => Hook!Stuck
  BY <1>a DEF HookTypes, CallsRest, Hook!Stuck, LockIsHeld, Behind
<1>c. /\ state' \in Notes /\ state'.denied = state.denied /\ state'.kept = state.kept
      /\ state'.resolved = state.resolved
      /\ state' = state \/ state'.repair = TRUE
  BY <1>b DEF Hook!AskPass, Hook!AskRepair, Hook!AskBlocked, Hook!AskFails, Hook!NoteRepair, Hook!turnVars,
     Notes
<1>d. /\ flaws' \in Nat
      /\ \/ flaws' = flaws /\ (state'.repair \/ phase' = "result" \/ Hook!Stuck)
         \/ flaws' = flaws + 1
  <2>1. CASE Hook!AskPass
    BY <1>b, <2>1 DEF Hook!AskPass, Hook!Pass
  <2>2. CASE Hook!AskRepair \/ Hook!AskBlocked
    BY <1>b, <2>2 DEF Hook!AskRepair, Hook!AskBlocked, Hook!NoteRepair, Notes
  <2>3. CASE Hook!AskFails
    BY <1>b, <2>3 DEF Hook!AskFails, Hook!Flaw
  <2>4. QED
    BY <2>1, <2>2, <2>3
<1>e. (Hook!Stuck' <=> Hook!Stuck) /\ Hook!Missing' = Hook!Missing
  BY <1>a, <1>c DEF Hook!Stuck, Hook!Missing, Hook!Seen
<1>1. HookTypes'
  BY <1>a, <1>b, <1>c, <1>d DEF HookTypes, Phases
<1>2. LockIsHeld' /\ CallsRest'
  BY <1>a, <1>c DEF LockIsHeld, CallsRest, Behind
<1>3. StageTells'
  BY <1>a, <1>c DEF StageTells
<1>4. ResolutionFirst' /\ ToldByStops'
  BY <1>a, <1>c DEF ResolutionFirst, Resolution, ToldByStops
<1>5. MissedIsLost'
  <2>1. flaws' >= flaws
    BY <1>b, <1>d
  <2>2. \A c \in Calls : told[c] \in Nat
    BY DEF HookTypes
  <2>3. QED
    BY <1>a, <1>b, <1>c, <1>d, <1>e, <2>1, <2>2 DEF MissedIsLost
<1>6. NoneMissing' /\ AnswerIsPassed'
  BY <1>a, <1>e DEF NoneMissing, AnswerIsPassed
<1>7. FirstIsNoted'
  <2>. SUFFICES ASSUME ~Hook!Stuck'
                PROVE  /\ fresh' <= 1 + flaws'
                       /\ ~state'.repair /\ phase' \in {"model", "replay", "ask"} => fresh' <= flaws'
    BY DEF FirstIsNoted
  <2>1. fresh <= 1 + flaws /\ (~state.repair => fresh <= flaws)
    BY <1>a, <1>e DEF FirstIsNoted
  <2>2. fresh' \in Nat
    BY <1>a, <1>b
  <2>3. CASE state.repair
    <3>1. state'.repair
      BY <1>c, <2>3
    <3>2. flaws' >= flaws /\ fresh' = fresh
      BY <1>a, <1>b, <1>d, <2>3
    <3>3. QED
      BY <1>b, <1>d, <2>1, <3>1, <3>2, Grows
  <2>4. CASE ~state.repair
    <3>1. fresh' = fresh + 1 /\ fresh <= flaws
      BY <1>a, <2>1, <2>4
    <3>2. CASE flaws' = flaws + 1
      BY <1>b, <2>2, <3>1, <3>2
    <3>3. CASE flaws' = flaws /\ (state'.repair \/ phase' = "result")
      BY <1>b, <2>2, <3>1, <3>3
    <3>4. QED
      BY <1>d, <1>e, <3>2, <3>3
  <2>5. QED
    BY <2>3, <2>4
<1>8. QED
  BY <1>1, <1>2, <1>3, <1>4, <1>5, <1>6, <1>7

(* The Worker posts what was passed, or rejects it.                        *)
LEMMA EndKeeps ==
  ASSUME HookConstants, Judged, Hook!Post \/ Hook!Reject
  PROVE  Judged'
<1>. USE DEF Judged
<1>a. /\ phase = "result" /\ phase' \in {"posted", "rejected"}
      /\ UNCHANGED <<state, latch, copy, call, outcome, told, passed, verified, stops, fresh, flaws>>
      /\ phase' = "posted" => posted' = passed
  BY DEF Hook!Post, Hook!Reject, Hook!turnVars, Hook!Canonical, AnswerIsPassed
<1>b. (Hook!Stuck' <=> Hook!Stuck) /\ Hook!Missing' = Hook!Missing
  BY <1>a DEF Hook!Stuck, Hook!Missing, Hook!Seen
<1>1. HookTypes'
  BY <1>a DEF HookTypes, Phases
<1>2. LockIsHeld' /\ CallsRest' /\ StageTells'
  BY <1>a DEF LockIsHeld, CallsRest, StageTells
<1>3. ResolutionFirst' /\ ToldByStops'
  BY <1>a DEF ResolutionFirst, Resolution, ToldByStops
<1>4. MissedIsLost' /\ NoneMissing' /\ AnswerIsPassed' /\ FirstIsNoted'
  BY <1>a, <1>b DEF MissedIsLost, NoneMissing, AnswerIsPassed, FirstIsNoted
<1>5. QED
  BY <1>1, <1>2, <1>3, <1>4

-----------------------------------------------------------------------------
(* It holds at first.                                                      *)
LEMMA JudgedAtFirst ==
  ASSUME HookConstants, Hook!Init
  PROVE  Judged
<1>. USE DEF Hook!Init
<1>a. Hook!Blank \in Notes /\ 0 <= MaxStops
  BY DEF Hook!Blank, Notes, HookConstants
<1>1. HookTypes
  BY <1>a DEF HookTypes, Hook!Stages, Phases
<1>2. LockIsHeld /\ CallsRest /\ StageTells
  BY DEF LockIsHeld, Behind, CallsRest, StageTells, Hook!Blank
<1>3. ResolutionFirst /\ ToldByStops
  BY DEF ResolutionFirst, Hook!Blank, ToldByStops
<1>4. MissedIsLost /\ NoneMissing /\ AnswerIsPassed /\ FirstIsNoted
  BY DEF MissedIsLost, NoneMissing, AnswerIsPassed, FirstIsNoted
<1>5. QED
  BY <1>1, <1>2, <1>3, <1>4 DEF Judged

(* Every step keeps it.                                                    *)
LEMMA JudgedIsKept ==
  ASSUME HookConstants, Judged, [Hook!Next]_Hook!vars
  PROVE  Judged'
<1>1. ASSUME NEW c \in Calls,
             \/ Hook!Before(c) \/ Hook!Return(c) \/ Hook!Omit(c) \/ Hook!Send(c) \/ Hook!Enter(c) \/ Hook!Persist(c)
             \/ Hook!Die(c) \/ Hook!GiveUp(c) \/ Hook!Replay(c)
      PROVE  Judged'
  BY <1>1, BeforeKeeps, ReturnKeeps, SendKeeps, EnterKeeps, PersistKeeps, DieKeeps, ReplayKeeps
<1>2. CASE Hook!Stop \/ Hook!Replayed \/ Hook!AskPass \/ Hook!AskRepair \/ Hook!AskBlocked \/ Hook!AskFails
            \/ Hook!Post \/ Hook!Reject
  BY <1>2, StopKeeps, ReplayedKeeps, AskKeeps, EndKeeps
<1>3. CASE UNCHANGED Hook!vars
  <2>1. UNCHANGED <<state, latch, call, copy, outcome, told, phase, answer, passed, verified,
                    posted, stops, fresh, flaws>>
    BY <1>3 DEF Hook!vars, Hook!turnVars, Hook!stopVars
  <2>2. QED
    BY <2>1 DEF Judged, HookTypes, LockIsHeld, CallsRest, StageTells, ResolutionFirst, Resolution,
                ToldByStops, MissedIsLost, Hook!Stuck, Hook!Missing, Hook!Seen, NoneMissing, AnswerIsPassed, FirstIsNoted
<1>4. QED
  BY <1>1, <1>2, <1>3 DEF Hook!Next

(* The invariant of a judged turn (brainbase-judgment-hook.mjs).           *)
THEOREM JudgedHolds ==
  ASSUME HookConstants
  PROVE  Hook!Spec => []Judged
BY JudgedAtFirst, JudgedIsKept, PTL DEF Hook!Spec

(* It says all that the run checks.                                        *)
LEMMA JudgedIsEnough ==
  ASSUME HookConstants, Judged
  PROVE  Hook!TurnIsJudged
<1>. USE DEF Judged
<1>1. Hook!TypeOK
  <2>1. \A c \in Calls : told[c] \in 0..(1 + MaxStops)
    BY DEF HookTypes, ToldByStops, HookConstants
  <2>2. state.kept \cap state.denied = {} /\ state.kept \cup state.denied \subseteq Calls
    <3>1. state.kept \subseteq Calls /\ state.denied \subseteq Calls
      BY DEF HookTypes, Notes
    <3>2. \A c \in Calls : c \in state.kept => c \notin state.denied
      BY DEF StageTells
    <3>3. QED
      BY <3>1, <3>2
  <2>3. QED
    BY <2>1, <2>2 DEF Hook!TypeOK, HookTypes, Phases
<1>2. Hook!ResolvedFirst
  BY DEF Hook!ResolvedFirst, ResolutionFirst, Resolution
<1>3. Hook!JournaledOnce /\ Hook!FirstOnce
  BY DEF Hook!JournaledOnce, MissedIsLost, Hook!FirstOnce, FirstIsNoted
<1>4. Hook!PostedIsJudged
  BY DEF Hook!PostedIsJudged, AnswerIsPassed, NoneMissing, Hook!Missing, Hook!Seen, StageTells
<1>5. QED
  BY <1>1, <1>2, <1>3, <1>4 DEF Hook!TurnIsJudged

(* No evidence is read before the Host knows the class of the turn, and    *)
(* the journal gets each call once but for what was lost, the Worker posts *)
(* the answer that was passed with every executed call in the journal, and *)
(* only a lost reply has the Host told again that an answer is the first   *)
(* (requireResolveTurnFirst, replayMissingLifecycleToolReceipts,           *)
(* markStopRepairRequested, parseReplyJudgmentStream).                     *)
THEOREM HookJudges ==
  ASSUME HookConstants
  PROVE  Hook!Spec => []Hook!TurnIsJudged
BY JudgedHolds, JudgedIsEnough, PTL

(* A receipt, a denial, the resolve call and the repair, once noted in the *)
(* state file, stay noted, whatever hooks run side by side                 *)
(* (withTurnStateLock).                                                    *)
THEOREM HookKeepsNotes ==
  ASSUME HookConstants
  PROVE  Hook!Spec => Hook!NotesAreKept
<1>1. ASSUME Judged, [Hook!Next]_Hook!vars
      PROVE  [/\ state.kept \subseteq state'.kept /\ state.denied \subseteq state'.denied
              /\ (state.resolved => state'.resolved) /\ (state.repair => state'.repair)]_Hook!vars
  <2>a. state \in Notes
    BY <1>1 DEF Judged, HookTypes
  <2>1. ASSUME NEW c \in Calls, Hook!Persist(c)
        PROVE  /\ state.kept \subseteq state'.kept /\ state.denied \subseteq state'.denied
               /\ (state.resolved => state'.resolved) /\ (state.repair => state'.repair)
    BY <1>1, <2>1, PersistMoves
  <2>2. ASSUME NEW c \in Calls, Hook!Replay(c)
        PROVE  /\ state.kept \subseteq state'.kept /\ state.denied \subseteq state'.denied
               /\ (state.resolved => state'.resolved) /\ (state.repair => state'.repair)
    BY <2>a, <2>2 DEF Hook!Replay, Notes, Hook!Resolve
  <2>3. CASE Hook!AskRepair \/ Hook!AskBlocked
    BY <2>a, <2>3 DEF Hook!AskRepair, Hook!AskBlocked, Hook!NoteRepair, Notes
  <2>4. CASE UNCHANGED state
    BY <2>4
  <2>5. \/ \E c \in Calls : Hook!Persist(c) \/ Hook!Replay(c)
        \/ Hook!AskRepair \/ Hook!AskBlocked \/ UNCHANGED state \/ UNCHANGED Hook!vars
    BY <1>1 DEF Hook!Next, Hook!Before, Hook!Return, Hook!Omit, Hook!Send, Hook!Enter, Hook!Die, Hook!GiveUp,
       Hook!Stop, Hook!Replayed, Hook!AskPass, Hook!AskFails,
                Hook!Post, Hook!Reject, Hook!turnVars
  <2>6. QED
    BY <2>1, <2>2, <2>3, <2>4, <2>5
<1>2. QED
  BY <1>1, JudgedHolds, PTL DEF Hook!Spec, Hook!NotesAreKept

(* Whichever part moves, the hook behaves as its specification says.       *)
LEMMA HookBehaves == Spec => Hook!Spec
<1>1. Init => Hook!Init
  BY DEF Init
<1>2. [Next]_suiteVars => [Hook!Next]_Hook!vars
  BY DEF Next, HookMoves, TerminalMoves, RunnerMoves, GenerationMoves, ProviderMoves, suiteVars,
         hookVars, Hook!vars, Hook!turnVars, Hook!stopVars
<1>3. QED
  BY <1>1, <1>2, PTL DEF Spec, Hook!Spec

(* What the run checks of the judgment hook, for every number of calls,    *)
(* Stop events and flaws (brainbase-judgment-hook.mjs, reply-judgment.ts). *)
THEOREM TurnsAreJudged ==
  ASSUME HookConstants
  PROVE  Spec => []TurnIsJudged
BY HookJudges, HookBehaves, PTL DEF TurnIsJudged

(* What a hook noted stays (withTurnStateLock), as the run checks it.      *)
THEOREM NotesStay ==
  ASSUME HookConstants
  PROVE  Spec => Hook!NotesAreKept
BY HookKeepsNotes, HookBehaves, PTL

-----------------------------------------------------------------------------
(* The development runner.                                                 *)


(* A runner on its way to the lock, and one that has ended.                *)
Acquiring(r) == pc[r] \in {"make", "own", "read", "list", "rename", "reread", "relist", "restore", "remake", "reown"}
Gone(r) == pc[r] \in {"done", "refused", "dead"}
Steps == {"off", "make", "own", "read", "list", "rename", "reread", "relist", "restore", "remake", "reown", "inside", "agent",
          "decide", "spool", "release", "done", "refused", "dead"}
Results == {"none", "failed", "needs_input", "needs_decision", "pr_ready"}
Callbacks == {"progress", "completed", "none", "failed", "needs_input", "needs_decision", "timed_out"}

(* Runners are numbers, and 0 is none.                                     *)
RunnerConstants == Runners \subseteq Nat \ {0}

(* What every variable can hold.                                           *)
Locks == [held : BOOLEAN, owner : Runners \cup {0}]
NamedIsHeld == \A r \in Runners : quarantine[r].owner # 0 => quarantine[r].held
RunnerTypes ==
  /\ place \in {"container", "host"}
  /\ lock \in Locks /\ (lock.owner # 0 => lock.held)
  /\ quarantine \in [Runners -> Locks] /\ NamedIsHeld
  /\ pc \in [Runners -> Steps] /\ agents \subseteq Runners /\ rivals \subseteq Runners
  /\ story \in [Runners -> Runners \cup {0}] /\ asked \in [Runners -> Runners \cup {0}]
  /\ questions \in [Runners -> [by : Runners \cup {0}, valid : BOOLEAN]]
  /\ out \in [Runners -> Results] /\ spool \in [Runners -> Runners \cup {0}] /\ reached \in Seq(Runners)
  /\ queue \in [Runners -> Nat] /\ sent \in [Runners -> Seq(Callbacks)]
  /\ ended \in [Runners -> Results \cup {"no", "timed_out", "posted"}]
  /\ kills \in Nat /\ assessed \in [Runners -> Runners \cup {0}] /\ grabbed \in BOOLEAN

(* Who is where.                                                           *)
Creators == {r \in Runners : pc[r] \in {"own", "reown"}}
Readers == {r \in Runners : pc[r] \in {"list", "rename"}}
Renamers == {r \in Runners : pc[r] = "rename"}
Reclaimers == {r \in Runners : pc[r] \in {"rename", "reread", "relist", "restore", "remake", "reown"}}
Restorers == {r \in Runners : pc[r] \in {"reread", "relist", "restore"}}
Workers == {r \in Runners : pc[r] \in {"inside", "agent", "decide", "spool", "release"}}
Ended == {r \in Runners : pc[r] \in {"done", "refused", "dead"}}
Hosts == {r \in Runners : pc[r] \in {"agent", "dead"}}

(* Whoever is named as an owner was let in; at most one renamed the lock   *)
(* after an assessment of its own and is not through; and who was assessed *)
(* has ended, with its agent.                                              *)
OwnersEntered ==
  LET Met == Workers \cup Ended \cup {0} IN
  lock.owner \in Met /\ \A r \in Runners : quarantine[r].owner \in Met /\ assessed[r] \in Met
OneReclaims == \A r, o \in Reclaimers : r = o
DeadAssessed == (\A r \in Readers : assessed[r] \in Ended) /\ (\A r \in Renamers : assessed[r] \notin agents)
AgentsLive == agents \subseteq Hosts

(* Until a reclaimer renames another lock than it assessed, the lock names *)
(* whoever is at work or left an agent; who writes the owner file made     *)
(* the directory; and what was renamed belongs to a runner that ended.     *)
WorkerOwns == ~grabbed => \A r \in Workers \cup agents : lock.owner = r
CreatorOwns ==
  ~grabbed => \A r \in Creators :
    /\ lock.held /\ \A o \in Creators : o = r
    /\ lock.owner = 0 \/ (lock.owner \in Ended \ agents /\ \A o \in Reclaimers : o = r)
QuarantineIsStale == ~grabbed => \A r \in Restorers : quarantine[r].owner \in Ended \ agents
LockIsKept == OwnersEntered /\ OneReclaims /\ DeadAssessed /\ AgentsLive /\ WorkerOwns /\ CreatorOwns /\ QuarantineIsStale

(* Whoever is on its way has met all the others that live.                 *)
Acquirers == {r \in Runners : Acquiring(r)}
Living == {r \in Runners : Runner!Alive(r)}
Lookers == {r \in Runners : pc[r] \in {"read", "list", "rename"}}
Clearers == {r \in Runners : pc[r] \in {"reread", "relist", "restore", "remake"}}
Rereaders == {r \in Runners : pc[r] = "reread"}
Turned == {r \in Runners : pc[r] \in {"restore", "refused"}}
RivalsMet ==
  /\ \A r \in Acquirers : \A o \in agents \cup Living : o # r => r \in rivals
  /\ \A r \in Creators : (lock.held /\ lock.owner = 0) \/ r \in rivals
  /\ \A r \in Lookers : lock.held \/ r \in rivals
  /\ \A r \in Clearers : ~lock.held \/ r \in rivals
  /\ \A r \in Rereaders : quarantine[r].held /\ (quarantine[r].owner = 0 => r \in rivals)
  /\ Turned \subseteq rivals

(* The runs by what they have done.                                        *)
Fresh == {r \in Runners : pc[r] \in {"off", "make", "own", "read", "list", "rename", "reread", "relist", "restore", "remake",
                                     "reown", "inside", "refused"}}
Busy == {r \in Runners : pc[r] \in {"agent", "decide", "spool"}}
Past == {r \in Runners : pc[r] \in {"spool", "release", "done", "dead"}}
Spooled == {r \in Runners : pc[r] \in {"release", "done", "dead"}}
Started == {reached[i] : i \in 1..Len(reached)}

(* The runs that a later run of the same story overtook.                   *)
Overtaken == {r \in Runners : \E i, j \in 1..Len(reached) : i < j /\ reached[i] = r /\ story[reached[j]] = story[r]}
Unfinished == {"needs_input", "needs_decision"}

(* Runs begin once, with a story that was begun; a run has none before.    *)
RunsAreOrdered ==
  /\ \A i, j \in 1..Len(reached) : reached[i] = reached[j] => i = j
  /\ Started = {r \in Runners : story[r] # 0}
  /\ \A s \in Runners : Runner!Runs(s) # {} => \E i \in Runner!Runs(s) : \A j \in Runner!Runs(s) : j <= i
  /\ \A r \in Runners : story[r] # 0 => story[story[r]] = story[r]
  /\ \A r \in Fresh : story[r] = 0
  /\ \A r \in Busy \cup agents : story[r] # 0

(* Who stopped for an answer, or was overtaken, is past its work, and what *)
(* the spool holds was emitted for that story.                             *)
OldRunsAreOver ==
  /\ \A r \in Runners : out[r] \in Unfinished => r \in Past \ agents
  /\ Overtaken \subseteq Past \ agents /\ (~grabbed => Overtaken \cap Workers = {})
  /\ \A s \in Runners : spool[s] # 0 => story[spool[s]] = s /\ spool[s] \in Spooled

(* Questions were left by an agent that has ended, for its own story, and  *)
(* whoever was overtaken asked others than the worktree holds now.         *)
QuestionsAreNew ==
  /\ \A s \in Runners : questions[s].by # 0 => story[questions[s].by] = s /\ questions[s].by \notin agents
  /\ \A r \in Runners :
       asked[r] # 0 => out[r] = "needs_decision" /\ story[r] # 0 /\ asked[r] \notin agents /\ story[asked[r]] # 0
  /\ \A r \in Overtaken : asked[r] # 0 => questions[story[r]].by # asked[r]
StoriesAreKept == RunsAreOrdered /\ OldRunsAreOver /\ QuestionsAreNew /\ Runner!AskedIsNew

(* Before the end a launcher posts nothing but progress.                   *)
CallbacksEnd ==
  \A r \in Runners :
    /\ ended[r] # "no" => Gone(r)
    /\ ended[r] # "posted" => \A i \in 1..Len(sent[r]) : sent[r][i] = "progress"
    /\ ended[r] = "posted" => queue[r] = 0 /\ \A i \in 1..Len(sent[r]) : sent[r][i] # "progress" => i = Len(sent[r])

(* The inductive invariant of the runners.                                 *)
Kept == RunnerTypes /\ LockIsKept /\ RivalsMet /\ StoriesAreKept /\ CallbacksEnd

(* Where the others are when one of them moves.                            *)
LEMMA Moves ==
  ASSUME NEW r \in Runners, RunnerTypes, NEW p, pc' = [pc EXCEPT ![r] = p]
  PROVE  /\ pc'[r] = p /\ \A o \in Runners \ {r} : pc'[o] = pc[o]
         /\ Creators' = (Creators \ {r}) \cup {o \in {r} : p \in {"own", "reown"}}
         /\ Readers' = (Readers \ {r}) \cup {o \in {r} : p \in {"list", "rename"}}
         /\ Renamers' = (Renamers \ {r}) \cup {o \in {r} : p = "rename"}
         /\ Reclaimers' = (Reclaimers \ {r}) \cup {o \in {r} : p \in {"rename", "reread", "relist", "restore", "remake", "reown"}}
         /\ Restorers' = (Restorers \ {r}) \cup {o \in {r} : p \in {"reread", "relist", "restore"}}
         /\ Workers' = (Workers \ {r}) \cup {o \in {r} : p \in {"inside", "agent", "decide", "spool", "release"}}
         /\ Ended' = (Ended \ {r}) \cup {o \in {r} : p \in {"done", "refused", "dead"}}
         /\ Hosts' = (Hosts \ {r}) \cup {o \in {r} : p \in {"agent", "dead"}}
BY DEF RunnerTypes, Creators, Readers, Renamers, Reclaimers, Restorers, Workers, Ended, Hosts

(* Whoever gives up leaves the lock to the others.                         *)
LEMMA FewerCompete ==
  ASSUME LockIsKept, UNCHANGED <<lock, quarantine, agents, grabbed>>,
         Workers' = Workers, Ended \subseteq Ended', Hosts \subseteq Hosts', Creators' \subseteq Creators, Readers' \subseteq Readers,
         Renamers' \subseteq Renamers, Reclaimers' \subseteq Reclaimers, Restorers' \subseteq Restorers,
         Readers \subseteq Runners, Renamers' \subseteq Readers',
         \A o \in Runners : assessed'[o] = assessed[o] \/ (assessed'[o] = lock.owner /\ o \notin Readers')
  PROVE  LockIsKept'
<1>1. OwnersEntered' /\ OneReclaims' /\ AgentsLive'
  BY DEF LockIsKept, OwnersEntered, OneReclaims, AgentsLive
<1>2. DeadAssessed'
  BY DEF LockIsKept, DeadAssessed
<1>3. WorkerOwns' /\ CreatorOwns' /\ QuarantineIsStale'
  BY DEF LockIsKept, WorkerOwns, CreatorOwns, QuarantineIsStale
<1>4. QED
  BY <1>1, <1>2, <1>3 DEF LockIsKept

(* A runner that gives up, or looks once more, takes nothing.              *)
LEMMA GivesWay ==
  ASSUME NEW r \in Runners, RunnerTypes, LockIsKept, NEW p \in {"read", "refused", "relist", "restore"},
         Acquiring(r), pc[r] \notin {"own", "reown"},
         p \in {"relist", "restore"} => r \in Restorers, pc' = [pc EXCEPT ![r] = p],
         UNCHANGED <<lock, quarantine, agents, grabbed>>,
         assessed' = assessed \/ (assessed' = [assessed EXCEPT ![r] = lock.owner] /\ p = "refused")
  PROVE  LockIsKept'
<1>1. /\ Workers' = Workers /\ Ended \subseteq Ended' /\ Hosts \subseteq Hosts' /\ Creators' \subseteq Creators
      /\ Readers' \subseteq Readers /\ Renamers' \subseteq Renamers /\ Renamers' \subseteq Readers' /\ Readers \subseteq Runners
      /\ (p = "refused" => r \notin Readers')
  BY DEF RunnerTypes, Acquiring, Workers, Ended, Hosts, Creators, Readers, Renamers
<1>2. Reclaimers' \subseteq Reclaimers /\ Restorers' \subseteq Restorers
  BY DEF RunnerTypes, Acquiring, Reclaimers, Restorers
<1>3. \A o \in Runners : assessed'[o] = assessed[o] \/ (assessed'[o] = lock.owner /\ o \notin Readers')
  BY <1>1 DEF RunnerTypes
<1>4. QED
  BY <1>1, <1>2, <1>3, FewerCompete

(* A lock without a living owner has nobody at work behind it.             *)
LEMMA NobodyOwns ==
  ASSUME RunnerConstants, RunnerTypes, LockIsKept, ~grabbed, lock.owner = 0 \/ lock.owner \in Ended \ agents
  PROVE  Workers = {} /\ agents = {}
<1>1. Workers \cap Ended = {} /\ Workers \subseteq Runners /\ 0 \notin Runners /\ agents \subseteq Runners
  BY DEF Workers, Ended, RunnerTypes, RunnerConstants
<1>2. QED
  BY <1>1 DEF LockIsKept, WorkerOwns

(* mkdir: whoever makes the directory is alone in it.                      *)
LEMMA MakingKeepsLock ==
  ASSUME RunnerConstants, NEW r \in Runners, RunnerTypes, LockIsKept, ~lock.held,
         UNCHANGED <<quarantine, agents, grabbed, assessed>>,
         \/ pc[r] = "make" /\ pc' = [pc EXCEPT ![r] = "own"]
         \/ pc[r] = "remake" /\ pc' = [pc EXCEPT ![r] = "reown"],
         lock'.held, lock'.owner = 0
  PROVE  LockIsKept'
<1>1. /\ Workers' = Workers /\ Ended' = Ended /\ Hosts' = Hosts /\ Readers' = Readers /\ Renamers' = Renamers
      /\ Creators' = Creators \cup {r} /\ Reclaimers' = Reclaimers /\ Restorers' = Restorers
  BY DEF RunnerTypes, Workers, Ended, Hosts, Readers, Renamers, Creators, Reclaimers, Restorers
<1>2. OwnersEntered' /\ OneReclaims' /\ AgentsLive' /\ DeadAssessed' /\ QuarantineIsStale'
  BY <1>1 DEF LockIsKept, OwnersEntered, OneReclaims, AgentsLive, DeadAssessed, QuarantineIsStale
<1>3. ~grabbed => Workers = {} /\ agents = {} /\ Creators = {}
  BY NobodyOwns DEF RunnerTypes, LockIsKept, CreatorOwns
<1>4. WorkerOwns' /\ CreatorOwns'
  BY <1>1, <1>3 DEF WorkerOwns, CreatorOwns
<1>5. QED
  BY <1>2, <1>4 DEF LockIsKept

(* The owner file, or the directory removed.                               *)
LEMMA WritingKeepsLock ==
  ASSUME RunnerConstants, NEW r \in Runners, RunnerTypes, LockIsKept, Runner!WriteOwner(r),
         UNCHANGED <<agents, grabbed, assessed>>
  PROVE  LockIsKept'
<1>1. r \in Creators /\ quarantine' = quarantine /\ \E p \in {"inside", "read", "refused"} : pc' = [pc EXCEPT ![r] = p]
  BY DEF Runner!WriteOwner, Creators, Runner!To, Runner!Refuse
<1>2. /\ Ended \subseteq Ended' /\ Hosts' = Hosts /\ Readers' = Readers /\ Renamers' = Renamers
      /\ Creators' = Creators \ {r} /\ Reclaimers' \subseteq Reclaimers /\ Restorers' = Restorers
  BY <1>1 DEF RunnerTypes, Ended, Hosts, Readers, Renamers, Creators, Reclaimers, Restorers
<1>3. ~grabbed => Creators' = {}
  BY <1>1, <1>2 DEF LockIsKept, CreatorOwns
<1>4. OneReclaims' /\ AgentsLive' /\ DeadAssessed' /\ QuarantineIsStale' /\ CreatorOwns'
  BY <1>1, <1>2, <1>3 DEF LockIsKept, OneReclaims, AgentsLive, DeadAssessed, QuarantineIsStale, CreatorOwns
<1>5. CASE lock = [held |-> TRUE, owner |-> 0]
  <2>1. lock.owner = 0 /\ lock'.owner = r /\ pc' = [pc EXCEPT ![r] = "inside"]
    BY <1>5 DEF Runner!WriteOwner, Runner!To
  <2>2. Workers' = Workers \cup {r}
    BY <2>1 DEF RunnerTypes, Workers
  <2>3. ~grabbed => Workers = {} /\ agents = {}
    BY <2>1, NobodyOwns
  <2>4. OwnersEntered' /\ WorkerOwns'
    BY <1>1, <1>2, <2>1, <2>2, <2>3 DEF LockIsKept, OwnersEntered, WorkerOwns
  <2>5. QED
    BY <1>4, <2>4 DEF LockIsKept
<1>6. CASE lock # [held |-> TRUE, owner |-> 0]
  <2>1. lock'.owner = 0 /\ \E p \in {"read", "refused"} : pc' = [pc EXCEPT ![r] = p]
    BY <1>6 DEF Runner!WriteOwner, Runner!To, Runner!Refuse, Runner!Free
  <2>2. Workers' = Workers
    BY <1>1, <2>1 DEF RunnerTypes, Workers, Creators
  <2>3. ~grabbed => lock.owner \in Ended \ agents
    BY <1>1, <1>6 DEF LockIsKept, CreatorOwns, RunnerTypes, Locks
  <2>4. ~grabbed => Workers = {} /\ agents = {}
    BY <2>3, NobodyOwns
  <2>5. OwnersEntered' /\ WorkerOwns'
    BY <1>1, <1>2, <2>1, <2>2, <2>4 DEF LockIsKept, OwnersEntered, WorkerOwns
  <2>6. QED
    BY <1>4, <2>5 DEF LockIsKept
<1>7. QED
  BY <1>5, <1>6

(* An assessment: the owner is dead, and nobody else lives.                *)
LEMMA AssessingKeepsLock ==
  ASSUME NEW r \in Runners, RunnerTypes, LockIsKept, UNCHANGED <<lock, quarantine, agents, grabbed>>,
         \/ pc[r] = "read" /\ Runner!DeadOwner(lock) /\ pc' = [pc EXCEPT ![r] = "list"] /\ assessed' = [assessed EXCEPT ![r] = lock.owner]
         \/ pc[r] = "list" /\ Runner!Survivors(r) = {} /\ pc' = [pc EXCEPT ![r] = "rename"] /\ assessed' = assessed
  PROVE  LockIsKept'
<1>1. /\ Workers' = Workers /\ Ended' = Ended /\ Hosts' = Hosts /\ Creators' = Creators /\ Restorers' = Restorers
      /\ Readers' = Readers \cup {r}
  BY DEF RunnerTypes, Workers, Ended, Hosts, Creators, Restorers, Readers
<1>2. AgentsLive' /\ QuarantineIsStale' /\ WorkerOwns'
  BY <1>1 DEF LockIsKept, AgentsLive, QuarantineIsStale, WorkerOwns
<1>3. CASE pc[r] = "read"
  <2>1. Renamers' = Renamers /\ Reclaimers' = Reclaimers /\ r \notin Renamers
    BY <1>3 DEF RunnerTypes, Renamers, Reclaimers
  <2>2. assessed'[r] = lock.owner /\ \A o \in Runners \ {r} : assessed'[o] = assessed[o]
    BY <1>3 DEF RunnerTypes
  <2>3. lock.owner \in Ended
    BY <1>3 DEF Runner!DeadOwner, Runner!Alive, LockIsKept, OwnersEntered, Workers, Ended
  <2>4. OwnersEntered' /\ OneReclaims' /\ CreatorOwns'
    BY <1>1, <2>1, <2>2 DEF LockIsKept, OwnersEntered, OneReclaims, CreatorOwns
  <2>5. DeadAssessed'
    BY <1>1, <2>1, <2>2, <2>3 DEF LockIsKept, DeadAssessed, Readers, Renamers
  <2>6. QED
    BY <1>2, <2>4, <2>5 DEF LockIsKept
<1>4. CASE pc[r] = "list"
  <2>1. agents = {} /\ Creators = {} /\ Reclaimers = {} /\ assessed' = assessed /\ r \in Readers
    BY <1>4 DEF Runner!Survivors, Runner!Alive, Creators, Reclaimers, Readers
  <2>2. Renamers' = Renamers \cup {r} /\ Reclaimers' = Reclaimers \cup {r}
    BY <1>4 DEF RunnerTypes, Renamers, Reclaimers
  <2>3. OwnersEntered' /\ OneReclaims' /\ CreatorOwns' /\ DeadAssessed'
    BY <1>1, <2>1, <2>2 DEF LockIsKept, OwnersEntered, OneReclaims, CreatorOwns, DeadAssessed
  <2>4. QED
    BY <1>2, <2>3 DEF LockIsKept
<1>5. QED
  BY <1>3, <1>4

(* The rename takes the lock that was assessed, or is a grab.              *)
LEMMA RenamingKeepsLock ==
  ASSUME RunnerConstants, NEW r \in Runners, RunnerTypes, LockIsKept, pc[r] = "rename",
         pc' = [pc EXCEPT ![r] = "reread"],
         lock' = Runner!Free, quarantine' = [quarantine EXCEPT ![r] = lock], UNCHANGED <<agents, assessed>>,
         ~grabbed' => ~grabbed /\ lock.owner = assessed[r]
  PROVE  LockIsKept'
<1>1. /\ Workers' = Workers /\ Ended' = Ended /\ Hosts' = Hosts /\ Creators' = Creators /\ Readers' = Readers \ {r}
      /\ Renamers' = Renamers \ {r} /\ Reclaimers' = Reclaimers /\ Restorers' = Restorers \cup {r}
      /\ r \in Readers /\ r \in Renamers /\ r \in Reclaimers
  BY DEF RunnerTypes, Workers, Ended, Hosts, Creators, Readers, Renamers, Reclaimers, Restorers
<1>2. quarantine'[r] = lock /\ \A o \in Runners \ {r} : quarantine'[o] = quarantine[o]
  BY DEF RunnerTypes
<1>3. OwnersEntered' /\ OneReclaims' /\ DeadAssessed' /\ AgentsLive'
  BY <1>1, <1>2 DEF LockIsKept, OwnersEntered, OneReclaims, DeadAssessed, AgentsLive, Runner!Free
<1>4. ~grabbed' => lock.owner \in Ended \ agents
  BY <1>1 DEF LockIsKept, DeadAssessed
<1>5. ~grabbed' => Workers = {} /\ agents = {}
  BY <1>4, NobodyOwns
<1>6. QuarantineIsStale'
  BY <1>1, <1>2, <1>4 DEF LockIsKept, QuarantineIsStale, Restorers
<1>7. ~grabbed' => Creators = {}
  <2>1. SUFFICES ASSUME ~grabbed', NEW o \in Creators
                 PROVE  FALSE
    OBVIOUS
  <2>2. lock.owner # 0 /\ ~grabbed
    BY <1>4, <2>1 DEF Ended, RunnerConstants
  <2>3. r = o
    BY <1>1, <2>1, <2>2 DEF LockIsKept, CreatorOwns
  <2>4. QED
    BY <2>1, <2>3 DEF Creators
<1>8. WorkerOwns' /\ CreatorOwns'
  BY <1>1, <1>5, <1>7 DEF WorkerOwns, CreatorOwns
<1>9. QED
  BY <1>3, <1>6, <1>8 DEF LockIsKept

(* What was renamed is deleted,                                            *)
LEMMA ClearingKeepsLock ==
  ASSUME NEW r \in Runners, RunnerTypes, LockIsKept, pc[r] = "relist", pc' = [pc EXCEPT ![r] = "remake"],
         quarantine' = [quarantine EXCEPT ![r] = Runner!Free], UNCHANGED <<lock, agents, assessed, grabbed>>
  PROVE  LockIsKept'
<1>1. /\ Workers' = Workers /\ Ended' = Ended /\ Hosts' = Hosts /\ Creators' = Creators /\ Readers' = Readers
      /\ Renamers' = Renamers /\ Reclaimers' = Reclaimers /\ Restorers' = Restorers \ {r}
  BY DEF RunnerTypes, Workers, Ended, Hosts, Creators, Readers, Renamers, Reclaimers, Restorers
<1>2. quarantine'[r].owner = 0 /\ \A o \in Runners \ {r} : quarantine'[o] = quarantine[o]
  BY DEF RunnerTypes, Runner!Free
<1>3. OwnersEntered' /\ QuarantineIsStale'
  BY <1>1, <1>2 DEF LockIsKept, OwnersEntered, QuarantineIsStale, Restorers
<1>4. OneReclaims' /\ DeadAssessed' /\ AgentsLive' /\ WorkerOwns' /\ CreatorOwns'
  BY <1>1 DEF LockIsKept, OneReclaims, DeadAssessed, AgentsLive, WorkerOwns, CreatorOwns
<1>5. QED
  BY <1>3, <1>4 DEF LockIsKept

(* or renamed back.                                                        *)
LEMMA RestoringKeepsLock ==
  ASSUME RunnerConstants, NEW r \in Runners, RunnerTypes, LockIsKept, pc[r] = "restore",
         pc' = [pc EXCEPT ![r] = "refused"], lock.owner = 0,
         lock' = quarantine[r], quarantine' = [quarantine EXCEPT ![r] = Runner!Free], UNCHANGED <<agents, assessed, grabbed>>
  PROVE  LockIsKept'
<1>1. /\ Workers' = Workers /\ Ended' = Ended \cup {r} /\ Hosts' = Hosts /\ Creators' = Creators /\ Readers' = Readers
      /\ Renamers' = Renamers /\ Renamers \subseteq Reclaimers /\ Reclaimers' = Reclaimers \ {r} /\ r \in Reclaimers
      /\ Restorers' = Restorers \ {r} /\ r \in Restorers
  BY DEF RunnerTypes, Workers, Ended, Hosts, Creators, Readers, Renamers, Reclaimers, Restorers
<1>2. quarantine'[r].owner = 0 /\ \A o \in Runners \ {r} : quarantine'[o] = quarantine[o]
  BY DEF RunnerTypes, Runner!Free
<1>3. OwnersEntered' /\ QuarantineIsStale'
  BY <1>1, <1>2 DEF LockIsKept, OwnersEntered, QuarantineIsStale, Restorers
<1>4. OneReclaims' /\ DeadAssessed' /\ AgentsLive'
  BY <1>1 DEF LockIsKept, OneReclaims, DeadAssessed, AgentsLive
<1>5. Reclaimers' = {}
  BY <1>1 DEF LockIsKept, OneReclaims
<1>6. ~grabbed => Workers = {} /\ agents = {}
  BY NobodyOwns
<1>7. ~grabbed => lock'.owner \in Ended' \ agents' /\ lock'.held
  <2>1. ~grabbed => lock'.owner \in Ended \ agents
    BY <1>1 DEF LockIsKept, QuarantineIsStale
  <2>2. 0 \notin Ended
    BY DEF Ended, RunnerConstants
  <2>3. QED
    BY <1>1, <2>1, <2>2 DEF RunnerTypes, NamedIsHeld
<1>8. WorkerOwns' /\ CreatorOwns'
  BY <1>1, <1>5, <1>6, <1>7 DEF LockIsKept, WorkerOwns, CreatorOwns
<1>9. QED
  BY <1>3, <1>4, <1>8 DEF LockIsKept

(* The race for the lock (tryAcquire, assessLockStaleness,                 *)
(* reclaimStaleLock).                                                      *)
LEMMA ReclaimerMovesOn ==
  ASSUME RunnerConstants, NEW r \in Runners, RunnerTypes, LockIsKept, Runner!Acquire(r)
  PROVE  LockIsKept'
<1>1. agents' = agents /\ (pc[r] # "read" => assessed' = assessed) /\ (pc[r] # "rename" => grabbed' = grabbed)
  BY DEF Runner!Acquire, RunnerTypes
<1>2. CASE Runner!MakeLock(r)
  <2>1. CASE lock.held
    <3>1. /\ Acquiring(r) /\ pc[r] \notin {"own", "reown", "read", "rename"} /\ UNCHANGED <<lock, quarantine>>
          /\ \E p \in {"read", "refused"} : pc' = [pc EXCEPT ![r] = p]
      BY <1>2, <2>1 DEF Runner!MakeLock, Runner!To, Runner!Refuse, Acquiring
    <3>2. QED
      BY <1>1, <3>1, GivesWay
  <2>2. CASE ~lock.held
    <3>1. /\ quarantine' = quarantine /\ lock'.held /\ lock'.owner = 0 /\ pc[r] \notin {"read", "rename"}
          /\ \/ pc[r] = "make" /\ pc' = [pc EXCEPT ![r] = "own"]
             \/ pc[r] = "remake" /\ pc' = [pc EXCEPT ![r] = "reown"]
      BY <1>2, <2>2 DEF Runner!MakeLock, Runner!To
    <3>2. QED
      BY <1>1, <2>2, <3>1, MakingKeepsLock
  <2>3. QED
    BY <2>1, <2>2
<1>3. CASE Runner!WriteOwner(r)
  <2>1. pc[r] \notin {"read", "rename"}
    BY <1>3 DEF Runner!WriteOwner
  <2>2. QED
    BY <1>1, <1>3, <2>1, WritingKeepsLock
<1>4. CASE Runner!ReadOwner(r)
  <2>1. pc[r] = "read" /\ UNCHANGED <<lock, quarantine>> /\ assessed' = [assessed EXCEPT ![r] = lock.owner]
    BY <1>4 DEF Runner!ReadOwner, Runner!Acquire
  <2>2. CASE Runner!DeadOwner(lock)
    <3>1. pc' = [pc EXCEPT ![r] = "list"]
      BY <1>4, <2>2 DEF Runner!ReadOwner, Runner!To
    <3>2. QED
      BY <1>1, <2>1, <2>2, <3>1, AssessingKeepsLock
  <2>3. CASE ~Runner!DeadOwner(lock)
    <3>1. pc' = [pc EXCEPT ![r] = "refused"] /\ Acquiring(r)
      BY <1>4, <2>3 DEF Runner!ReadOwner, Runner!Refuse, Acquiring
    <3>2. QED
      BY <1>1, <2>1, <3>1, GivesWay
  <2>4. QED
    BY <2>2, <2>3
<1>5. CASE Runner!List(r)
  <2>1. pc[r] = "list" /\ UNCHANGED <<lock, quarantine>> /\ Acquiring(r)
    BY <1>5 DEF Runner!List, Acquiring
  <2>2. CASE Runner!Survivors(r) = {}
    <3>1. pc' = [pc EXCEPT ![r] = "rename"]
      BY <1>5, <2>2 DEF Runner!List, Runner!To
    <3>2. QED
      BY <1>1, <2>1, <2>2, <3>1, AssessingKeepsLock
  <2>3. CASE Runner!Survivors(r) # {}
    <3>1. pc' = [pc EXCEPT ![r] = "refused"]
      BY <1>5, <2>3 DEF Runner!List, Runner!Refuse
    <3>2. QED
      BY <1>1, <2>1, <3>1, GivesWay
  <2>4. QED
    BY <2>2, <2>3
<1>6. CASE Runner!Rename(r)
  <2>1. pc[r] = "rename" /\ Acquiring(r)
    BY <1>6 DEF Runner!Rename, Acquiring
  <2>2. CASE lock.held
    <3>1. /\ pc' = [pc EXCEPT ![r] = "reread"] /\ lock' = Runner!Free /\ quarantine' = [quarantine EXCEPT ![r] = lock]
          /\ (~grabbed' => ~grabbed /\ lock.owner = assessed[r])
      BY <1>6, <2>2 DEF Runner!Rename, Runner!Acquire, Runner!To
    <3>2. QED
      BY <1>1, <2>1, <3>1, RenamingKeepsLock
  <2>3. CASE ~lock.held
    <3>1. pc' = [pc EXCEPT ![r] = "refused"] /\ UNCHANGED <<lock, quarantine>> /\ grabbed' = grabbed
      BY <1>6, <2>3 DEF Runner!Rename, Runner!Acquire, Runner!Refuse, RunnerTypes
    <3>2. QED
      BY <1>1, <2>1, <3>1, GivesWay
  <2>4. QED
    BY <2>2, <2>3
<1>7. CASE Runner!ReRead(r)
  <2>1. /\ pc[r] = "reread" /\ UNCHANGED <<lock, quarantine>> /\ \E p \in {"relist", "restore"} : pc' = [pc EXCEPT ![r] = p]
        /\ Acquiring(r) /\ r \in Restorers
    BY <1>7 DEF Runner!ReRead, Runner!To, Acquiring, Restorers
  <2>2. QED
    BY <1>1, <2>1, GivesWay
<1>8. CASE Runner!ReList(r)
  <2>1. pc[r] = "relist" /\ lock' = lock /\ Acquiring(r) /\ r \in Restorers
    BY <1>8 DEF Runner!ReList, Acquiring, Restorers
  <2>2. CASE Runner!Survivors(r) = {}
    <3>1. pc' = [pc EXCEPT ![r] = "remake"] /\ quarantine' = [quarantine EXCEPT ![r] = Runner!Free]
      BY <1>8, <2>2 DEF Runner!ReList, Runner!To
    <3>2. QED
      BY <1>1, <2>1, <3>1, ClearingKeepsLock
  <2>3. CASE Runner!Survivors(r) # {}
    <3>1. pc' = [pc EXCEPT ![r] = "restore"] /\ quarantine' = quarantine
      BY <1>8, <2>3 DEF Runner!ReList, Runner!To
    <3>2. QED
      BY <1>1, <2>1, <3>1, GivesWay
  <2>4. QED
    BY <2>2, <2>3
<1>9. CASE Runner!Restore(r)
  <2>1. pc[r] = "restore" /\ pc' = [pc EXCEPT ![r] = "refused"] /\ Acquiring(r)
    BY <1>9 DEF Runner!Restore, Runner!Refuse, Acquiring
  <2>2. CASE lock.owner = 0
    <3>1. lock' = quarantine[r] /\ quarantine' = [quarantine EXCEPT ![r] = Runner!Free]
      BY <1>9, <2>2 DEF Runner!Restore
    <3>2. QED
      BY <1>1, <2>1, <2>2, <3>1, RestoringKeepsLock
  <2>3. CASE lock.owner # 0
    <3>1. UNCHANGED <<lock, quarantine>>
      BY <1>9, <2>3 DEF Runner!Restore
    <3>2. QED
      BY <1>1, <2>1, <3>1, GivesWay
  <2>4. QED
    BY <2>2, <2>3
<1>10. QED
  BY <1>2, <1>3, <1>4, <1>5, <1>6, <1>7, <1>8, <1>9 DEF Runner!Acquire

(* Work leaves the lock alone.                                             *)
LEMMA WorkKeepsLock ==
  ASSUME RunnerConstants, NEW r \in Runners, RunnerTypes, LockIsKept,
         NEW p \in {"agent", "decide", "spool", "release"},
         pc[r] \in {"inside", "agent", "decide", "spool"}, pc' = [pc EXCEPT ![r] = p],
         UNCHANGED Runner!lockVars, agents' \subseteq agents \cup {r}, r \in agents' => p = "agent"
  PROVE  LockIsKept'
<1>1. /\ Workers' = Workers /\ Ended' = Ended /\ Creators' = Creators /\ Readers' = Readers /\ Renamers' = Renamers
      /\ Reclaimers' = Reclaimers /\ Restorers' = Restorers /\ r \in Workers /\ r \notin Ended
  BY Moves DEF Workers, Ended, Creators, Readers, Renamers, Reclaimers, Restorers
<1>2. AgentsLive'
  BY Moves DEF LockIsKept, AgentsLive, Hosts, RunnerTypes
<1>3. DeadAssessed' /\ WorkerOwns' /\ CreatorOwns' /\ QuarantineIsStale'
  <2>1. Renamers \subseteq Readers
    BY DEF Renamers, Readers
  <2>2. DeadAssessed'
    BY <1>1, <2>1 DEF Runner!lockVars, LockIsKept, DeadAssessed
  <2>3. WorkerOwns' /\ CreatorOwns' /\ QuarantineIsStale'
    BY <1>1 DEF Runner!lockVars, LockIsKept, WorkerOwns, CreatorOwns, QuarantineIsStale
  <2>4. QED
    BY <2>2, <2>3
<1>4. OwnersEntered' /\ OneReclaims'
  BY <1>1 DEF Runner!lockVars, LockIsKept, OwnersEntered, OneReclaims
<1>5. QED
  BY <1>2, <1>3, <1>4 DEF LockIsKept

(* So does an agent that ends.                                             *)
LEMMA FewerAgentsKeepLock ==
  ASSUME LockIsKept, UNCHANGED <<Runner!lockVars, pc>>, agents' \subseteq agents
  PROVE  LockIsKept'
<1>1. /\ Workers' = Workers /\ Ended' = Ended /\ Creators' = Creators /\ Readers' = Readers /\ Renamers' = Renamers
      /\ Reclaimers' = Reclaimers /\ Restorers' = Restorers /\ Hosts' = Hosts
  BY DEF Workers, Ended, Creators, Readers, Renamers, Reclaimers, Restorers, Hosts
<1>2. QED
  BY <1>1 DEF Runner!lockVars, LockIsKept, OwnersEntered, OneReclaims, DeadAssessed, AgentsLive, WorkerOwns,
     CreatorOwns, QuarantineIsStale

(* A release frees the own lock.                                           *)
LEMMA ReleaseKeepsLock ==
  ASSUME RunnerConstants, NEW r \in Runners, RunnerTypes, LockIsKept, Runner!Release(r)
  PROVE  LockIsKept'
<1>1. pc[r] = "release" /\ pc' = [pc EXCEPT ![r] = "done"] /\ lock' = Runner!Free
      /\ UNCHANGED <<quarantine, assessed, grabbed, agents>>
  BY DEF Runner!Release
<1>2. /\ Workers' = Workers \ {r} /\ Ended' = Ended \cup {r} /\ Creators' = Creators /\ Readers' = Readers
      /\ Renamers' = Renamers /\ Reclaimers' = Reclaimers /\ Restorers' = Restorers /\ r \in Workers /\ r \notin Ended
      /\ Hosts' = Hosts /\ r \notin Hosts
  <2>1. /\ r \in Workers /\ r \notin Ended /\ r \notin Creators /\ r \notin Readers
        /\ r \notin Renamers /\ r \notin Reclaimers /\ r \notin Restorers /\ r \notin Hosts
    BY <1>1 DEF Workers, Ended, Creators, Readers, Renamers, Reclaimers, Restorers, Hosts
  <2>2. Workers' = Workers \ {r} /\ Ended' = Ended \cup {r} /\ Hosts' = Hosts
    BY <1>1, <2>1, Moves DEF Workers, Ended, Hosts
  <2>3. Creators' = Creators /\ Readers' = Readers /\ Renamers' = Renamers
    BY <1>1, <2>1, Moves DEF Creators, Readers, Renamers
  <2>4. Reclaimers' = Reclaimers /\ Restorers' = Restorers
    BY <1>1, <2>1, Moves DEF Reclaimers, Restorers
  <2>5. QED
    BY <2>1, <2>2, <2>3, <2>4
<1>3. AgentsLive' /\ OneReclaims'
  BY <1>1, <1>2 DEF LockIsKept, AgentsLive, OneReclaims
<1>4. WorkerOwns'
  BY <1>1, <1>2 DEF LockIsKept, WorkerOwns, AgentsLive
<1>5. CreatorOwns'
  <2>1. ~grabbed => Creators = {}
    BY <1>2 DEF LockIsKept, CreatorOwns, WorkerOwns, RunnerTypes, Ended, RunnerConstants
  <2>2. QED
    BY <2>1, <1>1, <1>2 DEF CreatorOwns
<1>6. DeadAssessed' /\ QuarantineIsStale'
  BY <1>1, <1>2 DEF LockIsKept, DeadAssessed, QuarantineIsStale
<1>7. OwnersEntered'
  BY <1>1, <1>2 DEF LockIsKept, OwnersEntered, Runner!Free
<1>8. QED
  BY <1>3, <1>4, <1>5, <1>6, <1>7 DEF LockIsKept

(* A runner that is killed leaves its lock and its agent.                  *)
LEMMA KillKeepsLock ==
  ASSUME RunnerConstants, NEW r \in Runners, RunnerTypes, LockIsKept, Runner!Kill(r)
  PROVE  LockIsKept'
<1>1. r \notin Ended /\ pc' = [pc EXCEPT ![r] = "dead"] /\ UNCHANGED <<lock, quarantine, assessed, grabbed, agents>>
  BY DEF Runner!Kill, Runner!lockVars, Runner!Alive, Ended
<1>2. /\ Workers' = Workers \ {r} /\ Ended' = Ended \cup {r} /\ Creators' = Creators \ {r} /\ Readers' = Readers \ {r}
      /\ Renamers' = Renamers \ {r} /\ Reclaimers' = Reclaimers \ {r} /\ Restorers' = Restorers \ {r}
      /\ Hosts' = Hosts \cup {r}
  BY <1>1, Moves DEF Workers, Ended, Creators, Readers, Renamers, Reclaimers, Restorers, Hosts
<1>3. AgentsLive' /\ OneReclaims' /\ OwnersEntered'
  BY <1>1, <1>2 DEF LockIsKept, AgentsLive, OneReclaims, OwnersEntered
<1>4. WorkerOwns' /\ DeadAssessed' /\ QuarantineIsStale'
  BY <1>1, <1>2 DEF LockIsKept, WorkerOwns, DeadAssessed, QuarantineIsStale
<1>5. CreatorOwns'
  BY <1>1, <1>2 DEF LockIsKept, CreatorOwns
<1>6. QED
  BY <1>3, <1>4, <1>5 DEF LockIsKept

(* A runner that is launched holds nothing.                                *)
LEMMA LaunchKeepsLock ==
  ASSUME RunnerConstants, NEW r \in Runners, RunnerTypes, LockIsKept, Runner!Launch(r)
  PROVE  LockIsKept'
<1>1. pc[r] = "off" /\ pc' = [pc EXCEPT ![r] = "make"] /\ UNCHANGED <<lock, quarantine, assessed, grabbed, agents>>
  BY DEF Runner!Launch
<1>2. /\ Workers' = Workers /\ Ended' = Ended /\ Creators' = Creators /\ Readers' = Readers
      /\ Renamers' = Renamers /\ Reclaimers' = Reclaimers /\ Restorers' = Restorers /\ Hosts' = Hosts
  BY <1>1, Moves DEF Workers, Ended, Creators, Readers, Renamers, Reclaimers, Restorers, Hosts
<1>3. QED
  BY <1>1, <1>2 DEF LockIsKept, OwnersEntered, OneReclaims, DeadAssessed, AgentsLive, WorkerOwns,
     CreatorOwns, QuarantineIsStale

(* Every step keeps what holds of the lock.                                *)
LEMMA LockStaysKept ==
  ASSUME RunnerConstants, RunnerTypes, LockIsKept, [Runner!Next]_Runner!vars
  PROVE  LockIsKept'
<1>1. CASE UNCHANGED Runner!vars
  BY <1>1, FewerAgentsKeepLock DEF Runner!vars
<1>2. ASSUME NEW r \in Runners,
             Runner!Launch(r) \/ Runner!Acquire(r) \/ Runner!Work(r) \/
             Runner!AgentEnds(r) \/ Runner!Report(r) \/ Runner!Kill(r)
      PROVE  LockIsKept'
  <2>1. CASE Runner!Launch(r)
    BY <2>1, LaunchKeepsLock
  <2>2. CASE Runner!Acquire(r)
    BY <2>2, ReclaimerMovesOn
  <2>3. CASE Runner!Begin(r)
    <3>1. PICK s \in Runners : Runner!Begins(r, s)
      BY <2>3 DEF Runner!Begin, Runner!NewStory, Runner!ResumeStory, Runner!ContinueGates
    <3>2. QED
      BY <3>1, WorkKeepsLock DEF Runner!Begins
  <2>4. CASE Runner!Setup(r)
    <3>1. r \notin agents
      BY <2>4 DEF Runner!Setup, LockIsKept, AgentsLive, Hosts
    <3>2. QED
      BY <2>4, <3>1, WorkKeepsLock DEF Runner!Setup
  <2>5. CASE Runner!AgentFails(r)
    BY <2>5, WorkKeepsLock DEF Runner!AgentFails
  <2>6. CASE Runner!Decide(r)
    <3>1. r \notin agents
      BY <2>6 DEF Runner!Decide, LockIsKept, AgentsLive, Hosts
    <3>2. QED
      BY <2>6, <3>1, WorkKeepsLock DEF Runner!Decide
  <2>7. CASE Runner!Spool(r)
    <3>1. r \notin agents
      BY <2>7 DEF Runner!Spool, Runner!SpoolTo, LockIsKept, AgentsLive, Hosts
    <3>2. QED
      BY <2>7, <3>1, WorkKeepsLock DEF Runner!Spool, Runner!SpoolTo
  <2>8. CASE Runner!Release(r)
    BY <2>8, ReleaseKeepsLock
  <2>9. CASE Runner!AgentEnds(r)
    <3>1. CASE pc[r] = "agent"
      BY <2>9, <3>1, WorkKeepsLock DEF Runner!AgentEnds
    <3>2. CASE pc[r] # "agent"
      BY <2>9, <3>2, FewerAgentsKeepLock DEF Runner!AgentEnds
    <3>3. QED
      BY <3>1, <3>2
  <2>10. CASE Runner!Report(r)
    BY <2>10, FewerAgentsKeepLock DEF Runner!Report, Runner!SeeExit, Runner!PostProgress, Runner!PostResult
  <2>11. CASE Runner!Kill(r)
    BY <2>11, KillKeepsLock
  <2>12. QED
    BY <1>2, <2>1, <2>2, <2>3, <2>4, <2>5, <2>6, <2>7, <2>8, <2>9, <2>10, <2>11 DEF Runner!Work
<1>3. QED
  BY <1>1, <1>2 DEF Runner!Next

(* The same for the sets that rivals are about.                            *)
LEMMA MovesOn ==
  ASSUME NEW r \in Runners, RunnerTypes, NEW p, pc' = [pc EXCEPT ![r] = p]
  PROVE  /\ Acquirers' = (Acquirers \ {r}) \cup {o \in {r} : p \in {"make", "own", "read", "list", "rename", "reread", "relist", "restore", "remake", "reown"}}
         /\ Living' = (Living \ {r}) \cup {o \in {r} : p \notin {"off", "done", "refused", "dead"}}
         /\ Creators' = (Creators \ {r}) \cup {o \in {r} : p \in {"own", "reown"}}
         /\ Lookers' = (Lookers \ {r}) \cup {o \in {r} : p \in {"read", "list", "rename"}}
         /\ Clearers' = (Clearers \ {r}) \cup {o \in {r} : p \in {"reread", "relist", "restore", "remake"}}
         /\ Rereaders' = (Rereaders \ {r}) \cup {o \in {r} : p = "reread"}
         /\ Turned' = (Turned \ {r}) \cup {o \in {r} : p \in {"restore", "refused"}}
BY DEF RunnerTypes, Acquirers, Acquiring, Living, Runner!Alive, Creators, Lookers, Clearers, Rereaders, Turned

(* Fewer living processes leave fewer to meet.                             *)
LEMMA FewerRivals ==
  ASSUME RivalsMet, UNCHANGED <<lock, quarantine, rivals>>, agents' \cup Living' \subseteq agents \cup Living,
         Acquirers' \subseteq Acquirers, Creators' \subseteq Creators, Lookers' \subseteq Lookers,
         Clearers' \subseteq Clearers, Rereaders' \subseteq Rereaders, Turned' \subseteq Turned
  PROVE  RivalsMet'
BY DEF RivalsMet

(* Work, and a kill.                                                       *)
LEMMA WorkKeepsRivals ==
  ASSUME NEW r \in Runners, RunnerTypes, RivalsMet, NEW p \in {"agent", "decide", "spool", "release", "dead"},
         Runner!Alive(r), pc' = [pc EXCEPT ![r] = p],
         UNCHANGED <<lock, quarantine, rivals>>, agents' \subseteq agents \cup {r}
  PROVE  RivalsMet'
<1>1. Acquirers' \subseteq Acquirers /\ Creators' \subseteq Creators /\ Lookers' \subseteq Lookers
  <2>1. Acquirers' \subseteq Acquirers
    BY Moves DEF Acquirers, Acquiring
  <2>2. Creators' \subseteq Creators /\ Lookers' \subseteq Lookers
    BY MovesOn DEF Creators, Lookers
  <2>3. QED
    BY <2>1, <2>2
<1>2. Clearers' \subseteq Clearers /\ Rereaders' \subseteq Rereaders /\ Turned' \subseteq Turned
  BY MovesOn DEF Clearers, Rereaders, Turned
<1>3. agents' \cup Living' \subseteq agents \cup Living
  <2>1. Living' \subseteq Living /\ r \in Living
    <3>1. Living' \subseteq Living \cup {r}
      BY Moves DEF Living, Runner!Alive
    <3>2. r \in Living
      BY DEF Living
    <3>3. QED
      BY <3>1, <3>2
  <2>2. QED
    BY <2>1
<1>4. QED
  BY <1>1, <1>2, <1>3, FewerRivals

(* Reports, and an agent that ends.                                        *)
LEMMA RestKeepsRivals ==
  ASSUME RivalsMet, UNCHANGED <<lock, quarantine, rivals, pc>>, agents' \subseteq agents
  PROVE  RivalsMet'
<1>1. /\ Acquirers' = Acquirers /\ Creators' = Creators /\ Lookers' = Lookers /\ Clearers' = Clearers
      /\ Rereaders' = Rereaders /\ Turned' = Turned /\ Living' = Living
  BY DEF Acquirers, Acquiring, Creators, Lookers, Clearers, Rereaders, Turned, Living, Runner!Alive
<1>2. QED
  BY <1>1, FewerRivals

(* A release.                                                              *)
LEMMA ReleaseKeepsRivals ==
  ASSUME NEW r \in Runners, RunnerTypes, RivalsMet, Runner!Release(r)
  PROVE  RivalsMet'
<1>1. pc[r] = "release" /\ pc' = [pc EXCEPT ![r] = "done"] /\ lock' = Runner!Free /\ UNCHANGED <<quarantine, rivals, agents>>
  BY DEF Runner!Release
<1>2. /\ Acquirers' = Acquirers /\ Creators' = Creators /\ Lookers' = Lookers /\ Clearers' = Clearers
      /\ Rereaders' = Rereaders /\ Turned' = Turned /\ Living' = Living \ {r}
  <2>1. pc'[r] = "done" /\ \A o \in Runners \ {r} : pc'[o] = pc[o]
    BY <1>1, Moves
  <2>2. Acquirers' = Acquirers
    BY <1>1, <2>1 DEF Acquirers, Acquiring
  <2>3. Creators' = Creators /\ Lookers' = Lookers
    BY <1>1, <2>1 DEF Creators, Lookers
  <2>4. Clearers' = Clearers /\ Rereaders' = Rereaders /\ Turned' = Turned
    BY <1>1, <2>1 DEF Clearers, Rereaders, Turned
  <2>5. Living' = Living \ {r}
    BY <1>1, <2>1 DEF Living, Runner!Alive
  <2>6. QED
    BY <2>2, <2>3, <2>4, <2>5
<1>3. r \in Living /\ r \notin Acquirers /\ Creators \subseteq Acquirers /\ Lookers \subseteq Acquirers
  BY <1>1 DEF Living, Runner!Alive, Acquirers, Acquiring, Creators, Lookers
<1>4. QED
  BY <1>1, <1>2, <1>3 DEF RivalsMet, Runner!Free

(* A launch: the others meet the new one, and it them.                     *)
LEMMA LaunchKeepsRivals ==
  ASSUME NEW r \in Runners, RunnerTypes, LockIsKept, RivalsMet, Runner!Launch(r)
  PROVE  RivalsMet'
<1>1. pc[r] = "off" /\ pc' = [pc EXCEPT ![r] = "make"] /\ UNCHANGED <<lock, quarantine, agents>>
  BY DEF Runner!Launch
<1>2. /\ Acquirers' = Acquirers \cup {r} /\ Creators' = Creators /\ Lookers' = Lookers /\ Clearers' = Clearers
      /\ Rereaders' = Rereaders /\ Turned' = Turned /\ Living' = Living \cup {r} /\ r \notin Living
  <2>1. pc'[r] = "make" /\ \A o \in Runners \ {r} : pc'[o] = pc[o]
    BY <1>1, Moves
  <2>2. Acquirers' = Acquirers \cup {r}
    BY <1>1, <2>1 DEF Acquirers, Acquiring
  <2>3. Creators' = Creators /\ Lookers' = Lookers
    BY <1>1, <2>1 DEF Creators, Lookers
  <2>4. Clearers' = Clearers /\ Rereaders' = Rereaders /\ Turned' = Turned
    BY <1>1, <2>1 DEF Clearers, Rereaders, Turned
  <2>5. Living' = Living \cup {r} /\ r \notin Living
    BY <1>1, <2>1 DEF Living, Runner!Alive
  <2>6. QED
    BY <2>2, <2>3, <2>4, <2>5
<1>3. rivals \subseteq rivals'
  BY DEF Runner!Launch
<1>4. Runner!Survivors(r) = agents \cup Living
  BY <1>2 DEF Runner!Survivors, Living
<1>5. ASSUME NEW x \in Acquirers', NEW o \in agents' \cup Living', o # x PROVE x \in rivals'
  <2>1. CASE x = r
    <3>1. Runner!Survivors(r) # {}
      BY <1>1, <1>2, <1>4, <1>5, <2>1
    <3>2. QED
      BY <2>1, <3>1 DEF Runner!Launch
  <2>2. CASE x # r
    <3>1. x \in Acquirers /\ x \in Living /\ Runner!Alive(x) /\ ~Runner!AtWork(x)
      BY <1>2, <1>5, <2>2 DEF Acquirers, Acquiring, Living, Runner!Alive, Runner!AtWork
    <3>2. Runner!Survivors(r) # {}
      BY <1>4, <3>1
    <3>3. QED
      BY <3>1, <3>2 DEF Runner!Launch, RunnerTypes, Acquirers
  <2>3. QED
    BY <2>1, <2>2
<1>6. QED
  BY <1>1, <1>2, <1>3, <1>5 DEF RivalsMet

(* The steps to the lock.                                                  *)
LEMMA ReclaimerKeepsRivals ==
  ASSUME RunnerConstants, NEW r \in Runners, RunnerTypes, LockIsKept, RivalsMet, Runner!Acquire(r)
  PROVE  RivalsMet'
<1>1. /\ r \in Acquirers /\ r \in Living /\ agents' = agents
      /\ \A o \in Runners \ {r} : pc'[o] = pc[o] /\ quarantine'[o] = quarantine[o]
  <2>1. Acquiring(r)
    BY DEF Runner!Acquire, Runner!MakeLock, Runner!WriteOwner, Runner!ReadOwner, Runner!List, Runner!Rename,
       Runner!ReRead, Runner!ReList, Runner!Restore, Acquiring
  <2>2. \E p : pc' = [pc EXCEPT ![r] = p]
    BY DEF Runner!Acquire, Runner!MakeLock, Runner!WriteOwner, Runner!ReadOwner, Runner!List, Runner!Rename,
       Runner!ReRead, Runner!ReList, Runner!Restore, Runner!To, Runner!Refuse
  <2>3. \A o \in Runners \ {r} : quarantine'[o] = quarantine[o]
    BY DEF Runner!Acquire, Runner!MakeLock, Runner!WriteOwner, Runner!ReadOwner, Runner!List, Runner!Rename,
       Runner!ReRead, Runner!ReList, Runner!Restore, RunnerTypes
  <2>4. QED
    BY <2>1, <2>2, <2>3, Moves DEF Acquirers, Acquiring, Living, Runner!Alive, Runner!Acquire
<1>2. /\ rivals \ {r} \subseteq rivals' /\ (pc'[r] # "inside" => rivals \subseteq rivals')
      /\ Runner!Survivors(r) # {} \/ (lock.held /\ lock.owner = 0) => pc'[r] = "inside" \/ r \in rivals'
  <2>1. CASE Runner!MakeLock(r)
    BY <2>1 DEF Runner!Acquire, Runner!MakeLock, Runner!To, Runner!Refuse, Runner!Meets, RunnerTypes
  <2>2. CASE Runner!WriteOwner(r)
    BY <2>2 DEF Runner!Acquire, Runner!WriteOwner, Runner!To, Runner!Refuse, Runner!Meets, RunnerTypes
  <2>3. CASE Runner!ReadOwner(r)
    BY <2>3 DEF Runner!Acquire, Runner!ReadOwner, Runner!To, Runner!Refuse, Runner!Meets, RunnerTypes
  <2>4. CASE Runner!List(r)
    BY <2>4 DEF Runner!Acquire, Runner!List, Runner!To, Runner!Refuse, Runner!Meets, RunnerTypes
  <2>5. CASE Runner!Rename(r)
    BY <2>5 DEF Runner!Acquire, Runner!Rename, Runner!To, Runner!Refuse, Runner!Meets, RunnerTypes
  <2>6. CASE Runner!ReRead(r)
    BY <2>6 DEF Runner!Acquire, Runner!ReRead, Runner!To, Runner!Refuse, Runner!Meets, RunnerTypes
  <2>7. CASE Runner!ReList(r)
    BY <2>7 DEF Runner!Acquire, Runner!ReList, Runner!To, Runner!Refuse, Runner!Meets, RunnerTypes
  <2>8. CASE Runner!Restore(r)
    BY <2>8 DEF Runner!Acquire, Runner!Restore, Runner!To, Runner!Refuse, Runner!Meets, RunnerTypes
  <2>9. QED
    BY <2>1, <2>2, <2>3, <2>4, <2>5, <2>6, <2>7, <2>8 DEF Runner!Acquire
<1>3. Living' \subseteq Living /\ \A x \in Runners \ {r} : x \in Acquirers' => x \in Acquirers /\ x \in rivals'
  BY <1>1, <1>2 DEF RivalsMet, Living, Runner!Alive, Acquirers, Acquiring
<1>4. /\ pc'[r] \in {"own", "reown"} => (lock'.held /\ lock'.owner = 0) \/ r \in rivals'
      /\ pc'[r] \in {"read", "list", "rename"} => lock'.held \/ r \in rivals'
      /\ pc'[r] \in {"reread", "relist", "restore", "remake"} => ~lock'.held \/ r \in rivals'
      /\ pc'[r] = "reread" => quarantine'[r].held /\ (quarantine'[r].owner = 0 => r \in rivals')
      /\ pc'[r] \in {"restore", "refused"} => r \in rivals'
  <2> USE DEF RunnerConstants
  <2>1. CASE Runner!MakeLock(r)
    <3>1. CASE pc[r] = "make" /\ ~lock.held
      <4>1. pc'[r] = "own"
        BY <2>1, <3>1 DEF Runner!Acquire, Runner!MakeLock, Runner!To, Runner!Refuse, RunnerTypes
      <4>2. QED
        BY <2>1, <3>1, <4>1, <1>1, <1>2 DEF Runner!MakeLock, RunnerTypes, RivalsMet, Lookers, Clearers,
           Rereaders
    <3>2. CASE pc[r] = "remake" /\ ~lock.held
      <4>1. pc'[r] = "reown"
        BY <2>1, <3>2 DEF Runner!Acquire, Runner!MakeLock, Runner!To, Runner!Refuse, RunnerTypes
      <4>2. QED
        BY <2>1, <3>2, <4>1, <1>1, <1>2 DEF Runner!MakeLock, RunnerTypes, RivalsMet, Lookers, Clearers,
           Rereaders
    <3>3. CASE pc[r] = "make" /\ lock.held
      <4>1. pc'[r] = "read"
        BY <2>1, <3>3 DEF Runner!Acquire, Runner!MakeLock, Runner!To, Runner!Refuse, RunnerTypes
      <4>2. QED
        BY <2>1, <3>3, <4>1, <1>1, <1>2 DEF Runner!MakeLock, RunnerTypes, RivalsMet, Lookers, Clearers,
           Rereaders
    <3>4. CASE pc[r] = "remake" /\ lock.held
      <4>1. pc'[r] = "refused"
        BY <2>1, <3>4 DEF Runner!Acquire, Runner!MakeLock, Runner!To, Runner!Refuse, RunnerTypes
      <4>2. QED
        BY <2>1, <3>4, <4>1, <1>1, <1>2 DEF Runner!MakeLock, RunnerTypes, RivalsMet, Lookers, Clearers,
           Rereaders
    <3>9. QED
      BY <3>1, <3>2, <3>3, <3>4, <2>1 DEF Runner!Acquire, Runner!MakeLock, Runner!To, Runner!Refuse
  <2>2. CASE Runner!WriteOwner(r)
    <3>1. CASE lock = [held |-> TRUE, owner |-> 0]
      <4>1. pc'[r] = "inside"
        BY <2>2, <3>1 DEF Runner!Acquire, Runner!WriteOwner, Runner!To, Runner!Refuse, RunnerTypes
      <4>2. QED
        BY <2>2, <3>1, <4>1, <1>1, <1>2 DEF Runner!WriteOwner, RunnerTypes, RivalsMet, Lookers, Clearers,
           Rereaders
    <3>2. CASE lock # [held |-> TRUE, owner |-> 0] /\ pc[r] = "own" /\ lock.held
      <4>1. pc'[r] = "read"
        BY <2>2, <3>2 DEF Runner!Acquire, Runner!WriteOwner, Runner!To, Runner!Refuse, RunnerTypes
      <4>2. QED
        BY <2>2, <3>2, <4>1, <1>1, <1>2 DEF Runner!WriteOwner, RunnerTypes, Locks, RivalsMet, Creators,
           Lookers, Clearers, Rereaders
    <3>3. CASE lock # [held |-> TRUE, owner |-> 0] /\ ~(pc[r] = "own" /\ lock.held)
      <4>1. pc'[r] = "refused"
        BY <2>2, <3>3 DEF Runner!Acquire, Runner!WriteOwner, Runner!To, Runner!Refuse, RunnerTypes
      <4>2. QED
        BY <2>2, <3>3, <4>1, <1>1, <1>2 DEF Runner!WriteOwner, RunnerTypes, Locks, RivalsMet, Creators,
           Lookers, Clearers, Rereaders
    <3>9. QED
      BY <3>1, <3>2, <3>3, <2>2 DEF Runner!Acquire, Runner!WriteOwner, Runner!To, Runner!Refuse
  <2>3. CASE Runner!ReadOwner(r)
    <3>1. CASE Runner!DeadOwner(lock)
      <4>1. pc'[r] = "list"
        BY <2>3, <3>1 DEF Runner!Acquire, Runner!ReadOwner, Runner!To, Runner!Refuse, RunnerTypes
      <4>2. QED
        BY <2>3, <3>1, <4>1, <1>1, <1>2 DEF Runner!ReadOwner, RunnerTypes, RivalsMet, Lookers, Clearers,
           Rereaders
    <3>2. CASE ~Runner!DeadOwner(lock)
      <4>1. pc[r] = "read" /\ pc'[r] = "refused"
        BY <2>3, <3>2 DEF Runner!Acquire, Runner!ReadOwner, Runner!To, Runner!Refuse, RunnerTypes
      <4>2. CASE lock.held /\ lock.owner # 0
        <5>1. lock.owner \in Runners \ {r} /\ Runner!Alive(lock.owner)
          BY <3>2, <4>1, <4>2 DEF Runner!DeadOwner, RunnerTypes, Locks, LockIsKept, OwnersEntered, Workers,
             Ended
        <5>2. Runner!Survivors(r) # {}
          BY <5>1 DEF Runner!Survivors
        <5>3. QED
          BY <4>1, <5>2, <1>2
      <4>3. CASE ~(lock.held /\ lock.owner # 0)
        BY <1>2, <4>1, <4>3 DEF RivalsMet, Lookers, RunnerTypes, Locks
      <4>4. QED
        BY <4>2, <4>3
    <3>9. QED
      BY <3>1, <3>2, <2>3 DEF Runner!Acquire, Runner!ReadOwner, Runner!To, Runner!Refuse
  <2>4. CASE Runner!List(r)
    <3>1. CASE Runner!Survivors(r) = {}
      <4>1. pc'[r] = "rename"
        BY <2>4, <3>1 DEF Runner!Acquire, Runner!List, Runner!To, Runner!Refuse, RunnerTypes
      <4>2. QED
        BY <2>4, <3>1, <4>1, <1>1, <1>2 DEF Runner!List, RunnerTypes, RivalsMet, Lookers, Clearers, Rereaders
    <3>2. CASE Runner!Survivors(r) # {}
      <4>1. pc'[r] = "refused"
        BY <2>4, <3>2 DEF Runner!Acquire, Runner!List, Runner!To, Runner!Refuse, RunnerTypes
      <4>2. QED
        BY <2>4, <3>2, <4>1, <1>1, <1>2 DEF Runner!List, RunnerTypes, RivalsMet, Lookers, Clearers, Rereaders
    <3>9. QED
      BY <3>1, <3>2, <2>4 DEF Runner!Acquire, Runner!List, Runner!To, Runner!Refuse
  <2>5. CASE Runner!Rename(r)
    <3>1. CASE lock.held
      <4>1. pc'[r] = "reread"
        BY <2>5, <3>1 DEF Runner!Acquire, Runner!Rename, Runner!To, Runner!Refuse, RunnerTypes
      <4>2. QED
        BY <2>5, <3>1, <4>1, <1>1, <1>2 DEF Runner!Rename, Runner!Free, RunnerTypes, Locks, RivalsMet,
           Lookers, Clearers, Rereaders
    <3>2. CASE ~lock.held
      <4>1. pc'[r] = "refused"
        BY <2>5, <3>2 DEF Runner!Acquire, Runner!Rename, Runner!To, Runner!Refuse, RunnerTypes
      <4>2. QED
        BY <2>5, <3>2, <4>1, <1>1, <1>2 DEF Runner!Rename, RunnerTypes, RivalsMet, Lookers, Clearers,
           Rereaders
    <3>9. QED
      BY <3>1, <3>2, <2>5 DEF Runner!Acquire, Runner!Rename, Runner!To, Runner!Refuse
  <2>6. CASE Runner!ReRead(r)
    <3>1. CASE Runner!DeadOwner(quarantine[r])
      <4>1. pc'[r] = "relist"
        BY <2>6, <3>1 DEF Runner!Acquire, Runner!ReRead, Runner!To, Runner!Refuse, RunnerTypes
      <4>2. QED
        BY <2>6, <3>1, <4>1, <1>1, <1>2 DEF Runner!ReRead, RunnerTypes, RivalsMet, Lookers, Clearers,
           Rereaders
    <3>2. CASE ~Runner!DeadOwner(quarantine[r])
      <4>1. pc[r] = "reread" /\ pc'[r] = "restore"
        BY <2>6, <3>2 DEF Runner!Acquire, Runner!ReRead, Runner!To, Runner!Refuse, RunnerTypes
      <4>2. CASE quarantine[r].held /\ quarantine[r].owner # 0
        <5>1. quarantine[r].owner \in Runners \ {r} /\ Runner!Alive(quarantine[r].owner)
          BY <3>2, <4>1, <4>2 DEF Runner!DeadOwner, RunnerTypes, Locks, LockIsKept, OwnersEntered, Workers,
             Ended
        <5>2. Runner!Survivors(r) # {}
          BY <5>1 DEF Runner!Survivors
        <5>3. QED
          BY <4>1, <5>2, <1>2
      <4>3. CASE ~(quarantine[r].held /\ quarantine[r].owner # 0)
        BY <1>2, <4>1, <4>3 DEF RivalsMet, Rereaders, RunnerTypes, Locks
      <4>4. QED
        BY <4>2, <4>3
    <3>9. QED
      BY <3>1, <3>2, <2>6 DEF Runner!Acquire, Runner!ReRead, Runner!To, Runner!Refuse
  <2>7. CASE Runner!ReList(r)
    <3>1. CASE Runner!Survivors(r) = {}
      <4>1. pc'[r] = "remake"
        BY <2>7, <3>1 DEF Runner!Acquire, Runner!ReList, Runner!To, Runner!Refuse, RunnerTypes
      <4>2. QED
        BY <2>7, <3>1, <4>1, <1>1, <1>2 DEF Runner!ReList, RunnerTypes, RivalsMet, Lookers, Clearers,
           Rereaders
    <3>2. CASE Runner!Survivors(r) # {}
      <4>1. pc'[r] = "restore"
        BY <2>7, <3>2 DEF Runner!Acquire, Runner!ReList, Runner!To, Runner!Refuse, RunnerTypes
      <4>2. QED
        BY <2>7, <3>2, <4>1, <1>1, <1>2 DEF Runner!ReList, RunnerTypes, RivalsMet, Lookers, Clearers,
           Rereaders
    <3>9. QED
      BY <3>1, <3>2, <2>7 DEF Runner!Acquire, Runner!ReList, Runner!To, Runner!Refuse
  <2>8. CASE Runner!Restore(r)
    <3>1. CASE lock.owner = 0
      <4>1. pc'[r] = "refused"
        BY <2>8, <3>1 DEF Runner!Acquire, Runner!Restore, Runner!To, Runner!Refuse, RunnerTypes
      <4>2. QED
        BY <2>8, <3>1, <4>1, <1>1, <1>2 DEF Runner!Restore, RunnerTypes, RivalsMet, Turned, Lookers,
           Clearers, Rereaders
    <3>2. CASE lock.owner # 0
      <4>1. pc'[r] = "refused"
        BY <2>8, <3>2 DEF Runner!Acquire, Runner!Restore, Runner!To, Runner!Refuse, RunnerTypes
      <4>2. QED
        BY <2>8, <3>2, <4>1, <1>1, <1>2 DEF Runner!Restore, RunnerTypes, RivalsMet, Lookers, Clearers,
           Rereaders
    <3>9. QED
      BY <3>1, <3>2, <2>8 DEF Runner!Acquire, Runner!Restore, Runner!To, Runner!Refuse
  <2>9. QED
    BY <2>1, <2>2, <2>3, <2>4, <2>5, <2>6, <2>7, <2>8 DEF Runner!Acquire
<1>5. \A x \in Acquirers' : \A o \in agents' \cup Living' : o # x => x \in rivals'
  BY <1>1, <1>2, <1>3 DEF RivalsMet, Acquirers, Acquiring
<1>6. \A x \in Runners \ {r} : /\ x \in Creators' \cup Lookers' \cup Clearers' \cup Rereaders' => x \in Acquirers'
                               /\ x \in Turned' => x \in Acquirers' \/ x \in rivals'
                               /\ x \in Rereaders' => quarantine'[x].held
  BY <1>1, <1>2 DEF Creators, Lookers, Clearers, Rereaders, Turned, Acquirers, Acquiring, RivalsMet
<1>7. QED
  BY <1>3, <1>4, <1>5, <1>6 DEF RivalsMet, Creators, Lookers, Clearers, Rereaders, Turned

(* Every step keeps what holds of rivals.                                  *)
LEMMA RivalsStayMet ==
  ASSUME RunnerConstants, RunnerTypes, LockIsKept, RivalsMet, [Runner!Next]_Runner!vars
  PROVE  RivalsMet'
<1>1. CASE UNCHANGED Runner!vars
  BY <1>1, RestKeepsRivals DEF Runner!vars, Runner!lockVars
<1>2. ASSUME NEW r \in Runners,
             Runner!Launch(r) \/ Runner!Acquire(r) \/ Runner!Work(r) \/
             Runner!AgentEnds(r) \/ Runner!Report(r) \/ Runner!Kill(r)
      PROVE  RivalsMet'
  <2>1. CASE Runner!Launch(r)
    BY <2>1, LaunchKeepsRivals
  <2>2. CASE Runner!Acquire(r)
    BY <2>2, ReclaimerKeepsRivals
  <2>3. CASE Runner!Begin(r)
    <3>1. PICK s \in Runners : Runner!Begins(r, s)
      BY <2>3 DEF Runner!Begin, Runner!NewStory, Runner!ResumeStory, Runner!ContinueGates
    <3>2. QED
      BY <3>1, WorkKeepsRivals DEF Runner!Begins, Runner!lockVars, Runner!Alive
  <2>4. CASE Runner!Setup(r)
    BY <2>4, WorkKeepsRivals DEF Runner!Setup, Runner!lockVars, Runner!Alive
  <2>5. CASE Runner!AgentFails(r)
    BY <2>5, WorkKeepsRivals DEF Runner!AgentFails, Runner!lockVars, Runner!Alive
  <2>6. CASE Runner!Decide(r)
    BY <2>6, WorkKeepsRivals DEF Runner!Decide, Runner!lockVars, Runner!Alive
  <2>7. CASE Runner!Spool(r)
    BY <2>7, WorkKeepsRivals DEF Runner!Spool, Runner!SpoolTo, Runner!lockVars, Runner!Alive
  <2>8. CASE Runner!Release(r)
    BY <2>8, ReleaseKeepsRivals
  <2>9. CASE Runner!AgentEnds(r)
    <3>1. CASE pc[r] = "agent"
      BY <2>9, <3>1, WorkKeepsRivals DEF Runner!AgentEnds, Runner!lockVars, Runner!Alive
    <3>2. CASE pc[r] # "agent"
      BY <2>9, <3>2, RestKeepsRivals DEF Runner!AgentEnds, Runner!lockVars
    <3>3. QED
      BY <3>1, <3>2
  <2>10. CASE Runner!Report(r)
    BY <2>10, RestKeepsRivals DEF Runner!Report, Runner!SeeExit, Runner!PostProgress, Runner!PostResult,
       Runner!lockVars
  <2>11. CASE Runner!Kill(r)
    BY <2>11, WorkKeepsRivals DEF Runner!Kill, Runner!lockVars
  <2>12. QED
    BY <1>2, <2>1, <2>2, <2>3, <2>4, <2>5, <2>6, <2>7, <2>8, <2>9, <2>10, <2>11 DEF Runner!Work
<1>3. QED
  BY <1>1, <1>2 DEF Runner!Next

(* The lock names one owner.                                               *)
LEMMA OneIsAtWork == ASSUME RunnerTypes, LockIsKept PROVE Runner!OneRunner
<1>1. \A r \in Runners : Runner!AtWork(r) => r \in Workers
  BY DEF Runner!AtWork, Workers
<1>2. QED
  BY <1>1 DEF Runner!OneRunner, Runner!NoDoubleRun, LockIsKept, WorkerOwns

(* Whoever is refused met somebody.                                        *)
LEMMA RefusedMetRivals == ASSUME RivalsMet PROVE Runner!RefusedHasRival
BY DEF RivalsMet, Runner!RefusedHasRival, Turned

(* Types, on the way to the lock.                                          *)
LEMMA AcquireKeepsTypes ==
  ASSUME RunnerConstants, RunnerTypes, NEW r \in Runners, Runner!Acquire(r)
  PROVE  UNCHANGED place => RunnerTypes'
<1>1. pc' \in [Runners -> Steps]
  <2>1. \E p \in Steps : pc' = [pc EXCEPT ![r] = p]
    BY DEF Runner!Acquire, Runner!MakeLock, Runner!WriteOwner, Runner!ReadOwner, Runner!List, Runner!Rename,
       Runner!ReRead, Runner!ReList, Runner!Restore, Runner!To, Runner!Refuse, Steps
  <2>2. QED
    BY <2>1 DEF RunnerTypes
<1>2. out' \in [Runners -> Results]
  <2>1. out' = out \/ out' = [out EXCEPT ![r] = "failed"]
    BY DEF Runner!Acquire, Runner!MakeLock, Runner!WriteOwner, Runner!ReadOwner, Runner!List, Runner!Rename,
       Runner!ReRead, Runner!ReList, Runner!Restore, Runner!To, Runner!Refuse
  <2>2. QED
    BY <2>1 DEF RunnerTypes, Results
<1>3. rivals' \subseteq Runners
  BY DEF Runner!Acquire, Runner!MakeLock, Runner!WriteOwner, Runner!ReadOwner, Runner!List, Runner!Rename,
     Runner!ReRead, Runner!ReList, Runner!Restore, Runner!Meets, RunnerTypes
<1>4. lock' \in Locks /\ (lock'.owner # 0 => lock'.held)
  <2>1. \/ lock' = lock \/ lock' = Runner!Free \/ lock' = [held |-> TRUE, owner |-> 0] \/ lock' = [held |-> TRUE, owner |-> r]
        \/ lock' = quarantine[r]
    BY DEF Runner!Acquire, Runner!MakeLock, Runner!WriteOwner, Runner!ReadOwner, Runner!List, Runner!Rename,
       Runner!ReRead, Runner!ReList, Runner!Restore
  <2>2. CASE lock' = lock \/ lock' = quarantine[r]
    BY <2>2 DEF RunnerTypes, NamedIsHeld
  <2>3. CASE lock' = Runner!Free
    BY <2>3 DEF Locks, Runner!Free
  <2>6. CASE lock' = [held |-> TRUE, owner |-> 0]
    BY <2>6 DEF Locks
  <2>4. CASE lock' = [held |-> TRUE, owner |-> r]
    BY <2>4 DEF Locks
  <2>5. QED
    BY <2>1, <2>2, <2>3, <2>4, <2>6
<1>5. quarantine' \in [Runners -> Locks] /\ NamedIsHeld'
  <2>1. quarantine' = quarantine \/ quarantine' = [quarantine EXCEPT ![r] = lock] \/ quarantine' = [quarantine EXCEPT ![r] = Runner!Free]
    BY DEF Runner!Acquire, Runner!MakeLock, Runner!WriteOwner, Runner!ReadOwner, Runner!List, Runner!Rename,
       Runner!ReRead, Runner!ReList, Runner!Restore
  <2>2. CASE quarantine' = quarantine
    BY <2>2 DEF RunnerTypes, NamedIsHeld
  <2>3. CASE quarantine' = [quarantine EXCEPT ![r] = lock]
    BY <2>3 DEF RunnerTypes, NamedIsHeld
  <2>4. CASE quarantine' = [quarantine EXCEPT ![r] = Runner!Free]
    BY <2>4 DEF RunnerTypes, NamedIsHeld, Runner!Free, Locks
  <2>5. QED
    BY <2>1, <2>2, <2>3, <2>4
<1>6. assessed' \in [Runners -> Runners \cup {0}] /\ grabbed' \in BOOLEAN
  BY DEF Runner!Acquire, RunnerTypes, Locks
<1>7. UNCHANGED <<agents, story, questions, spool, reached, asked, queue, sent, ended, kills>>
  BY DEF Runner!Acquire, Runner!storyVars, Runner!launchVars
<1>8. QED
  BY <1>1, <1>2, <1>3, <1>4, <1>5, <1>6, <1>7 DEF RunnerTypes

(* Types.                                                                  *)
LEMMA NextKeepsTypes ==
  ASSUME RunnerConstants, RunnerTypes, RunsAreOrdered, [Runner!Next]_Runner!vars
  PROVE  RunnerTypes'
<1>1. CASE UNCHANGED Runner!vars
  BY <1>1 DEF Runner!vars, Runner!lockVars, Runner!storyVars, Runner!launchVars, RunnerTypes, NamedIsHeld
<1>2. ASSUME NEW r \in Runners, UNCHANGED place, Runner!Acquire(r)
      PROVE  RunnerTypes'
  BY <1>2, AcquireKeepsTypes
<1>3. ASSUME NEW r \in Runners, UNCHANGED place,
             Runner!Launch(r) \/ Runner!Work(r) \/ Runner!AgentEnds(r) \/ Runner!Report(r) \/ Runner!Kill(r)
      PROVE  RunnerTypes'
  <2>1. pc' \in [Runners -> Steps]
    <3>1. pc' = pc \/ \E p \in Steps : pc' = [pc EXCEPT ![r] = p]
      BY <1>3 DEF Runner!Work, Runner!Begin, Runner!NewStory, Runner!ResumeStory, Runner!ContinueGates,
         Runner!Begins, Runner!Setup, Runner!AgentFails, Runner!Decide, Runner!Spool, Runner!SpoolTo,
         Runner!Release, Runner!AgentEnds, Runner!Report, Runner!SeeExit, Runner!PostProgress,
         Runner!PostResult, Runner!Launch, Runner!Kill, Steps
    <3>2. QED
      BY <3>1 DEF RunnerTypes
  <2>2. out' \in [Runners -> Results]
    <3>1. out' = out \/ \E o \in Results : out' = [out EXCEPT ![r] = o]
      BY <1>3 DEF Runner!Work, Runner!Begin, Runner!NewStory, Runner!ResumeStory, Runner!ContinueGates,
         Runner!Begins, Runner!Setup, Runner!AgentFails, Runner!Decide, Runner!Spool, Runner!SpoolTo,
         Runner!Release, Runner!AgentEnds, Runner!Report, Runner!SeeExit, Runner!PostProgress,
         Runner!PostResult, Runner!Launch, Runner!Kill, Results, Runner!Verdict, Runner!Shippable
    <3>2. QED
      BY <3>1 DEF RunnerTypes
  <2>3. lock' \in Locks /\ (lock'.owner # 0 => lock'.held)
    <3>1. lock' = lock \/ lock' = Runner!Free
      BY <1>3 DEF Runner!Work, Runner!Begin, Runner!NewStory, Runner!ResumeStory, Runner!ContinueGates,
         Runner!Begins, Runner!Setup, Runner!AgentFails, Runner!Decide, Runner!Spool, Runner!SpoolTo,
         Runner!Release, Runner!AgentEnds, Runner!Report, Runner!SeeExit, Runner!PostProgress,
         Runner!PostResult, Runner!Launch, Runner!Kill, Runner!lockVars
    <3>2. CASE lock' = lock
      BY <3>2 DEF RunnerTypes
    <3>3. CASE lock' = Runner!Free
      BY <3>3 DEF Runner!Free, Locks
    <3>4. QED
      BY <3>1, <3>2, <3>3
  <2>4. /\ UNCHANGED <<quarantine, assessed, grabbed>> /\ rivals' \subseteq Runners /\ agents' \subseteq Runners
        /\ kills' \in Nat
    BY <1>3 DEF Runner!Work, Runner!Begin, Runner!NewStory, Runner!ResumeStory, Runner!ContinueGates,
       Runner!Begins, Runner!Setup, Runner!AgentFails, Runner!Decide, Runner!Spool, Runner!SpoolTo,
       Runner!Release, Runner!AgentEnds, Runner!Report, Runner!SeeExit, Runner!PostProgress,
       Runner!PostResult, Runner!Launch, Runner!Kill, Runner!lockVars, RunnerTypes
  <2>5. story' \in [Runners -> Runners \cup {0}] /\ spool' \in [Runners -> Runners \cup {0}]
    <3>1. story' = story \/ \E s \in Runners : story' = [story EXCEPT ![r] = s]
      BY <1>3 DEF Runner!Work, Runner!Begin, Runner!NewStory, Runner!ResumeStory, Runner!ContinueGates,
         Runner!Begins, Runner!Setup, Runner!AgentFails, Runner!Decide, Runner!Spool, Runner!SpoolTo,
         Runner!Release, Runner!AgentEnds, Runner!Report, Runner!SeeExit, Runner!PostProgress,
         Runner!PostResult, Runner!Launch, Runner!Kill, Runner!storyVars, Runner!lockVars
    <3>2. spool' = spool \/ spool' = [spool EXCEPT ![story[r]] = r]
      BY <1>3 DEF Runner!Work, Runner!Begin, Runner!NewStory, Runner!ResumeStory, Runner!ContinueGates,
         Runner!Begins, Runner!Setup, Runner!AgentFails, Runner!Decide, Runner!Spool, Runner!SpoolTo,
         Runner!Release, Runner!AgentEnds, Runner!Report, Runner!SeeExit, Runner!PostProgress,
         Runner!PostResult, Runner!Launch, Runner!Kill, Runner!storyVars, Runner!lockVars
    <3>3. story' \in [Runners -> Runners \cup {0}]
      BY <3>1 DEF RunnerTypes
    <3>4. spool' \in [Runners -> Runners \cup {0}]
      BY <3>2 DEF RunnerTypes
    <3>5. QED
      BY <3>3, <3>4
  <2>6. reached' \in Seq(Runners)
    <3>1. reached' = reached \/ reached' = Append(reached, r)
      BY <1>3 DEF Runner!Work, Runner!Begin, Runner!NewStory, Runner!ResumeStory, Runner!ContinueGates,
         Runner!Begins, Runner!Setup, Runner!AgentFails, Runner!Decide, Runner!Spool, Runner!SpoolTo,
         Runner!Release, Runner!AgentEnds, Runner!Report, Runner!SeeExit, Runner!PostProgress,
         Runner!PostResult, Runner!Launch, Runner!Kill, Runner!storyVars, Runner!lockVars
    <3>2. reached \in Seq(Runners)
      BY DEF RunnerTypes
    <3>3. QED
      BY <3>1, <3>2
  <2>7. questions' \in [Runners -> [by : Runners \cup {0}, valid : BOOLEAN]]
    <3>1. \/ questions' = questions \/ \E s \in Runners : questions' = [questions EXCEPT ![s] = Runner!NoQuestions]
          \/ \E v \in BOOLEAN : questions' = [questions EXCEPT ![story[r]] = [by |-> r, valid |-> v]]
      BY <1>3 DEF Runner!Work, Runner!Begin, Runner!NewStory, Runner!ResumeStory, Runner!ContinueGates,
         Runner!Begins, Runner!Setup, Runner!AgentFails, Runner!Decide, Runner!Spool, Runner!SpoolTo,
         Runner!Release, Runner!AgentEnds, Runner!Report, Runner!SeeExit, Runner!PostProgress,
         Runner!PostResult, Runner!Launch, Runner!Kill, Runner!storyVars, Runner!lockVars, Runner!Leaves
    <3>2. CASE questions' = questions
      BY <3>2 DEF RunnerTypes
    <3>3. CASE \E s \in Runners : questions' = [questions EXCEPT ![s] = Runner!NoQuestions]
      BY <3>3 DEF RunnerTypes, Runner!NoQuestions
    <3>4. CASE \E v \in BOOLEAN : questions' = [questions EXCEPT ![story[r]] = [by |-> r, valid |-> v]]
      <4>1. PICK v \in BOOLEAN : questions' = [questions EXCEPT ![story[r]] = [by |-> r, valid |-> v]]
        BY <3>4
      <4>2. [by |-> r, valid |-> v] \in [by : Runners \cup {0}, valid : BOOLEAN]
        OBVIOUS
      <4>3. QED
        BY <4>1, <4>2 DEF RunnerTypes
    <3>5. QED
      BY <3>1, <3>2, <3>3, <3>4
  <2>8. asked' \in [Runners -> Runners \cup {0}]
    <3>1. CASE Runner!Decide(r)
      <4>1. story[r] \in Runners
        BY <3>1 DEF Runner!Decide, RunsAreOrdered, Busy, RunnerTypes
      <4>2. QED
        BY <3>1, <4>1 DEF Runner!Decide, RunnerTypes
    <3>2. CASE ~Runner!Decide(r)
      <4>1. asked' = asked
        BY <1>3, <3>2 DEF Runner!Work, Runner!Begin, Runner!NewStory, Runner!ResumeStory,
           Runner!ContinueGates, Runner!Begins, Runner!Setup, Runner!AgentFails, Runner!Spool,
           Runner!SpoolTo, Runner!Release, Runner!AgentEnds, Runner!Report, Runner!SeeExit,
           Runner!PostProgress, Runner!PostResult, Runner!Launch, Runner!Kill, Runner!storyVars
      <4>2. QED
        BY <4>1 DEF RunnerTypes
    <3>3. QED
      BY <3>1, <3>2
  <2>9. queue' \in [Runners -> Nat] /\ sent' \in [Runners -> Seq(Callbacks)]
        /\ ended' \in [Runners -> Results \cup {"no", "timed_out", "posted"}]
    <3>1. CASE Runner!Launch(r)
      BY <3>1 DEF Runner!Launch, RunnerTypes
    <3>2. CASE Runner!Work(r) \/ Runner!AgentEnds(r)
      BY <3>2 DEF Runner!Work, Runner!Begin, Runner!NewStory, Runner!ResumeStory, Runner!ContinueGates,
         Runner!Begins, Runner!Setup, Runner!AgentFails, Runner!Decide, Runner!Spool, Runner!SpoolTo,
         Runner!Release, Runner!AgentEnds, Runner!launchVars, RunnerTypes
    <3>3. CASE Runner!SeeExit(r) \/ Runner!Kill(r)
      BY <3>3 DEF Runner!SeeExit, Runner!Kill, RunnerTypes
    <3>4. CASE Runner!PostProgress(r)
      BY <3>4 DEF Runner!PostProgress, RunnerTypes, Callbacks
    <3>5. CASE Runner!PostResult(r)
      <4>1. Runner!Told(ended[r]) \in Callbacks
        BY <3>5 DEF Runner!PostResult, RunnerTypes, Runner!Told, Results, Callbacks
      <4>2. QED
        BY <3>5, <4>1 DEF Runner!PostResult, RunnerTypes
    <3>6. QED
      BY <1>3, <3>1, <3>2, <3>3, <3>4, <3>5 DEF Runner!Report
  <2>10. NamedIsHeld'
    BY <2>4 DEF RunnerTypes, NamedIsHeld
  <2>11. QED
    BY <1>3, <2>1, <2>2, <2>3, <2>4, <2>5, <2>6, <2>7, <2>8, <2>9, <2>10 DEF RunnerTypes
<1>4. QED
  BY <1>1, <1>2, <1>3 DEF Runner!Next

(* The terminal callback waits for the end and for the progress.           *)
LEMMA CallbacksStillEnd ==
  ASSUME RunnerConstants, RunnerTypes, CallbacksEnd, [Runner!Next]_Runner!vars
  PROVE  CallbacksEnd'
<1>1. CASE UNCHANGED Runner!vars
  BY <1>1 DEF Runner!vars, Runner!launchVars, CallbacksEnd, Gone
<1>2. ASSUME NEW r \in Runners,
             Runner!Launch(r) \/ Runner!Acquire(r) \/ Runner!Work(r) \/
             Runner!AgentEnds(r) \/ Runner!Report(r) \/ Runner!Kill(r)
      PROVE  CallbacksEnd'
  <2>1. CASE Runner!Launch(r)
    BY <2>1 DEF Runner!Launch, CallbacksEnd, Gone, RunnerTypes
  <2>2. CASE Runner!Acquire(r) \/ Runner!Work(r) \/ Runner!AgentEnds(r)
    <3>1. \A o \in Runners : Gone(o) => Gone(o)'
      <4>1. CASE Runner!Acquire(r)
        BY <4>1 DEF Runner!Acquire, Runner!MakeLock, Runner!WriteOwner, Runner!ReadOwner, Runner!List,
           Runner!Rename, Runner!ReRead, Runner!ReList, Runner!Restore, Runner!To, Runner!Refuse, Gone,
           RunnerTypes
      <4>2. CASE Runner!Work(r)
        BY <4>2 DEF Runner!Work, Runner!Begin, Runner!NewStory, Runner!ResumeStory, Runner!ContinueGates,
           Runner!Begins, Runner!Setup, Runner!AgentFails, Runner!Decide, Runner!Spool, Runner!SpoolTo,
           Runner!Release, Gone, RunnerTypes
      <4>3. CASE Runner!AgentEnds(r)
        BY <4>3 DEF Runner!AgentEnds, Gone, RunnerTypes
      <4>4. QED
        BY <2>2, <4>1, <4>2, <4>3
    <3>2. UNCHANGED Runner!launchVars
      BY <2>2 DEF Runner!Acquire, Runner!Work, Runner!Begin, Runner!NewStory, Runner!ResumeStory,
         Runner!ContinueGates, Runner!Begins, Runner!Setup, Runner!AgentFails, Runner!Decide, Runner!Spool,
         Runner!SpoolTo, Runner!Release, Runner!AgentEnds
    <3>3. QED
      BY <3>1, <3>2 DEF CallbacksEnd, Runner!launchVars
  <2>3. CASE Runner!SeeExit(r)
    <3>1. Gone(r) /\ ended[r] = "no" /\ out[r] # "posted" /\ ended' = [ended EXCEPT ![r] = out[r]] /\ UNCHANGED <<pc, queue, sent>>
      BY <2>3 DEF Runner!SeeExit, Gone, RunnerTypes, Results
    <3>2. QED
      BY <3>1 DEF CallbacksEnd, Gone, RunnerTypes
  <2>4. CASE Runner!PostProgress(r)
    <3>1. ended[r] # "posted" /\ queue' = [queue EXCEPT ![r] = @ - 1] /\ UNCHANGED <<pc, ended>>
      BY <2>4 DEF Runner!PostProgress, CallbacksEnd, RunnerTypes
    <3>2. sent'[r] = Append(sent[r], "progress") /\ \A o \in Runners \ {r} : sent'[o] = sent[o] /\ queue'[o] = queue[o]
      BY <2>4 DEF Runner!PostProgress, RunnerTypes
    <3>3. \A i \in 1..Len(sent'[r]) : sent'[r][i] = "progress"
      BY <3>1, <3>2 DEF CallbacksEnd, RunnerTypes
    <3>4. QED
      BY <3>1, <3>2, <3>3 DEF CallbacksEnd, Gone
  <2>5. CASE Runner!PostResult(r)
    <3>1. ended[r] \notin {"no", "posted"} /\ queue[r] = 0 /\ ended' = [ended EXCEPT ![r] = "posted"] /\ UNCHANGED <<pc, queue>>
      BY <2>5 DEF Runner!PostResult
    <3>2. sent'[r] = Append(sent[r], Runner!Told(ended[r])) /\ \A o \in Runners \ {r} : sent'[o] = sent[o]
      BY <2>5 DEF Runner!PostResult, RunnerTypes
    <3>3. Len(sent'[r]) = Len(sent[r]) + 1 /\ \A i \in 1..Len(sent[r]) : sent'[r][i] = "progress"
      BY <3>1, <3>2 DEF CallbacksEnd, RunnerTypes
    <3>4. \A i \in 1..Len(sent'[r]) : sent'[r][i] # "progress" => i = Len(sent'[r])
      BY <3>3 DEF RunnerTypes
    <3>5. Gone(r) /\ ended'[r] = "posted" /\ \A o \in Runners \ {r} : ended'[o] = ended[o]
      BY <3>1 DEF CallbacksEnd, RunnerTypes
    <3>6. QED
      BY <3>1, <3>2, <3>4, <3>5 DEF CallbacksEnd, Gone
  <2>6. CASE Runner!Kill(r)
    BY <2>6 DEF Runner!Kill, CallbacksEnd, Gone, Runner!Alive, RunnerTypes
  <2>7. QED
    BY <1>2, <2>1, <2>2, <2>3, <2>4, <2>5, <2>6 DEF Runner!Report
<1>3. QED
  BY <1>1, <1>2 DEF Runner!Next

(* So nothing follows it.                                                  *)
LEMMA CallbacksEndAtTerminal == ASSUME RunnerTypes, CallbacksEnd PROVE Runner!TerminalIsLast
BY DEF CallbacksEnd, Runner!TerminalIsLast

(* Of two runs of a story one overtook the other.                          *)
LEMMA OneOvertakes ==
  ASSUME RunnerTypes, RunsAreOrdered, NEW r \in Runners, NEW o \in Runners, r # o, story[r] # 0,
         story[o] = story[r]
  PROVE  r \in Overtaken \/ o \in Overtaken
<1>1. PICK i \in 1..Len(reached), j \in 1..Len(reached) : reached[i] = r /\ reached[j] = o
  BY DEF RunsAreOrdered, Started
<1>2. i < j \/ j < i
  BY <1>1 DEF RunnerTypes
<1>3. QED
  BY <1>1, <1>2 DEF Overtaken

(* What Last tells of a story is the result of its latest run.             *)
LEMMA LastIsLatest ==
  ASSUME RunnerConstants, RunnerTypes, RunsAreOrdered, NEW s \in Runners, Runner!Last(s) \in Unfinished
  PROVE  \E l \in Runners : /\ story[l] = s /\ out[l] = Runner!Last(s)
                            /\ \A o \in Runners \ {l} : story[o] = s => o \in Overtaken
<1>1. Runner!Runs(s) # {}
  BY DEF Runner!Last, Unfinished
<1> DEFINE m == CHOOSE i \in Runner!Runs(s) : \A j \in Runner!Runs(s) : j <= i
<1>2. m \in Runner!Runs(s) /\ \A j \in Runner!Runs(s) : j <= m
  BY <1>1 DEF RunsAreOrdered
<1>7. Runner!Last(s) = out[reached[m]]
  BY <1>1 DEF Runner!Last
<1> HIDE DEF m
<1>3. m \in 1..Len(reached) /\ reached[m] \in Runners /\ story[reached[m]] = s
  BY <1>2 DEF Runner!Runs, RunnerTypes
<1>5. ASSUME NEW o \in Runners \ {reached[m]}, story[o] = s
      PROVE  o \in Overtaken
  <2>1. PICK j \in 1..Len(reached) : reached[j] = o
    BY <1>5 DEF RunnerConstants, RunsAreOrdered, Started
  <2>2. j \in Runner!Runs(s) /\ j # m
    BY <1>5, <2>1 DEF Runner!Runs
  <2>3. j < m
    BY <1>2, <1>3, <2>2 DEF RunnerTypes
  <2>4. QED
    BY <1>3, <1>5, <2>1, <2>3 DEF Overtaken
<1>6. QED
  BY <1>3, <1>5, <1>7

(* Runs stay in order while none begins.                                   *)
LEMMA SameRuns ==
  ASSUME UNCHANGED <<story, reached>>
  PROVE  Overtaken' = Overtaken /\ Started' = Started /\ \A s \in Runners : Runner!Runs(s)' = Runner!Runs(s)
BY DEF Overtaken, Started, Runner!Runs

(* So does what is said of their order,                                    *)
LEMMA OrderStays ==
  ASSUME RunsAreOrdered, UNCHANGED <<story, reached>>, agents' \subseteq agents, Fresh' \subseteq Fresh,
         Busy' \subseteq Busy \cup agents
  PROVE  RunsAreOrdered'
<1>1. Started' = Started /\ \A s \in Runners : Runner!Runs(s)' = Runner!Runs(s)
  BY SameRuns
<1>2. (\A s \in Runners : Runner!Runs(s) # {} => \E i \in Runner!Runs(s) : \A j \in Runner!Runs(s) : j <= i)'
  BY DEF RunsAreOrdered, Runner!Runs
<1>3. QED
  BY <1>1, <1>2 DEF RunsAreOrdered

(* of the old ones,                                                        *)
LEMMA OldRunsStayOver ==
  ASSUME RunnerTypes, RunsAreOrdered, OldRunsAreOver, UNCHANGED <<story, reached, spool>>,
         agents' \subseteq agents, grabbed => grabbed',
         Past \subseteq Past', Spooled \subseteq Spooled',
         \A o \in Runners : out'[o] # out[o] /\ out'[o] \in Unfinished => o \in Past' \ agents',
         \A o \in Workers' \ Workers : story[o] = 0
  PROVE  OldRunsAreOver'
<1>1. Overtaken' = Overtaken
  BY SameRuns
<1>2. Overtaken \cap (Workers' \ Workers) = {}
  BY DEF Overtaken, RunsAreOrdered, Started
<1>3. (\A r \in Runners : out[r] \in Unfinished => r \in Past \ agents)'
  BY DEF OldRunsAreOver
<1>4. (Overtaken \subseteq Past \ agents /\ (~grabbed => Overtaken \cap Workers = {}))'
  BY <1>1, <1>2 DEF OldRunsAreOver
<1>5. (\A s \in Runners : spool[s] # 0 => story[spool[s]] = s /\ spool[s] \in Spooled)'
  BY DEF OldRunsAreOver
<1>6. QED
  BY <1>3, <1>4, <1>5 DEF OldRunsAreOver

(* and of their questions.                                                 *)
LEMMA QuestionsStayNew ==
  ASSUME QuestionsAreNew, Runner!AskedIsNew, UNCHANGED <<story, reached, questions, asked>>,
         agents' \subseteq agents,
         \A o \in Runners : asked[o] # 0 => out'[o] = out[o]
  PROVE  QuestionsAreNew' /\ Runner!AskedIsNew'
<1>1. Overtaken' = Overtaken
  BY SameRuns
<1>2. QED
  BY <1>1 DEF QuestionsAreNew, Runner!AskedIsNew

(* Steps that touch no story.                                              *)
LEMMA StoriesRest ==
  ASSUME NEW r \in Runners, RunnerTypes, StoriesAreKept, UNCHANGED <<Runner!storyVars, agents>>,
         grabbed => grabbed',
         pc' = pc \/ \E p \in Steps : pc' = [pc EXCEPT ![r] = p],
         pc' # pc => \/ r \in Fresh /\ r \in Fresh'
                     \/ r \in Fresh /\ pc'[r] = "release"
                     \/ pc'[r] = "dead"
                     \/ pc[r] = "release" /\ pc'[r] = "done",
         out' = out \/ (story[r] = 0 /\ out' = [out EXCEPT ![r] = "failed"])
  PROVE  StoriesAreKept'
<1>1. /\ Fresh' \subseteq Fresh /\ Busy' \subseteq Busy /\ Past \subseteq Past' /\ Spooled \subseteq Spooled'
      /\ Workers' \ Workers \subseteq Fresh
  <2>1. CASE pc' = pc
    BY <2>1 DEF Fresh, Busy, Past, Spooled, Workers
  <2>2. CASE pc' # pc
    <3>1. PICK p \in Steps : pc' = [pc EXCEPT ![r] = p]
      BY <2>2
    <3>2. pc'[r] = p
      BY <3>1 DEF RunnerTypes
    <3>3. CASE r \in Fresh /\ r \in Fresh'
      <4>1. r \notin Busy' /\ r \notin Past' /\ r \notin Spooled' /\ r \notin Busy /\ r \notin Past /\ r \notin Spooled
        BY <3>3 DEF Fresh, Busy, Past, Spooled
      <4>2. QED
        BY <3>1, <3>3, <4>1 DEF RunnerTypes, Fresh, Busy, Past, Spooled, Workers
    <3>4. CASE r \in Fresh /\ p = "release"
      <4>1. r \notin Past /\ r \notin Spooled
        BY <3>4 DEF Fresh, Past, Spooled
      <4>2. QED
        BY <3>1, <3>4, <4>1 DEF RunnerTypes, Fresh, Busy, Past, Spooled, Workers
    <3>5. CASE p = "dead"
      BY <3>1, <3>5 DEF RunnerTypes, Fresh, Busy, Past, Spooled, Workers
    <3>6. CASE pc[r] = "release" /\ p = "done"
      BY <3>1, <3>6 DEF RunnerTypes, Fresh, Busy, Past, Spooled, Workers
    <3>7. QED
      BY <2>2, <3>2, <3>3, <3>4, <3>5, <3>6
  <2>3. QED
    BY <2>1, <2>2
<1>2. \A o \in Runners : asked[o] # 0 => out'[o] = out[o]
  BY DEF StoriesAreKept, QuestionsAreNew, RunnerTypes
<1>3. \A o \in Runners : out'[o] # out[o] => out'[o] \notin Unfinished
  BY DEF RunnerTypes, Unfinished
<1>4. \A o \in Workers' \ Workers : story[o] = 0
  BY <1>1 DEF StoriesAreKept, RunsAreOrdered
<1>5. RunsAreOrdered'
  BY <1>1, OrderStays DEF StoriesAreKept, Runner!storyVars
<1>6. OldRunsAreOver'
  BY <1>1, <1>3, <1>4, OldRunsStayOver DEF StoriesAreKept, Runner!storyVars
<1>7. QED
  BY <1>2, <1>5, <1>6, QuestionsStayNew DEF StoriesAreKept, Runner!storyVars

(* An agent leaves questions of its own.                                   *)
LEMMA LeavingIsNew ==
  ASSUME NEW r \in Runners, RunnerTypes, StoriesAreKept, r \in agents, agents' = agents \ {r}, Runner!Leaves(r),
         UNCHANGED <<story, reached, asked>>, \A o \in Runners : asked[o] # 0 => out'[o] = out[o]
  PROVE  QuestionsAreNew' /\ Runner!AskedIsNew'
<1>1. CASE UNCHANGED questions
  BY <1>1, QuestionsStayNew DEF StoriesAreKept
<1>2. CASE \E v \in BOOLEAN : questions' = [questions EXCEPT ![story[r]] = [by |-> r, valid |-> v]]
  <2>1. story[r] \in Runners
    BY DEF RunnerTypes, StoriesAreKept, RunsAreOrdered
  <2>2. questions'[story[r]].by = r /\ \A s \in Runners \ {story[r]} : questions'[s] = questions[s]
    BY <1>2, <2>1 DEF RunnerTypes
  <2>3. Overtaken' = Overtaken
    BY SameRuns
  <2>4. (\A s \in Runners : questions[s].by # 0 => story[questions[s].by] = s /\ questions[s].by \notin agents)'
    BY <2>1, <2>2 DEF StoriesAreKept, QuestionsAreNew
  <2>5. (\A o \in Runners : asked[o] # 0 =>
            out[o] = "needs_decision" /\ story[o] # 0 /\ asked[o] \notin agents /\ story[asked[o]] # 0)'
    BY DEF StoriesAreKept, QuestionsAreNew
  <2>6. (\A o \in Overtaken : asked[o] # 0 => questions[story[o]].by # asked[o])'
    <3>1. SUFFICES ASSUME NEW o \in Overtaken, asked[o] # 0
                   PROVE  questions'[story[o]].by # asked[o]
      BY <2>3
    <3>2. o \in Runners /\ asked[o] # r /\ story[o] \in Runners
      BY <3>1 DEF Overtaken, StoriesAreKept, QuestionsAreNew, RunnerTypes
    <3>3. QED
      BY <2>2, <3>1, <3>2 DEF StoriesAreKept, QuestionsAreNew
  <2>7. Runner!AskedIsNew'
    BY DEF StoriesAreKept, Runner!AskedIsNew
  <2>8. QED
    BY <2>4, <2>5, <2>6, <2>7 DEF QuestionsAreNew
<1>3. QED
  BY <1>1, <1>2 DEF Runner!Leaves

(* An agent ends by itself,                                                *)
LEMMA AgentEndsKeepsStories ==
  ASSUME NEW r \in Runners, RunnerTypes, StoriesAreKept, Runner!AgentEnds(r)
  PROVE  StoriesAreKept'
<1>1. /\ Fresh' = Fresh /\ Busy' \subseteq Busy \cup agents /\ Past' = Past /\ Spooled' = Spooled /\ Workers' = Workers
  <2>1. CASE pc[r] = "agent"
    <3>1. pc' = [pc EXCEPT ![r] = "decide"]
      BY <2>1 DEF Runner!AgentEnds
    <3>2. r \in Workers /\ r \in Busy /\ r \notin Fresh /\ r \notin Past /\ r \notin Spooled
      BY <2>1 DEF Workers, Busy, Fresh, Past, Spooled
    <3>3. QED
      BY <3>1, <3>2 DEF RunnerTypes, Fresh, Busy, Past, Spooled, Workers
  <2>2. CASE pc[r] # "agent"
    BY <2>2 DEF Runner!AgentEnds, Fresh, Busy, Past, Spooled, Workers
  <2>3. QED
    BY <2>1, <2>2
<1>2. RunsAreOrdered'
  BY <1>1, OrderStays DEF Runner!AgentEnds, StoriesAreKept
<1>3. OldRunsAreOver'
  BY <1>1, OldRunsStayOver DEF Runner!AgentEnds, StoriesAreKept, Runner!lockVars
<1>4. QuestionsAreNew' /\ Runner!AskedIsNew'
  BY LeavingIsNew DEF Runner!AgentEnds
<1>5. QED
  BY <1>2, <1>3, <1>4 DEF StoriesAreKept

(* or is stopped.                                                          *)
LEMMA AgentFailsKeepsStories ==
  ASSUME NEW r \in Runners, RunnerTypes, StoriesAreKept, Runner!AgentFails(r)
  PROVE  StoriesAreKept'
<1>1. /\ pc[r] = "agent" /\ pc' = [pc EXCEPT ![r] = "spool"] /\ out' = [out EXCEPT ![r] = "needs_input"]
      /\ agents' = agents \ {r} /\ UNCHANGED <<story, reached, spool, asked, grabbed>>
  BY DEF Runner!AgentFails, Runner!lockVars
<1>2. r \in Workers /\ r \in Busy /\ r \notin Fresh /\ r \notin Past /\ r \notin Spooled
  BY <1>1 DEF Workers, Busy, Fresh, Past, Spooled
<1>3. Fresh' = Fresh /\ Busy' = Busy /\ Past' = Past \cup {r} /\ Spooled' = Spooled /\ Workers' = Workers
  BY <1>1, <1>2 DEF RunnerTypes, Fresh, Busy, Past, Spooled, Workers
<1>4. asked[r] = 0
  BY <1>2 DEF StoriesAreKept, QuestionsAreNew, OldRunsAreOver, Unfinished
<1>5. \A o \in Runners : asked[o] # 0 => out'[o] = out[o]
  BY <1>1, <1>4 DEF RunnerTypes
<1>6. RunsAreOrdered'
  BY <1>1, <1>3, OrderStays DEF StoriesAreKept
<1>7. \A o \in Runners : out'[o] # out[o] /\ out'[o] \in Unfinished => o \in Past' \ agents'
  BY <1>1, <1>3 DEF RunnerTypes
<1>8. OldRunsAreOver'
  BY <1>1, <1>3, <1>7, OldRunsStayOver DEF StoriesAreKept
<1>9. QuestionsAreNew' /\ Runner!AskedIsNew'
  BY <1>1, <1>5, LeavingIsNew DEF Runner!AgentFails
<1>10. QED
  BY <1>6, <1>8, <1>9 DEF StoriesAreKept

(* The result of the latest run is spooled.                                *)
LEMMA SpoolKeepsStories ==
  ASSUME NEW r \in Runners, RunnerTypes, StoriesAreKept, Runner!Spool(r)
  PROVE  StoriesAreKept'
<1>1. /\ pc[r] = "spool" /\ pc' = [pc EXCEPT ![r] = "release"]
      /\ (spool' = [spool EXCEPT ![story[r]] = r] \/ spool' = spool)
      /\ UNCHANGED <<story, reached, questions, asked, agents, out, grabbed>>
  BY DEF Runner!Spool, Runner!SpoolTo, Runner!lockVars
<1>2. r \in Workers /\ r \in Busy /\ r \notin Fresh /\ r \in Past /\ r \notin Spooled
  BY <1>1 DEF Workers, Busy, Fresh, Past, Spooled
<1>3. Fresh' = Fresh /\ Busy' \subseteq Busy /\ Past' = Past /\ Spooled' = Spooled \cup {r} /\ Workers' = Workers
  BY <1>1, <1>2 DEF RunnerTypes, Fresh, Busy, Past, Spooled, Workers
<1>4. RunsAreOrdered'
  BY <1>1, <1>3, OrderStays DEF StoriesAreKept
<1>5. Overtaken' = Overtaken
  BY <1>1, SameRuns
<1>6. (\A s \in Runners : spool[s] # 0 => story[spool[s]] = s /\ spool[s] \in Spooled)'
  <2>1. \A s \in Runners : spool'[s] = spool[s] \/ (spool'[s] = r /\ s = story[r])
    BY <1>1 DEF RunnerTypes
  <2>2. QED
    BY <1>1, <1>3, <2>1 DEF StoriesAreKept, OldRunsAreOver
<1>7. OldRunsAreOver'
  BY <1>1, <1>3, <1>5, <1>6 DEF StoriesAreKept, OldRunsAreOver
<1>8. QED
  BY <1>1, <1>4, <1>7, QuestionsStayNew DEF StoriesAreKept

(* A run asks what its worktree holds, which nobody has asked.             *)
LEMMA DecideKeepsStories ==
  ASSUME NEW r \in Runners, RunnerTypes, LockIsKept, StoriesAreKept, Runner!Decide(r)
  PROVE  StoriesAreKept'
<1> DEFINE q == questions[story[r]]
           a == IF q.valid THEN q.by ELSE 0
<1>1. /\ pc[r] = "decide" /\ asked' = [asked EXCEPT ![r] = a]
      /\ UNCHANGED <<story, reached, questions, spool, agents, grabbed>>
  BY DEF Runner!Decide, Runner!lockVars
<1>2. /\ r \in Workers /\ r \in Busy /\ r \notin Fresh /\ r \notin Past /\ r \notin Spooled /\ r \notin agents
  BY <1>1 DEF Workers, Busy, Fresh, Past, Spooled, LockIsKept, AgentsLive, Hosts
<1>3. PICK p \in {"spool", "release"}, o \in Results :
        /\ pc' = [pc EXCEPT ![r] = p]
        /\ out' = [out EXCEPT ![r] = o]
        /\ (a # 0 => o = "needs_decision")
        /\ (o \in Unfinished => p = "spool")
  <2>1. CASE q.by # 0
    <3>1. out' = [out EXCEPT ![r] = Runner!Verdict(q)] /\ pc' = [pc EXCEPT ![r] = "spool"]
      BY <2>1 DEF Runner!Decide
    <3>2. Runner!Verdict(q) \in Results /\ (a # 0 => Runner!Verdict(q) = "needs_decision")
      BY DEF Runner!Verdict, Results
    <3>3. QED
      BY <3>1, <3>2
  <2>2. CASE q.by = 0
    <3>1. a = 0
      BY <2>2
    <3>2. \/ pc' = [pc EXCEPT ![r] = "spool"] /\ \E o \in Runner!Shippable : out' = [out EXCEPT ![r] = o]
          \/ pc' = [pc EXCEPT ![r] = "release"] /\ out' = [out EXCEPT ![r] = "failed"]
      BY <2>2 DEF Runner!Decide
    <3>3. Runner!Shippable \subseteq Results /\ "failed" \in Results \ Unfinished
      BY DEF Runner!Shippable, Results, Unfinished
    <3>4. QED
      BY <3>1, <3>2, <3>3
  <2>3. QED
    BY <2>1, <2>2
<1>4. /\ Fresh' = Fresh /\ Busy' \subseteq Busy /\ Past' = Past \cup {r} /\ Spooled \subseteq Spooled' /\ Workers' = Workers
  <2>1. CASE p = "spool"
    BY <1>1, <1>3, <2>1 DEF RunnerTypes, Fresh, Busy, Past, Spooled, Workers
  <2>2. CASE p = "release"
    BY <1>1, <1>3, <2>2 DEF RunnerTypes, Fresh, Busy, Past, Spooled, Workers
  <2>3. QED
    BY <2>1, <2>2
<1>5. story[r] \in Runners /\ r \notin Overtaken
  BY <1>2 DEF RunnerTypes, StoriesAreKept, RunsAreOrdered, OldRunsAreOver
<1>6. RunsAreOrdered'
  BY <1>1, <1>4, OrderStays DEF StoriesAreKept
<1>7. \A w \in Runners : out'[w] # out[w] /\ out'[w] \in Unfinished => w \in Past' \ agents'
  BY <1>1, <1>2, <1>3, <1>4 DEF RunnerTypes
<1>8. OldRunsAreOver'
  BY <1>1, <1>4, <1>7, OldRunsStayOver DEF StoriesAreKept
<1>9. /\ asked'[r] = a /\ out'[r] = o
      /\ \A w \in Runners \ {r} : asked'[w] = asked[w] /\ out'[w] = out[w]
  BY <1>1, <1>3 DEF RunnerTypes
<1>10. a # 0 => a = questions[story[r]].by /\ a \notin agents /\ story[a] = story[r]
  BY <1>5 DEF StoriesAreKept, QuestionsAreNew
<1>11. Overtaken' = Overtaken
  BY <1>1, SameRuns
<1>12. QuestionsAreNew'
  <2>1. (\A s \in Runners : questions[s].by # 0 => story[questions[s].by] = s /\ questions[s].by \notin agents)'
    BY <1>1 DEF StoriesAreKept, QuestionsAreNew
  <2>2. (\A w \in Runners : asked[w] # 0 =>
            out[w] = "needs_decision" /\ story[w] # 0 /\ asked[w] \notin agents /\ story[asked[w]] # 0)'
    <3>1. SUFFICES ASSUME NEW w \in Runners, asked'[w] # 0
                   PROVE  out'[w] = "needs_decision" /\ story[w] # 0 /\ asked'[w] \notin agents /\ story[asked'[w]] # 0
      BY <1>1
    <3>2. CASE w = r
      <4>1. story[r] # 0
        BY <1>2 DEF StoriesAreKept, RunsAreOrdered
      <4>2. asked'[w] = a /\ out'[w] = "needs_decision"
        BY <1>3, <1>9, <3>1, <3>2
      <4>3. QED
        BY <1>10, <3>1, <3>2, <4>1, <4>2
    <3>3. CASE w # r
      BY <1>9, <3>1, <3>3 DEF StoriesAreKept, QuestionsAreNew
    <3>4. QED
      BY <3>2, <3>3
  <2>3. (\A w \in Overtaken : asked[w] # 0 => questions[story[w]].by # asked[w])'
    <3>1. Overtaken \subseteq Runners \ {r}
      BY <1>5 DEF Overtaken
    <3>2. QED
      BY <1>1, <1>9, <1>11, <3>1 DEF StoriesAreKept, QuestionsAreNew
  <2>4. QED
    BY <2>1, <2>2, <2>3 DEF QuestionsAreNew
<1>13. Runner!AskedIsNew'
  <2>1. SUFFICES ASSUME NEW w \in Runners, NEW v \in Runners, w # v, asked'[w] # 0, story[w] = story[v]
                 PROVE  asked'[w] # asked'[v]
    BY <1>1 DEF Runner!AskedIsNew
  <2>2. CASE w # r /\ v # r
    BY <1>9, <2>1, <2>2 DEF StoriesAreKept, Runner!AskedIsNew
  <2>3. ASSUME NEW x \in Runners \ {r}, story[x] = story[r], asked[x] # 0
        PROVE  questions[story[r]].by # asked[x]
    <3>1. story[r] # 0
      BY <1>2 DEF StoriesAreKept, RunsAreOrdered
    <3>2. x \in Overtaken
      BY <1>5, <2>3, <3>1, OneOvertakes DEF StoriesAreKept
    <3>3. QED
      BY <2>3, <3>2 DEF StoriesAreKept, QuestionsAreNew
  <2>4. CASE w = r
    BY <1>9, <1>10, <2>1, <2>3, <2>4
  <2>5. CASE v = r
    BY <1>9, <1>10, <2>1, <2>3, <2>5
  <2>6. QED
    BY <2>2, <2>4, <2>5
<1>14. QED
  BY <1>6, <1>8, <1>12, <1>13 DEF StoriesAreKept

(* A run that begins is the latest.                                        *)
LEMMA BeginningIsLatest ==
  ASSUME RunnerConstants, NEW r \in Runners, NEW s \in Runners, RunnerTypes, RunsAreOrdered, story[r] = 0,
         story' = [story EXCEPT ![r] = s], reached' = Append(reached, r), s = r \/ story[s] = s
  PROVE  /\ \A i, j \in 1..Len(reached') : reached'[i] = reached'[j] => i = j
         /\ Started' = {o \in Runners : story'[o] # 0}
         /\ \A t \in Runners : Runner!Runs(t)' # {} => \E i \in Runner!Runs(t)' : \A j \in Runner!Runs(t)' : j <= i
         /\ \A o \in Runners : story'[o] # 0 => story'[story'[o]] = story'[o]
         /\ Overtaken' \subseteq (Overtaken \cup {o \in Runners : story[o] = s}) \ {r}
<1> DEFINE n == Len(reached)
<1>1. n \in Nat /\ Len(reached') = n + 1 /\ reached'[n + 1] = r /\ \A i \in 1..n : reached'[i] = reached[i] /\ reached[i] \in Runners
  BY DEF RunnerTypes
<1>2. 0 \notin Runners
  BY DEF RunnerConstants
<1>3. \A i \in 1..n : reached[i] # r /\ story[reached[i]] # 0
  BY DEF RunsAreOrdered, Started
<1>4. story'[r] = s /\ \A o \in Runners \ {r} : story'[o] = story[o]
  BY DEF RunnerTypes
<1>5. 1..Len(reached') = (1..n) \cup {n + 1}
  BY <1>1
<1>6. \A i, j \in 1..Len(reached') : reached'[i] = reached'[j] => i = j
  <2>1. SUFFICES ASSUME NEW i \in 1..n \cup {n + 1}, NEW j \in 1..n \cup {n + 1}, reached'[i] = reached'[j]
                 PROVE  i = j
    BY <1>5
  <2>2. CASE i \in 1..n /\ j \in 1..n
    BY <1>1, <2>1, <2>2 DEF RunsAreOrdered
  <2>3. CASE i = n + 1 \/ j = n + 1
    BY <1>1, <1>3, <2>1, <2>3
  <2>4. QED
    BY <2>2, <2>3
<1>7. Started' = {o \in Runners : story'[o] # 0}
  <2>1. Started' = Started \cup {r}
    BY <1>1, <1>5 DEF Started
  <2>2. QED
    BY <1>2, <1>4, <2>1 DEF RunsAreOrdered
<1>8. ASSUME NEW t \in Runners, Runner!Runs(t)' # {}
      PROVE  \E i \in Runner!Runs(t)' : \A j \in Runner!Runs(t)' : j <= i
  <2>1. Runner!Runs(t)' = {i \in 1..Len(reached') : story'[reached'[i]] = t}
    BY DEF Runner!Runs
  <2>2. CASE t = s
    <3>1. n + 1 \in Runner!Runs(t)'
      BY <1>1, <1>4, <1>5, <2>1, <2>2
    <3>2. \A j \in Runner!Runs(t)' : j <= n + 1
      BY <1>1, <2>1
    <3>3. QED
      BY <3>1, <3>2
  <2>3. CASE t # s
    <3>1. Runner!Runs(t)' = Runner!Runs(t)
      <4>1. n + 1 \notin Runner!Runs(t)'
        BY <1>1, <1>4, <2>1, <2>3
      <4>2. \A i \in 1..n : i \in Runner!Runs(t)' <=> i \in Runner!Runs(t)
        BY <1>1, <1>3, <1>4, <1>5, <2>1 DEF Runner!Runs
      <4>3. QED
        BY <1>5, <2>1, <4>1, <4>2 DEF Runner!Runs
    <3>2. QED
      BY <1>8, <3>1 DEF RunsAreOrdered
  <2>4. QED
    BY <2>2, <2>3
<1>9. \A o \in Runners : story'[o] # 0 => story'[story'[o]] = story'[o]
  <2>1. \A o \in Runners : story[o] # 0 => story[o] \in Runners /\ story[o] # r
    BY <1>2 DEF RunnerTypes, RunsAreOrdered
  <2>2. story'[s] = s
    BY <1>4
  <2>3. QED
    BY <1>2, <1>4, <2>1, <2>2 DEF RunsAreOrdered
<1>10. ASSUME NEW o \in Overtaken'
       PROVE  o \in (Overtaken \cup {w \in Runners : story[w] = s}) \ {r}
  <2>1. o \in Runners /\ \E i, j \in 1..Len(reached') : i < j /\ reached'[i] = o /\ story'[reached'[j]] = story'[o]
    BY <1>10 DEF Overtaken
  <2>2. PICK i \in 1..Len(reached'), j \in 1..Len(reached') : i < j /\ reached'[i] = o /\ story'[reached'[j]] = story'[o]
    BY <2>1
  <2>3. i \in 1..n /\ o = reached[i] /\ o # r /\ story'[o] = story[o]
    BY <1>1, <1>3, <1>4, <2>2
  <2>4. CASE j = n + 1
    BY <1>1, <1>4, <2>1, <2>2, <2>3, <2>4
  <2>5. CASE j \in 1..n
    <3>1. story[reached[j]] = story[o] /\ i < j
      BY <1>1, <1>3, <1>4, <2>2, <2>3, <2>5
    <3>2. QED
      BY <2>1, <2>3, <2>5, <3>1 DEF Overtaken
  <2>6. QED
    BY <1>5, <2>2, <2>4, <2>5
<1>11. QED
  BY <1>6, <1>7, <1>8, <1>9, <1>10

(* It begins when the earlier runs of its story are over.                  *)
LEMMA BeginsKeepsStories ==
  ASSUME RunnerConstants, NEW r \in Runners, NEW s \in Runners, RunnerTypes, LockIsKept, StoriesAreKept,
         Runner!Begins(r, s),
         s = r \/ story[s] = s, \A o \in Runners : story[o] = s => o \in Past \ agents,
         questions' = questions \/ questions' = [questions EXCEPT ![s] = Runner!NoQuestions],
         \A o \in Runners : story[o] = s /\ asked[o] # 0 => questions'[s].by # asked[o]
  PROVE  StoriesAreKept'
<1>1. /\ pc[r] = "inside" /\ pc' = [pc EXCEPT ![r] = "agent"] /\ agents' = agents \cup {r}
      /\ story' = [story EXCEPT ![r] = s] /\ reached' = Append(reached, r) /\ UNCHANGED <<out, spool, asked, grabbed, lock>>
  BY DEF Runner!Begins, Runner!lockVars
<1>2. r \in Workers /\ r \in Fresh /\ r \notin Busy /\ r \notin Past /\ r \notin Spooled /\ story[r] = 0 /\ 0 \notin Runners
  BY <1>1 DEF Workers, Fresh, Busy, Past, Spooled, StoriesAreKept, RunsAreOrdered, RunnerConstants
<1>3. Fresh' = Fresh \ {r} /\ Busy' = Busy \cup {r} /\ Past' = Past /\ Spooled' = Spooled /\ Workers' = Workers
  BY <1>1, <1>2 DEF RunnerTypes, Fresh, Busy, Past, Spooled, Workers
<1>4. story'[r] = s /\ \A o \in Runners \ {r} : story'[o] = story[o]
  BY <1>1 DEF RunnerTypes
<1>5. /\ \A i, j \in 1..Len(reached') : reached'[i] = reached'[j] => i = j
      /\ Started' = {o \in Runners : story'[o] # 0}
      /\ \A t \in Runners : Runner!Runs(t)' # {} => \E i \in Runner!Runs(t)' : \A j \in Runner!Runs(t)' : j <= i
      /\ \A o \in Runners : story'[o] # 0 => story'[story'[o]] = story'[o]
      /\ Overtaken' \subseteq (Overtaken \cup {o \in Runners : story[o] = s}) \ {r}
  BY <1>1, <1>2, BeginningIsLatest DEF StoriesAreKept
<1>6. RunsAreOrdered'
  <2>1. \A o \in Fresh' : story'[o] = 0
    BY <1>3, <1>4 DEF StoriesAreKept, RunsAreOrdered, Fresh
  <2>2. \A o \in Busy' \cup agents' : story'[o] # 0
    BY <1>1, <1>2, <1>3, <1>4 DEF StoriesAreKept, RunsAreOrdered, Busy, RunnerTypes
  <2>3. QED
    BY <1>5, <2>1, <2>2 DEF RunsAreOrdered
<1>7. OldRunsAreOver'
  <2>1. (\A o \in Runners : out[o] \in Unfinished => o \in Past \ agents)'
    BY <1>1, <1>2, <1>3 DEF StoriesAreKept, OldRunsAreOver
  <2>2. Overtaken' \subseteq Past' \ agents'
    BY <1>1, <1>3, <1>5 DEF StoriesAreKept, OldRunsAreOver
  <2>3. ~grabbed => {o \in Runners : story[o] = s} \cap Workers = {}
    BY <1>2 DEF LockIsKept, WorkerOwns
  <2>4. (Overtaken \subseteq Past \ agents /\ (~grabbed => Overtaken \cap Workers = {}))'
    BY <1>1, <1>3, <1>5, <2>2, <2>3 DEF StoriesAreKept, OldRunsAreOver
  <2>5. (\A t \in Runners : spool[t] # 0 => story[spool[t]] = t /\ spool[t] \in Spooled)'
    <3>1. SUFFICES ASSUME NEW t \in Runners, spool[t] # 0
                   PROVE  story'[spool[t]] = t /\ spool[t] \in Spooled
      BY <1>1, <1>3
    <3>2. story[spool[t]] = t /\ spool[t] \in Spooled /\ spool[t] \in Runners
      BY <3>1 DEF StoriesAreKept, OldRunsAreOver, Spooled
    <3>3. QED
      BY <1>2, <1>4, <3>2
  <2>6. QED
    BY <2>1, <2>4, <2>5 DEF OldRunsAreOver
<1>8. asked[r] = 0 /\ \A o \in Runners : asked[o] # 0 => o # r /\ asked[o] # r /\ asked[o] \in Runners
  BY <1>2 DEF StoriesAreKept, QuestionsAreNew, RunnerTypes
<1>9. \A t \in Runners : questions'[t] = questions[t] \/ (t = s /\ questions'[t].by = 0)
  BY DEF RunnerTypes, Runner!NoQuestions
<1>10. QuestionsAreNew'
  <2>1. (\A t \in Runners : questions[t].by # 0 => story[questions[t].by] = t /\ questions[t].by \notin agents)'
    <3>1. SUFFICES ASSUME NEW t \in Runners, questions'[t].by # 0
                   PROVE  story'[questions'[t].by] = t /\ questions'[t].by \notin agents'
      OBVIOUS
    <3>2. questions'[t] = questions[t] /\ questions[t].by \in Runners
      BY <1>9, <3>1 DEF RunnerTypes
    <3>3. story[questions[t].by] = t /\ questions[t].by \notin agents
      BY <3>1, <3>2 DEF StoriesAreKept, QuestionsAreNew
    <3>4. QED
      BY <1>1, <1>2, <1>4, <3>2, <3>3
  <2>2. (\A o \in Runners : asked[o] # 0 =>
            out[o] = "needs_decision" /\ story[o] # 0 /\ asked[o] \notin agents /\ story[asked[o]] # 0)'
    BY <1>1, <1>4, <1>8 DEF StoriesAreKept, QuestionsAreNew
  <2>3. (\A o \in Overtaken : asked[o] # 0 => questions[story[o]].by # asked[o])'
    <3>1. SUFFICES ASSUME NEW o \in Overtaken', asked[o] # 0
                   PROVE  questions'[story'[o]].by # asked[o]
      BY <1>1
    <3>2. o \in Runners /\ o # r /\ (o \in Overtaken \/ story[o] = s) /\ story'[o] = story[o]
      BY <1>4, <1>5 DEF Overtaken
    <3>3. CASE story[o] = s
      BY <3>1, <3>2, <3>3
    <3>4. CASE story[o] # s
      <4>1. story[o] \in Runners /\ o \in Overtaken
        BY <3>1, <3>2, <3>4 DEF StoriesAreKept, QuestionsAreNew, RunnerTypes
      <4>2. QED
        BY <1>9, <3>1, <3>2, <3>4, <4>1 DEF StoriesAreKept, QuestionsAreNew
    <3>5. QED
      BY <3>3, <3>4
  <2>4. QED
    BY <2>1, <2>2, <2>3 DEF QuestionsAreNew
<1>11. Runner!AskedIsNew'
  BY <1>1, <1>4, <1>8 DEF StoriesAreKept, Runner!AskedIsNew
<1>12. QED
  BY <1>6, <1>7, <1>10, <1>11 DEF StoriesAreKept

(* A new story has no run yet; one that is resumed or continued waited for *)
(* it (resumeStory, continueGates).                                        *)
LEMMA BeginKeepsStories ==
  ASSUME RunnerConstants, NEW r \in Runners, RunnerTypes, LockIsKept, StoriesAreKept, Runner!Begin(r)
  PROVE  StoriesAreKept'
<1>1. 0 \notin Runners
  BY DEF RunnerConstants
<1>2. CASE Runner!NewStory(r)
  <2>1. story[r] = 0
    BY <1>2 DEF Runner!NewStory, Runner!Begins, Fresh, StoriesAreKept, RunsAreOrdered
  <2>2. \A o \in Runners : story[o] # r
    BY <1>1, <2>1 DEF StoriesAreKept, RunsAreOrdered
  <2>3. QED
    BY <1>2, <2>2, BeginsKeepsStories DEF Runner!NewStory
<1>3. ASSUME NEW s \in Runners, Runner!Last(s) \in Unfinished
      PROVE  /\ story[s] = s /\ \A o \in Runners : story[o] = s => o \in Past \ agents
             /\ Runner!Last(s) = "needs_input" => \A o \in Runners : story[o] = s /\ asked[o] # 0 => questions[s].by # asked[o]
  <2>1. PICK l \in Runners : story[l] = s /\ out[l] = Runner!Last(s) /\ \A o \in Runners \ {l} : story[o] = s => o \in Overtaken
    BY <1>3, LastIsLatest DEF StoriesAreKept
  <2>2. story[s] = s
    BY <1>1, <2>1 DEF StoriesAreKept, RunsAreOrdered
  <2>3. \A o \in Runners : story[o] = s => o \in Past \ agents
    BY <1>3, <2>1 DEF StoriesAreKept, OldRunsAreOver
  <2>4. ASSUME Runner!Last(s) = "needs_input", NEW o \in Runners, story[o] = s, asked[o] # 0
        PROVE  questions[s].by # asked[o]
    <3>1. o # l
      BY <2>1, <2>4 DEF StoriesAreKept, QuestionsAreNew
    <3>2. QED
      BY <2>1, <2>4, <3>1 DEF StoriesAreKept, QuestionsAreNew
  <2>5. QED
    BY <2>2, <2>3, <2>4
<1>4. CASE Runner!ResumeStory(r)
  <2>1. PICK s \in Runners :
          Runner!Last(s) = "needs_decision" /\ Runner!Begins(r, s) /\ questions' = [questions EXCEPT ![s] = Runner!NoQuestions]
    BY <1>4 DEF Runner!ResumeStory
  <2>2. questions'[s].by = 0
    BY <2>1 DEF RunnerTypes, Runner!NoQuestions
  <2>3. story[s] = s /\ \A o \in Runners : story[o] = s => o \in Past \ agents
    BY <1>3, <2>1 DEF Unfinished
  <2>4. QED
    BY <2>1, <2>2, <2>3, BeginsKeepsStories
<1>5. CASE Runner!ContinueGates(r)
  <2>1. PICK s \in Runners : Runner!Last(s) = "needs_input" /\ Runner!Begins(r, s) /\ questions' = questions
    BY <1>5 DEF Runner!ContinueGates
  <2>2. /\ story[s] = s /\ \A o \in Runners : story[o] = s => o \in Past \ agents
        /\ \A o \in Runners : story[o] = s /\ asked[o] # 0 => questions[s].by # asked[o]
    BY <1>3, <2>1 DEF Unfinished
  <2>3. \A o \in Runners : story[o] = s /\ asked[o] # 0 => questions'[s].by # asked[o]
    BY <2>1, <2>2
  <2>4. QED
    BY <2>1, <2>2, <2>3, BeginsKeepsStories
<1>6. QED
  BY <1>2, <1>4, <1>5 DEF Runner!Begin

(* Every step keeps what holds of the stories.                             *)
LEMMA StoriesStayKept ==
  ASSUME RunnerConstants, RunnerTypes, LockIsKept, StoriesAreKept, [Runner!Next]_Runner!vars
  PROVE  StoriesAreKept'
<1>1. CASE UNCHANGED Runner!vars
  <2>1. UNCHANGED <<Runner!storyVars, agents, grabbed, pc, out>>
    BY <1>1 DEF Runner!vars, Runner!lockVars
  <2>2. CASE Runners = {}
    <3>1. Started' = Started
      BY <2>1, SameRuns DEF Runner!storyVars
    <3>2. QED
      BY <2>1, <2>2, <3>1 DEF Runner!storyVars, StoriesAreKept, RunsAreOrdered, OldRunsAreOver,
         QuestionsAreNew, Runner!AskedIsNew, Overtaken, Fresh, Busy, RunnerTypes
  <2>3. CASE Runners # {}
    BY <2>1, <2>3, StoriesRest
  <2>4. QED
    BY <2>2, <2>3
<1>2. ASSUME NEW r \in Runners,
             Runner!Launch(r) \/ Runner!Acquire(r) \/ Runner!Work(r) \/
             Runner!AgentEnds(r) \/ Runner!Report(r) \/ Runner!Kill(r)
      PROVE  StoriesAreKept'
  <2>1. CASE Runner!Acquire(r)
    <3>1. /\ \E p \in Steps : pc' = [pc EXCEPT ![r] = p] /\ p \in {"own", "reown", "read", "list", "rename", "reread", "relist",
                                                                   "restore", "remake", "inside", "refused"}
          /\ r \in Fresh
      BY <2>1 DEF Runner!Acquire, Runner!MakeLock, Runner!WriteOwner, Runner!ReadOwner, Runner!List,
         Runner!Rename, Runner!ReRead, Runner!ReList, Runner!Restore, Runner!To, Runner!Refuse, Steps, Fresh
    <3>2. r \in Fresh'
      BY <3>1 DEF Fresh, RunnerTypes
    <3>3. story[r] = 0
      BY <3>1 DEF StoriesAreKept, RunsAreOrdered
    <3>4. out' = out \/ out' = [out EXCEPT ![r] = "failed"]
      BY <2>1 DEF Runner!Acquire, Runner!MakeLock, Runner!WriteOwner, Runner!ReadOwner, Runner!List,
         Runner!Rename, Runner!ReRead, Runner!ReList, Runner!Restore, Runner!To, Runner!Refuse
    <3>5. UNCHANGED <<Runner!storyVars, agents>> /\ (grabbed => grabbed')
      BY <2>1 DEF Runner!Acquire
    <3>6. QED
      BY <3>1, <3>2, <3>3, <3>4, <3>5, StoriesRest
  <2>2. CASE Runner!Launch(r)
    <3>1. pc[r] = "off" /\ pc' = [pc EXCEPT ![r] = "make"] /\ UNCHANGED <<Runner!storyVars, agents, grabbed, out>>
      BY <2>2 DEF Runner!Launch
    <3>2. r \in Fresh /\ r \in Fresh' /\ "make" \in Steps
      BY <3>1 DEF Fresh, RunnerTypes, Steps
    <3>3. QED
      BY <3>1, <3>2, StoriesRest
  <2>3. CASE Runner!Begin(r)
    BY <2>3, BeginKeepsStories
  <2>4. CASE Runner!Setup(r)
    <3>1. /\ pc[r] = "inside" /\ pc' = [pc EXCEPT ![r] = "release"] /\ out' = [out EXCEPT ![r] = "failed"]
          /\ UNCHANGED <<Runner!storyVars, agents, grabbed>>
      BY <2>4 DEF Runner!Setup, Runner!lockVars
    <3>2. r \in Fresh /\ pc'[r] = "release" /\ "release" \in Steps /\ story[r] = 0
      BY <3>1 DEF Fresh, RunnerTypes, Steps, StoriesAreKept, RunsAreOrdered
    <3>3. QED
      BY <3>1, <3>2, StoriesRest
  <2>5. CASE Runner!AgentFails(r)
    BY <2>5, AgentFailsKeepsStories
  <2>6. CASE Runner!Decide(r)
    BY <2>6, DecideKeepsStories
  <2>7. CASE Runner!Spool(r)
    BY <2>7, SpoolKeepsStories
  <2>8. CASE Runner!Release(r)
    <3>1. pc[r] = "release" /\ pc' = [pc EXCEPT ![r] = "done"] /\ UNCHANGED <<Runner!storyVars, agents, grabbed, out>>
      BY <2>8 DEF Runner!Release
    <3>2. pc'[r] = "done" /\ "done" \in Steps
      BY <3>1 DEF RunnerTypes, Steps
    <3>3. QED
      BY <3>1, <3>2, StoriesRest
  <2>9. CASE Runner!AgentEnds(r)
    BY <2>9, AgentEndsKeepsStories
  <2>10. CASE Runner!Report(r)
    <3>1. UNCHANGED <<Runner!storyVars, agents, grabbed, out, pc>>
      BY <2>10 DEF Runner!Report, Runner!SeeExit, Runner!PostProgress, Runner!PostResult, Runner!lockVars
    <3>2. QED
      BY <3>1, StoriesRest
  <2>11. CASE Runner!Kill(r)
    <3>1. pc' = [pc EXCEPT ![r] = "dead"] /\ UNCHANGED <<Runner!storyVars, agents, grabbed, out>>
      BY <2>11 DEF Runner!Kill, Runner!lockVars
    <3>2. pc'[r] = "dead" /\ "dead" \in Steps
      BY <3>1 DEF RunnerTypes, Steps
    <3>3. QED
      BY <3>1, <3>2, StoriesRest
  <2>12. QED
    BY <1>2, <2>1, <2>2, <2>3, <2>4, <2>5, <2>6, <2>7, <2>8, <2>9, <2>10, <2>11 DEF Runner!Work
<1>3. QED
  BY <1>1, <1>2 DEF Runner!Next

(* It holds at first.                                                      *)
LEMMA KeptAtFirst == ASSUME RunnerConstants, Runner!Init PROVE Kept
<1> USE DEF RunnerConstants, Runner!Init, Runner!Free
<1>1. RunnerTypes
  <2>1. Runner!Free \in Locks /\ Runner!NoQuestions \in [by : Runners \cup {0}, valid : BOOLEAN]
    BY DEF Locks, Runner!NoQuestions
  <2>2. /\ lock \in Locks /\ (lock.owner # 0 => lock.held) /\ place \in {"container", "host"}
        /\ quarantine \in [Runners -> Locks] /\ NamedIsHeld
    BY <2>1 DEF NamedIsHeld
  <2>3. /\ pc \in [Runners -> Steps] /\ agents \subseteq Runners /\ rivals \subseteq Runners
        /\ story \in [Runners -> Runners \cup {0}] /\ asked \in [Runners -> Runners \cup {0}]
    BY DEF Steps
  <2>4. questions \in [Runners -> [by : Runners \cup {0}, valid : BOOLEAN]]
    BY <2>1
  <2>5. out \in [Runners -> Results] /\ spool \in [Runners -> Runners \cup {0}] /\ reached \in Seq(Runners)
    BY DEF Results
  <2>6. sent \in [Runners -> Seq(Callbacks)]
    BY DEF Callbacks
  <2>7. /\ queue \in [Runners -> Nat] /\ ended \in [Runners -> Results \cup {"no", "timed_out", "posted"}]
        /\ kills \in Nat /\ assessed \in [Runners -> Runners \cup {0}] /\ grabbed \in BOOLEAN
    OBVIOUS
  <2>8. QED
    BY <2>2, <2>3, <2>4, <2>5, <2>6, <2>7 DEF RunnerTypes
<1>2. /\ Workers = {} /\ Ended = {} /\ Creators = {} /\ Readers = {} /\ Renamers = {} /\ Reclaimers = {} /\ Restorers = {}
      /\ Acquirers = {} /\ Lookers = {} /\ Clearers = {} /\ Rereaders = {} /\ Turned = {} /\ Busy = {}
  BY DEF Workers, Ended, Creators, Readers, Renamers, Reclaimers, Restorers, Acquirers, Acquiring, Lookers,
     Clearers, Rereaders, Turned, Busy
<1>3. LockIsKept
  BY <1>2 DEF LockIsKept, OwnersEntered, OneReclaims, DeadAssessed, AgentsLive, WorkerOwns, CreatorOwns,
     QuarantineIsStale
<1>4. RivalsMet
  BY <1>2 DEF RivalsMet
<1>5. Started = {} /\ Overtaken = {} /\ \A s \in Runners : Runner!Runs(s) = {}
  BY DEF Started, Overtaken, Runner!Runs
<1>6. RunsAreOrdered
  <2>1. reached = <<>> /\ (\A r \in Runners : story[r] = 0) /\ agents = {}
    OBVIOUS
  <2>2. \A i, j \in 1..Len(reached) : reached[i] = reached[j] => i = j
    BY <2>1
  <2>3. QED
    BY <1>2, <1>5, <2>1, <2>2 DEF RunsAreOrdered, Fresh
<1>7. OldRunsAreOver /\ QuestionsAreNew /\ Runner!AskedIsNew
  BY <1>5 DEF OldRunsAreOver, Unfinished, QuestionsAreNew, Runner!NoQuestions, Runner!AskedIsNew
<1>8. CallbacksEnd
  <2>1. \A r \in Runners : ended[r] = "no" /\ sent[r] = <<>>
    OBVIOUS
  <2>2. \A r \in Runners : \A i \in 1..Len(sent[r]) : FALSE
    BY <2>1
  <2>3. \A r \in Runners : ended[r] # "posted"
    BY <2>1
  <2>4. QED
    BY <2>1, <2>2, <2>3 DEF CallbacksEnd
<1>9. QED
  BY <1>1, <1>3, <1>4, <1>6, <1>7, <1>8 DEF Kept, StoriesAreKept

(* Every step keeps it.                                                    *)
LEMMA KeptIsKept == ASSUME RunnerConstants, Kept, [Runner!Next]_Runner!vars PROVE Kept'
<1>1. RunnerTypes' /\ LockIsKept'
  BY NextKeepsTypes, LockStaysKept DEF Kept, StoriesAreKept
<1>2. RivalsMet' /\ StoriesAreKept' /\ CallbacksEnd'
  BY RivalsStayMet, StoriesStayKept, CallbacksStillEnd DEF Kept
<1>3. QED
  BY <1>1, <1>2 DEF Kept

(* The invariant of the runners (openryoko-development-runner.mjs).        *)
LEMMA KeptHolds == ASSUME RunnerConstants PROVE Runner!Init /\ [][Runner!Next]_Runner!vars => []Kept
<1>1. Runner!Init => Kept
  BY KeptAtFirst
<1>2. Kept /\ [Runner!Next]_Runner!vars => Kept'
  BY KeptIsKept
<1>3. QED
  BY <1>1, <1>2, PTL

(* It says all that the run checks.                                        *)
LEMMA KeptIsEnough ==
  ASSUME Kept
  PROVE  Runner!TypeOK /\ Runner!OneRunner /\ Runner!RefusedHasRival /\ Runner!AskedIsNew /\ Runner!TerminalIsLast
<1>1. Runner!TypeOK
  BY DEF Kept, RunnerTypes, Locks, Results, Runner!TypeOK
<1>2. QED
  BY <1>1, OneIsAtWork, RefusedMetRivals, CallbacksEndAtTerminal DEF Kept, StoriesAreKept

(* Whoever spools was not overtaken, so it comes after the one before.     *)
LEMMA SpoolingGoesForward ==
  ASSUME Kept, [Runner!Next]_Runner!vars, ~grabbed, NEW s \in Runners, spool[s] # 0, spool'[s] # spool[s]
  PROVE  Runner!Position(spool[s]) < Runner!Position(spool'[s])
<1>1. PICK r \in Runners : Runner!Spool(r)
  <2>1. ~UNCHANGED Runner!vars
    BY DEF Runner!vars, Runner!storyVars
  <2>2. PICK r \in Runners : Runner!Launch(r) \/ Runner!Acquire(r) \/ Runner!Work(r) \/ Runner!AgentEnds(r) \/ Runner!Report(r) \/ Runner!Kill(r)
    BY <2>1 DEF Runner!Next
  <2>3. Runner!Spool(r)
    BY <2>2 DEF Runner!Launch, Runner!Acquire, Runner!Work, Runner!Begin, Runner!NewStory,
       Runner!ResumeStory, Runner!ContinueGates, Runner!Begins, Runner!Setup, Runner!AgentFails,
       Runner!Decide, Runner!Release, Runner!AgentEnds, Runner!Report, Runner!SeeExit, Runner!PostProgress,
       Runner!PostResult, Runner!Kill, Runner!storyVars
  <2>4. QED
    BY <2>3
<1>2. pc[r] = "spool" /\ r \in Workers /\ r \notin Spooled /\ spool'[s] = r /\ s = story[r]
  BY <1>1 DEF Runner!Spool, Runner!SpoolTo, Kept, RunnerTypes, Workers, Spooled
<1>3. /\ spool[s] \in Runners /\ spool[s] # r /\ story[spool[s]] = s /\ r \notin Overtaken
      /\ Started = {o \in Runners : story[o] # 0} /\ s # 0
  BY <1>2 DEF Kept, RunnerTypes, StoriesAreKept, RunsAreOrdered, OldRunsAreOver, Busy
<1>4. PICK i \in 1..Len(reached), j \in 1..Len(reached) : reached[i] = spool[s] /\ reached[j] = r
  BY <1>2, <1>3 DEF Started
<1>5. Runner!Position(spool[s]) = i /\ Runner!Position(r) = j
  BY <1>4 DEF Runner!Position, Kept, StoriesAreKept, RunsAreOrdered
<1>6. i < j
  <2>1. ~(j < i)
    BY <1>2, <1>3, <1>4 DEF Overtaken
  <2>2. i # j
    BY <1>3, <1>4
  <2>3. QED
    BY <2>1, <2>2 DEF Kept, RunnerTypes
<1>7. QED
  BY <1>2, <1>5, <1>6

(* One runner works at a time until a reclaimer takes away another lock    *)
(* than it assessed, and the spool goes forward.                           *)
LEMMA RunnerHolds ==
  ASSUME RunnerConstants
  PROVE  Runner!Init /\ [][Runner!Next]_Runner!vars =>
           [](Runner!TypeOK /\ Runner!OneRunner /\ Runner!RefusedHasRival /\ Runner!AskedIsNew /\ Runner!TerminalIsLast) /\ Runner!SpoolGoesForward
<1>1. Kept => Runner!TypeOK /\ Runner!OneRunner /\ Runner!RefusedHasRival /\ Runner!AskedIsNew /\ Runner!TerminalIsLast
  BY KeptIsEnough
<1>2. Kept /\ [Runner!Next]_Runner!vars =>
        [~grabbed => \A s \in Runners : spool[s] # 0 /\ spool'[s] # spool[s] =>
                                          Runner!Position(spool[s]) < Runner!Position(spool'[s])]_Runner!vars
  BY SpoolingGoesForward
<1>3. QED
  BY <1>1, <1>2, KeptHolds, PTL DEF Runner!SpoolGoesForward

LEMMA RunnerBehaves == Spec => Runner!Init /\ [][Runner!Next]_Runner!vars
<1>1. Init => Runner!Init
  BY DEF Init
<1>2. [Next]_suiteVars => [Runner!Next]_Runner!vars
  BY DEF Next, HookMoves, TerminalMoves, RunnerMoves, GenerationMoves, ProviderMoves, suiteVars,
         runnerVars, Runner!vars, Runner!lockVars, Runner!storyVars, Runner!launchVars
<1>3. QED
  BY <1>1, <1>2, PTL DEF Spec

(* What the run checks of the development runner, for any number of        *)
(* runners and kills: one works at a time until a lock is taken away that  *)
(* was not assessed, one that is refused the lock had a rival, a questions *)
(* document is asked once, and no callback follows the terminal one        *)
(* (openryoko-development-runner.mjs, cloudflare-development-runner.mjs).  *)
THEOREM OneRunnerHolds ==
  ASSUME RunnerConstants
  PROVE  Spec => []OneRunnerAtWork
BY RunnerHolds, RunnerBehaves, PTL DEF OneRunnerAtWork

(* The spool of a story never turns back to an earlier run                 *)
(* (writeResultSpool under the lock).                                      *)
THEOREM SpoolHolds ==
  ASSUME RunnerConstants
  PROVE  Spec => Runner!SpoolGoesForward
BY RunnerHolds, RunnerBehaves, PTL

-----------------------------------------------------------------------------
(* The improvement request.                                                *)

(* There is a first deployment.                                            *)
ImprovementConstants == 1 \in DOMAIN Employed /\ MaxSlips \in Nat

(* What every variable can hold.                                           *)
FormStates == {"none", "refused", "opening", "lost", "open", "closed"}
Progress == {"none", "scope_invalid", "forbidden", "errors", "resolve", "announce", "rethread", "send", "queued",
             "dropped"}
Works == [pc : Progress, form : Forms \cup {0}, asker : Askers \cup {0}, blanks : SUBSET Improvement!Required, chosen : Improvement!Effects,
          effect : Improvement!Effects, under : DOMAIN Employed \cup {0}, thread : Submissions \cup {Improvement!NoThread},
          named : Improvement!Required \cup {"none"}]
ImprovementTypes ==
  /\ deployed \in DOMAIN Employed /\ granted \in BOOLEAN /\ slips \in Nat /\ slips <= MaxSlips
  /\ form \in [Forms -> [state : FormStates, asker : Askers \cup {0}]]
  /\ submission \in [Submissions -> Works]

(* Submissions that were taken, and those that have a thread of their own. *)
Taken == {s \in Submissions : submission[s].pc \notin {"none", "scope_invalid", "forbidden", "errors"}}
Threaded == {s \in Submissions : submission[s].pc \in {"rethread", "send", "queued"}}

(* Whoever is taken opened the form, was allowed, and chose that range.    *)
TakenIsAllowed ==
  \A s \in Taken :
    /\ submission[s].form \in Forms
    /\ form[submission[s].form].state \in {"open", "closed"}
    /\ form[submission[s].form].asker = submission[s].asker
    /\ submission[s].asker \in Employed[submission[s].under]
    /\ submission[s].effect = submission[s].chosen

(* The thread of a submission is its announcement's.                       *)
ThreadIsAnnounced == \A s \in Threaded : submission[s].thread = s /\ Improvement!Announcement(s) \in announced

(* A job is what a submission that is over asked for in its thread.        *)
JobsAreOver ==
  \A j \in jobs : \E s \in Taken :
    /\ submission[s].pc \in {"queued", "dropped"} /\ j = Improvement!Job(s)
    /\ submission[s].thread = s /\ Improvement!Announcement(s) \in announced

Asked == ImprovementTypes /\ TakenIsAllowed /\ ThreadIsAnnounced /\ JobsAreOver /\ Improvement!BlamedIsBlank

(* Work goes on, the rest of it and the other submissions stay.            *)
LEMMA WorkGoesOn ==
  ASSUME submission \in [Submissions -> Works], NEW s \in Submissions, NEW p \in Progress,
         Improvement!Goes(s, p)
  PROVE  /\ submission' \in [Submissions -> Works] /\ submission'[s].pc = p
         /\ \A t \in Submissions :
              /\ t # s => submission'[t] = submission[t]
              /\ UNCHANGED <<submission[t].form, submission[t].asker, submission[t].effect, submission[t].chosen,
                             submission[t].under, submission[t].thread, submission[t].named, submission[t].blanks>>
BY DEF Improvement!Goes, Works

(* A step of the work behind the answer that announces and queues nothing. *)
LEMMA GoingOnKeepsAsked ==
  ASSUME Asked, NEW s \in Taken, NEW p \in Progress, Improvement!Goes(s, p),
         UNCHANGED <<deployed, form, announced, jobs>>,
         submission[s].pc \in {"resolve", "announce", "rethread", "send"},
         p \in {"announce", "dropped"} \/ (p = "send" /\ submission[s].pc = "rethread"),
         (granted \in BOOLEAN /\ slips \in Nat /\ slips <= MaxSlips)'
  PROVE  Asked'
<1> USE DEF Asked
<1>1. /\ ImprovementTypes' /\ submission'[s].pc = p
      /\ \A t \in Submissions :
           /\ t # s => submission'[t] = submission[t]
           /\ UNCHANGED <<submission[t].form, submission[t].asker, submission[t].effect, submission[t].chosen,
                          submission[t].under, submission[t].thread, submission[t].named, submission[t].blanks>>
  BY WorkGoesOn DEF ImprovementTypes, Taken
<1>2. Taken' = Taken
  BY <1>1 DEF Taken
<1>3. TakenIsAllowed'
  BY <1>1, <1>2 DEF TakenIsAllowed, Taken
<1>4. \A t \in Submissions : Improvement!Announcement(t)' = Improvement!Announcement(t) /\ Improvement!Job(t)' = Improvement!Job(t)
  BY <1>1 DEF Improvement!Announcement, Improvement!Job
<1>5. ThreadIsAnnounced'
  BY <1>1, <1>4 DEF ThreadIsAnnounced, Threaded
<1>6. JobsAreOver'
  BY <1>1, <1>2, <1>4 DEF JobsAreOver, Taken
<1>7. Improvement!BlamedIsBlank'
  BY <1>1 DEF Improvement!BlamedIsBlank, Improvement!At
<1>8. QED
  BY <1>1, <1>3, <1>5, <1>6, <1>7

(* The form: it is opened once, and keeps who asked.                       *)
LEMMA FormKeepsAsked ==
  ASSUME ImprovementConstants, Asked,
         \/ \E f \in Forms, a \in Askers : Improvement!Command(f, a)
         \/ \E f \in Forms : Improvement!Open(f)
         \/ Improvement!Deploy \/ Improvement!Withdraw
  PROVE  Asked'
<1> USE DEF Asked
<1>1. UNCHANGED <<submission, announced, jobs>>
  BY DEF Improvement!Command, Improvement!Open, Improvement!Deploy, Improvement!Withdraw
<1>2. ImprovementTypes'
  <2>1. form' \in [Forms -> [state : FormStates, asker : Askers \cup {0}]]
    <3>1. ASSUME NEW f \in Forms, NEW a \in Askers, Improvement!Command(f, a)
          PROVE  form' \in [Forms -> [state : FormStates, asker : Askers \cup {0}]]
      BY <3>1 DEF Improvement!Command, ImprovementTypes, FormStates
    <3>2. ASSUME NEW f \in Forms, Improvement!Open(f)
          PROVE  form' \in [Forms -> [state : FormStates, asker : Askers \cup {0}]]
      BY <3>2 DEF Improvement!Open, ImprovementTypes, FormStates
    <3>3. QED
      BY <3>1, <3>2 DEF Improvement!Deploy, Improvement!Withdraw, ImprovementTypes
  <2>2. deployed' \in DOMAIN Employed /\ granted' \in BOOLEAN
    BY DEF Improvement!Command, Improvement!Open, Improvement!Deploy, Improvement!Withdraw, ImprovementTypes
  <2>3. slips' \in Nat /\ slips' <= MaxSlips
    BY DEF Improvement!Command, Improvement!Open, Improvement!Deploy, Improvement!Withdraw, ImprovementTypes,
       Improvement!Slip, ImprovementConstants
  <2>4. QED
    BY <1>1, <2>1, <2>2, <2>3 DEF ImprovementTypes
<1>3. \A f \in Forms : form[f].state \in {"open", "closed"} => form'[f] = form[f]
  BY DEF Improvement!Command, Improvement!Open, Improvement!Deploy, Improvement!Withdraw, ImprovementTypes
<1>4. TakenIsAllowed'
  BY <1>1, <1>3 DEF TakenIsAllowed, Taken
<1>5. ThreadIsAnnounced' /\ JobsAreOver' /\ Improvement!BlamedIsBlank'
  BY <1>1 DEF ThreadIsAnnounced, Threaded, Improvement!Announcement, JobsAreOver, Improvement!Job, Taken,
     Improvement!BlamedIsBlank, Improvement!At
<1>6. QED
  BY <1>2, <1>4, <1>5

(* The submission.                                                         *)
LEMMA SubmitKeepsAsked ==
  ASSUME ImprovementConstants, Asked, NEW s \in Submissions, NEW f \in Forms, NEW a \in Askers,
         NEW blanks \in SUBSET Improvement!Required, NEW e \in Improvement!Effects, Improvement!Submit(s, f, a, blanks, e)
  PROVE  Asked'
<1> USE DEF Asked
<1> DEFINE said == Improvement!Answer(f, a, blanks)
<1>1. submission[s].pc = "none" /\ form[f].state = "open"
  BY DEF Improvement!Submit, Improvement!IsNext
<1>2. PICK w \in Works :
        /\ submission' = [submission EXCEPT ![s] = w]
        /\ w.pc = IF said = "taken" THEN "resolve" ELSE said
        /\ w.form = f /\ w.asker = a /\ w.effect = w.chosen /\ w.under = deployed /\ w.blanks = blanks
        /\ w.named = IF said = "errors" THEN Improvement!NamedField(blanks) ELSE "none"
  <2> DEFINE w == [Improvement!NoWork EXCEPT !.pc = IF said = "taken" THEN "resolve" ELSE said, !.form = f, !.asker = a,
                         !.blanks = blanks, !.chosen = e, !.effect = Improvement!Effect(e), !.under = deployed,
                         !.named = IF said = "errors" THEN Improvement!NamedField(blanks) ELSE "none"]
  <2>1. Improvement!Effect(e) = e
    BY DEF Improvement!Effect, Improvement!Effects
  <2>2. said \in {"scope_invalid", "forbidden", "errors", "taken"}
    BY DEF Improvement!Answer
  <2>3. w \in Works
    BY <2>1, <2>2 DEF Works, Improvement!NoWork, Progress, Improvement!NamedField, Improvement!Required,
       ImprovementTypes
  <2>4. QED
    BY <2>1, <2>3 DEF Improvement!Submit, Improvement!NoWork
<1>3. /\ form' \in [Forms -> [state : FormStates, asker : Askers \cup {0}]]
      /\ \A g \in Forms : /\ form'[g].asker = form[g].asker
                          /\ form[g].state \in {"open", "closed"} => form'[g].state \in {"open", "closed"}
  BY DEF Improvement!Submit, ImprovementTypes, FormStates
<1>4. ImprovementTypes'
  BY <1>2, <1>3 DEF ImprovementTypes, Improvement!Submit, Improvement!Slip, ImprovementConstants
<1>5. TakenIsAllowed'
  <2>1. said = "taken" => form[f].asker = a /\ a \in Employed[deployed]
    BY DEF Improvement!Answer, Improvement!May
  <2>2. s \in Taken' => said = "taken"
    BY <1>2 DEF Taken, ImprovementTypes, Improvement!Answer
  <2>3. \A t \in Taken' : t = s \/ (t \in Taken /\ submission'[t] = submission[t])
    BY <1>2 DEF Taken, ImprovementTypes
  <2>4. submission'[s].form = f /\ submission'[s].asker = a /\ submission'[s].under = deployed
        /\ submission'[s].effect = submission'[s].chosen
    BY <1>2 DEF ImprovementTypes
  <2>5. QED
    BY <1>1, <1>3, <2>1, <2>2, <2>3, <2>4 DEF TakenIsAllowed
<1>6. \A t \in Submissions : t # s => submission'[t] = submission[t]
  BY <1>2 DEF ImprovementTypes
<1>7. s \notin Taken /\ s \notin Threaded'
  BY <1>1, <1>2 DEF Taken, Threaded, ImprovementTypes, Improvement!Answer
<1>8. ThreadIsAnnounced' /\ JobsAreOver'
  <2>1. UNCHANGED <<announced, jobs>>
    BY DEF Improvement!Submit
  <2>2. \A t \in Submissions : t # s => Improvement!Announcement(t)' = Improvement!Announcement(t) /\ Improvement!Job(t)' = Improvement!Job(t)
    BY <1>6 DEF Improvement!Announcement, Improvement!Job
  <2>3. ThreadIsAnnounced'
    BY <1>6, <1>7, <2>1, <2>2 DEF ThreadIsAnnounced, Threaded
  <2>4. \A t \in Taken : t # s /\ t \in Taken'
    BY <1>6, <1>7 DEF Taken
  <2>5. JobsAreOver'
    BY <1>6, <2>1, <2>2, <2>4 DEF JobsAreOver, Taken
  <2>6. QED
    BY <2>3, <2>5
<1>9. Improvement!BlamedIsBlank'
  <2>1. said = "errors" => Improvement!NamedField(blanks) \in blanks
    BY DEF Improvement!Answer, Improvement!NamedField, Improvement!Required
  <2>2. submission'[s].pc = "errors" => said = "errors"
    BY <1>2 DEF ImprovementTypes, Improvement!Answer
  <2>3. QED
    BY <1>2, <1>6, <2>1, <2>2 DEF Improvement!BlamedIsBlank, Improvement!At, ImprovementTypes
<1>10. QED
  BY <1>4, <1>5, <1>8, <1>9

(* The announcement, which makes the thread.                               *)
LEMMA AnnounceKeepsAsked ==
  ASSUME ImprovementConstants, Asked, NEW s \in Submissions, Improvement!Announce(s)
  PROVE  Asked'
<1> USE DEF Asked
<1>1. s \in Taken /\ s \notin Threaded /\ submission[s].pc = "announce"
  BY DEF Improvement!Announce, Improvement!At, Taken, Threaded
<1>2. /\ ImprovementTypes'
      /\ \/ submission'[s].pc = "rethread" /\ submission'[s].thread = s
         \/ submission'[s].pc = "dropped"
      /\ \A t \in Submissions :
           /\ t # s => submission'[t] = submission[t]
           /\ UNCHANGED <<submission[t].form, submission[t].asker, submission[t].effect, submission[t].chosen,
                          submission[t].under, submission[t].named, submission[t].blanks>>
  BY DEF Improvement!Announce, Improvement!Goes, ImprovementTypes, Works, Progress, Improvement!Slip,
     ImprovementConstants
<1>3. Taken' = Taken /\ announced \subseteq announced' /\ UNCHANGED <<form, jobs>>
  BY <1>1, <1>2 DEF Taken, Improvement!Announce
<1>4. TakenIsAllowed'
  BY <1>2, <1>3 DEF TakenIsAllowed, Taken
<1>5. \A t \in Submissions : Improvement!Announcement(t)' = Improvement!Announcement(t) /\ (t # s => Improvement!Job(t)' = Improvement!Job(t))
  BY <1>2 DEF Improvement!Announcement, Improvement!Job
<1>6. ThreadIsAnnounced'
  BY <1>2, <1>3, <1>5 DEF ThreadIsAnnounced, Threaded, Improvement!Announce
<1>7. JobsAreOver'
  BY <1>1, <1>2, <1>3, <1>5 DEF JobsAreOver, Taken
<1>8. Improvement!BlamedIsBlank'
  BY <1>2 DEF Improvement!BlamedIsBlank, Improvement!At
<1>9. QED
  BY <1>2, <1>4, <1>6, <1>7, <1>8

(* The job.                                                                *)
LEMMA EnqueueKeepsAsked ==
  ASSUME ImprovementConstants, Asked, NEW s \in Submissions, Improvement!Enqueue(s)
  PROVE  Asked'
<1> USE DEF Asked
<1>1. s \in Taken /\ s \in Threaded
  BY DEF Improvement!Enqueue, Improvement!At, Taken, Threaded
<1>2. PICK p \in {"queued", "dropped"} : Improvement!Goes(s, p)
  BY DEF Improvement!Enqueue
<1>3. /\ ImprovementTypes' /\ submission'[s].pc = p
      /\ \A t \in Submissions :
           /\ t # s => submission'[t] = submission[t]
           /\ UNCHANGED <<submission[t].form, submission[t].asker, submission[t].effect, submission[t].chosen,
                          submission[t].under, submission[t].thread, submission[t].named, submission[t].blanks>>
  BY <1>2, WorkGoesOn DEF Improvement!Enqueue, ImprovementTypes, Progress, Improvement!Slip,
     ImprovementConstants
<1>4. Taken' = Taken /\ UNCHANGED <<form, announced>>
  BY <1>1, <1>3 DEF Taken, Improvement!Enqueue
<1>5. TakenIsAllowed'
  BY <1>3, <1>4 DEF TakenIsAllowed, Taken
<1>6. \A t \in Submissions : Improvement!Announcement(t)' = Improvement!Announcement(t) /\ Improvement!Job(t)' = Improvement!Job(t)
  BY <1>3 DEF Improvement!Announcement, Improvement!Job
<1>7. ThreadIsAnnounced'
  BY <1>1, <1>3, <1>4, <1>6 DEF ThreadIsAnnounced, Threaded
<1>8. JobsAreOver'
  <2>1. submission'[s].pc \in {"queued", "dropped"} /\ submission'[s].thread = s /\ Improvement!Announcement(s)' \in announced'
    BY <1>1, <1>3, <1>4, <1>6 DEF ThreadIsAnnounced
  <2>2. jobs' = jobs \cup {Improvement!Job(s)'}
    BY <1>6 DEF Improvement!Enqueue
  <2>3. QED
    BY <1>1, <1>3, <1>4, <1>6, <2>1, <2>2 DEF JobsAreOver, Taken
<1>9. Improvement!BlamedIsBlank'
  BY <1>3 DEF Improvement!BlamedIsBlank, Improvement!At
<1>10. QED
  BY <1>3, <1>5, <1>7, <1>8, <1>9

(* It holds at first, and every step keeps it.                             *)
LEMMA AskedAtFirst == ASSUME ImprovementConstants, Improvement!Init PROVE Asked
<1> USE DEF Improvement!Init
<1>1. ImprovementTypes
  BY DEF ImprovementTypes, ImprovementConstants, Improvement!NoForm, FormStates, Improvement!NoWork, Works,
     Progress, Improvement!Effects
<1>2. Taken = {} /\ Threaded = {} /\ Improvement!BlamedIsBlank
  BY DEF Taken, Threaded, Improvement!NoWork, Improvement!BlamedIsBlank, Improvement!At
<1>3. QED
  BY <1>1, <1>2 DEF Asked, TakenIsAllowed, ThreadIsAnnounced, JobsAreOver

LEMMA AskedIsKept == ASSUME ImprovementConstants, Asked, [Improvement!Next]_Improvement!improvementVars PROVE Asked'
<1>1. CASE UNCHANGED Improvement!improvementVars
  BY <1>1 DEF Improvement!improvementVars, Asked, ImprovementTypes, TakenIsAllowed, Taken, ThreadIsAnnounced,
     Threaded, Improvement!Announcement, JobsAreOver, Improvement!Job, Improvement!BlamedIsBlank,
     Improvement!At
<1>2. ASSUME NEW s \in Submissions, Improvement!Resolve(s) \/ Improvement!Drop(s) PROVE Asked'
  <2>1. s \in Taken /\ submission[s].pc \in {"resolve", "announce", "rethread", "send"}
    BY <1>2 DEF Improvement!Resolve, Improvement!Drop, Improvement!At, Taken
  <2>2. PICK p \in {"announce", "send", "dropped"} : Improvement!Goes(s, p) /\ (p = "send" => submission[s].pc = "rethread")
    BY <1>2 DEF Improvement!Resolve, Improvement!Drop, Improvement!At
  <2>3. UNCHANGED <<deployed, form, announced, jobs>> /\ (granted \in BOOLEAN /\ slips \in Nat /\ slips <= MaxSlips)'
    BY <1>2 DEF Improvement!Resolve, Improvement!Drop, Improvement!Slip, Asked, ImprovementTypes,
       ImprovementConstants
  <2>4. QED
    BY <2>1, <2>2, <2>3, GoingOnKeepsAsked DEF Progress
<1>3. QED
  BY <1>1, <1>2, FormKeepsAsked, SubmitKeepsAsked, AnnounceKeepsAsked,
     EnqueueKeepsAsked DEF Improvement!Next, Improvement!Ask, Improvement!Fill

(* It says all that the run checks.                                        *)
LEMMA AskedIsEnough ==
  ASSUME Asked
  PROVE  Improvement!TypeOK /\ Improvement!QueuedIsAnnounced /\ Improvement!QueuedIsAllowed /\ Improvement!BlamedIsBlank
<1> USE DEF Asked
<1>1. Improvement!TypeOK
  BY DEF ImprovementTypes, Improvement!TypeOK, Works, Progress, FormStates, Improvement!Ranges,
     Improvement!Effects
<1>2. ASSUME NEW j \in jobs
      PROVE  /\ [thread |-> j.thread, asker |-> j.asker, effect |-> j.effect] \in announced
             /\ LET s == submission[j.event] IN
                  j.asker = form[s.form].asker /\ j.asker \in Employed[s.under] /\ j.effect = s.chosen
  <2>1. PICK s \in Taken : j = Improvement!Job(s) /\ submission[s].thread = s /\ Improvement!Announcement(s) \in announced
    BY DEF JobsAreOver
  <2>2. j.event = s /\ j.thread = s /\ j.asker = submission[s].asker /\ j.effect = submission[s].effect
    BY <2>1 DEF Improvement!Job
  <2>3. QED
    BY <2>1, <2>2 DEF Improvement!Announcement, TakenIsAllowed
<1>3. QED
  BY <1>1, <1>2 DEF Improvement!QueuedIsAnnounced, Improvement!QueuedIsAllowed

LEMMA ImprovementHolds ==
  ASSUME ImprovementConstants
  PROVE  Improvement!Init /\ [][Improvement!Next]_Improvement!improvementVars =>
           [](/\ Improvement!TypeOK /\ Improvement!QueuedIsAnnounced
              /\ Improvement!QueuedIsAllowed /\ Improvement!BlamedIsBlank)
<1>1. Improvement!Init => Asked
  BY AskedAtFirst
<1>2. Asked /\ [Improvement!Next]_Improvement!improvementVars => Asked'
  BY AskedIsKept
<1>3. Asked => Improvement!TypeOK /\ Improvement!QueuedIsAnnounced /\ Improvement!QueuedIsAllowed /\ Improvement!BlamedIsBlank
  BY AskedIsEnough
<1>4. QED
  BY <1>1, <1>2, <1>3, PTL

-----------------------------------------------------------------------------
(* The development job, from its launch to its end.                        *)

(* Launches and faults are counted.                                        *)
TerminalConstants == MaxLaunches \in Nat /\ MaxFaults \in Nat

(* What every variable can hold.                                           *)
Launches == [pc : {"queued", "arm", "create", "clean", "note", "cancel", "release", "accepted", "refused"},
             n : Terminal!Launch \cup {0}]
Rings == [pc : {"idle", "deliver", "await", "persist", "destroy", "note", "own", "finish", "settle"},
          now : Terminal!Time, held : Terminal!Record, failing : BOOLEAN]
Proxies == {"off", "claim", "free", "submit", "forward", "done", "refused", "conflict", "lost"}
TerminalTypes ==
  /\ clock \in Terminal!Time /\ owner \in {"none", "claimed"} \cup Terminal!Settled /\ record \in Terminal!Record
  /\ alarm \in Terminal!Time \cup {Terminal!Never} /\ box \in [Terminal!Launch -> {"none", "running", "destroyed"}]
  /\ launch \in Launches /\ runner \in [Terminal!Launch -> {"off", "progress", "result"}]
  /\ proxy \in [Terminal!Callback -> Proxies] /\ ring \in Rings /\ faults \in Nat /\ faults <= MaxFaults
  /\ taken \in Terminal!Terminal \cup {Terminal!Nothing} /\ accounted \in {"open", "told", "unknown"} /\ completed \in BOOLEAN

(* A record that is there holds a payload, and only a failed one is        *)
(* finalized.                                                              *)
RecordIsSound ==
  /\ record.state = "absent" => record = Terminal!NoRecord
  /\ record.state # "absent" => record.payload \in Terminal!Payload
  /\ record.finalized => record.state = "failed_terminal"

(* While the alarm handler works nobody else moves the record: it is the   *)
(* one the handler holds, but for a receipt that came meanwhile.           *)
RingHoldsRecord ==
  ring.pc # "idle" =>
    /\ record.state = IF ring.failing THEN "failed_terminal" ELSE "pending"
    /\ ring.held.payload = record.payload /\ ring.held.box = record.box
    /\ ring.held.destroyed => record.destroyed

(* What the handler has reached by the step it is at: its callback         *)
(* completed or the job given up, the container destroyed, the owner       *)
(* settled.                                                                *)
RingIsAt ==
  /\ ring.pc \in {"deliver", "await", "settle"} => ~ring.failing
  /\ ring.pc = "persist" => ring.failing
  /\ ring.pc = "await" => taken = record.payload
  /\ ring.pc \in {"destroy", "note", "own", "finish"} =>
       IF ring.failing THEN accounted = "unknown" ELSE completed /\ taken = record.payload
  /\ ring.pc \in {"own", "finish"} => record.destroyed
  /\ ring.pc = "finish" => owner = Terminal!Outcome

(* What a settled owner claim says of the record and of the callback.      *)
OwnerIsSettled ==
  /\ owner \in Terminal!Settled => record.destroyed /\ record.state \notin {"absent", "awaiting_terminal"}
  /\ owner = "succeeded" => completed /\ taken = record.payload
  /\ owner = "failed_terminal" => accounted = "unknown" /\ record.state = "failed_terminal"

(* A callback is completed after it was accounted for as told.             *)
CompletedIsTold == completed => accounted = "told"

(* Until the first container is started nothing calls.                     *)
Unstarted == launch.n = 0 \/ (launch.n = 1 /\ launch.pc \in {"arm", "create"})

(* The containers of the first launch: none runs before it creates one,    *)
(* and none after its receipt.                                             *)
FirstLaunch ==
  /\ launch.n = 0 => owner = "none" /\ record.state = "absent" /\ launch.pc \in {"queued", "refused"}
  /\ launch.pc \in {"arm", "create"} => clock = 0
  /\ Unstarted => /\ \A c \in Terminal!Callback : proxy[c] = "off"
                  /\ \A n \in Terminal!Launch : runner[n] = "off" /\ box[n] = "none"
                  /\ ring.pc = "idle" /\ record.state \in {"absent", "awaiting_terminal"} /\ ~record.destroyed
  /\ \A n \in Terminal!Launch : n > launch.n => box[n] = "none"
  /\ record.box <= launch.n
  /\ launch.n = 1 /\ (record.destroyed \/ launch.pc = "note" \/ ring.pc = "note") => box[1] # "running"

(* The inductive invariant of a job.                                       *)
Ends ==
  /\ RecordIsSound /\ RingHoldsRecord /\ RingIsAt /\ CompletedIsTold
  /\ OwnerIsSettled /\ Terminal!EndedIsSettled /\ FirstLaunch
Ending == TerminalTypes /\ Ends

(* What is sent.                                                           *)
LEMMA Payloads ==
  /\ Terminal!Timeout \in Terminal!Payload /\ Terminal!Terminal \subseteq Terminal!Payload
  /\ Terminal!Callback \subseteq Terminal!Payload /\ Terminal!Nothing \notin Terminal!Payload
BY DEF Terminal!Timeout, Terminal!Payload, Terminal!Terminal, Terminal!Callback, Terminal!Nothing

(* What a record becomes.                                                  *)
LEMMA NoRecordIsRecord == Terminal!NoRecord \in Terminal!Record
BY DEF Terminal!Record, Terminal!NoRecord

LEMMA RecordTurns ==
  ASSUME NEW r \in Terminal!Record, NEW s \in {"pending", "completed", "failed_terminal"}
  PROVE  /\ [r EXCEPT !.state = s] \in Terminal!Record
         /\ [r EXCEPT !.destroyed = TRUE] \in Terminal!Record /\ [r EXCEPT !.finalized = TRUE] \in Terminal!Record
BY DEF Terminal!Record

LEMMA RecordBegins ==
  ASSUME NEW p \in Terminal!Payload, NEW n \in Terminal!Launch \cup {0},
         NEW s \in {"awaiting_terminal", "pending"}
  PROVE  [Terminal!NoRecord EXCEPT !.state = s, !.payload = p, !.box = n] \in Terminal!Record
BY DEF Terminal!Record, Terminal!NoRecord

(* What the alarm handler becomes.                                         *)
LEMMA RingBegins ==
  ASSUME NEW h \in Terminal!Record, NEW s \in {"persist", "deliver"}, clock \in Terminal!Time
  PROVE  Terminal!NoRing \in Rings /\ Terminal!Woken(s, h) \in Rings
<1>1. Terminal!NoRing \in Rings
  BY NoRecordIsRecord DEF Terminal!NoRing, Rings, Terminal!Time
<1>2. Terminal!Woken(s, h) \in Rings
  BY DEF Terminal!Woken, Rings
<1>3. QED
  BY <1>1, <1>2

LEMMA RingTurns ==
  ASSUME ring \in Rings, NEW s \in {"deliver", "await", "persist", "destroy", "note", "own", "finish", "settle"}
  PROVE  /\ Terminal!RingGoto(s) => ring' \in Rings
         /\ ring.held \in Terminal!Record /\ ring.now \in Terminal!Time
BY DEF Rings, Terminal!RingGoto

(* What a launch becomes.                                                  *)
LEMMA LaunchTurns ==
  ASSUME launch \in Launches, NEW s \in {"queued", "create", "clean", "note", "cancel", "release", "accepted", "refused"}
  PROVE  Terminal!LaunchGoto(s) => launch' \in Launches
BY DEF Launches, Terminal!LaunchGoto

(* Types, step by step: the launch,                                        *)
LEMMA LaunchKeepsTypes ==
  ASSUME TerminalConstants, TerminalTypes,
         Terminal!LaunchStep \/ Terminal!LaunchDies
  PROVE  TerminalTypes'
<1> USE DEF TerminalTypes
<1>1. CASE Terminal!Register
  <2>1. launch' \in Launches
    BY <1>1 DEF Terminal!Register, Terminal!LaunchGoto, Launches, Terminal!Launch, TerminalConstants
  <2>2. QED
    BY <1>1, <2>1 DEF Terminal!Register, Terminal!downstream, Terminal!Settled
<1>2. CASE Terminal!Arm
  <2>1. launch' \in Launches
    BY <1>2, LaunchTurns DEF Terminal!Arm
  <2>2. record' \in Terminal!Record
    <3>1. Terminal!Armed(launch.n) \in Terminal!Record
      BY RecordBegins, Payloads DEF Terminal!Armed, Launches
    <3>2. QED
      BY <1>2, <3>1 DEF Terminal!Arm
  <2>3. alarm' \in Terminal!Time \cup {Terminal!Never} /\ faults' \in Nat /\ faults' <= MaxFaults
    BY <1>2 DEF Terminal!Arm, Terminal!Fault, Terminal!Fine, Terminal!Time, Terminal!Never, TerminalConstants
  <2>4. QED
    BY <1>2, <2>1, <2>2, <2>3 DEF Terminal!Arm, Terminal!downstream
<1>3. CASE Terminal!Create
  <2>1. launch' \in Launches
    BY <1>3, LaunchTurns DEF Terminal!Create
  <2>2. QED
    BY <1>3, <2>1 DEF Terminal!Create, Terminal!Start, Terminal!Fault, Terminal!Fine, Terminal!downstream,
       TerminalConstants
<1>4. CASE Terminal!Clean
  <2>1. launch' \in Launches
    BY <1>4, LaunchTurns DEF Terminal!Clean
  <2>2. QED
    BY <1>4, <2>1 DEF Terminal!Clean, Terminal!Destroy, Terminal!Fault, Terminal!Fine, Terminal!downstream,
       TerminalConstants
<1>5. CASE Terminal!Note
  <2>1. launch' \in Launches
    BY <1>5, LaunchTurns DEF Terminal!Note
  <2>2. record' \in Terminal!Record
    BY <1>5, RecordTurns DEF Terminal!Note, Terminal!MarkDestroyed
  <2>3. QED
    BY <1>5, <2>1, <2>2 DEF Terminal!Note, Terminal!Fault, Terminal!Fine, Terminal!downstream,
       TerminalConstants
<1>6. CASE Terminal!Cancel
  <2>1. launch' \in Launches
    BY <1>6, LaunchTurns DEF Terminal!Cancel
  <2>2. record' \in Terminal!Record
    BY <1>6, NoRecordIsRecord DEF Terminal!Cancel
  <2>3. QED
    BY <1>6, <2>1, <2>2 DEF Terminal!Cancel, Terminal!Fault, Terminal!Fine, Terminal!downstream,
       TerminalConstants
<1>7. CASE Terminal!Release
  <2>1. launch' \in Launches
    BY <1>7, LaunchTurns DEF Terminal!Release
  <2>2. QED
    BY <1>7, <2>1 DEF Terminal!Release, Terminal!Fault, Terminal!Fine, Terminal!downstream, TerminalConstants
<1>8. CASE Terminal!LaunchDies
  <2>1. launch' \in Launches
    BY <1>8, LaunchTurns DEF Terminal!LaunchDies
  <2>2. QED
    BY <1>8, <2>1 DEF Terminal!LaunchDies, Terminal!Fault, Terminal!downstream, TerminalConstants
<1>9. QED
  BY <1>1, <1>2, <1>3, <1>4, <1>5, <1>6, <1>7, <1>8 DEF Terminal!LaunchStep

(* the container,                                                          *)
LEMMA ContainerKeepsTypes ==
  ASSUME TerminalConstants, TerminalTypes, NEW n \in Terminal!Launch, Terminal!Call(n) \/ Terminal!RunnerDies(n)
  PROVE  TerminalTypes'
<1> USE DEF TerminalTypes
<1>1. CASE Terminal!Call(n)
  <2>1. runner' \in [Terminal!Launch -> {"off", "progress", "result"}]
    BY <1>1 DEF Terminal!Call
  <2>2. proxy' \in [Terminal!Callback -> Proxies]
    BY <1>1 DEF Terminal!Call, Proxies
  <2>3. QED
    BY <1>1, <2>1, <2>2 DEF Terminal!Call, Terminal!downstream
<1>2. CASE Terminal!RunnerDies(n)
  BY <1>2 DEF Terminal!RunnerDies, Terminal!Fault, Terminal!downstream, TerminalConstants
<1>3. QED
  BY <1>1, <1>2

(* A payload is taken.                                                     *)
LEMMA TakenIsTyped ==
  ASSUME TerminalTypes, NEW p, Terminal!Deliver(p)
  PROVE  (taken \in Terminal!Terminal \cup {Terminal!Nothing} /\ accounted \in {"open", "told", "unknown"} /\ completed \in BOOLEAN)'
BY DEF TerminalTypes, Terminal!Deliver, Terminal!Callbacks!Take, Terminal!downstream

(* the proxy,                                                              *)
LEMMA ProxyKeepsTypes ==
  ASSUME TerminalConstants, TerminalTypes, NEW c \in Terminal!Callback, Terminal!ProxyStep(c)
  PROVE  TerminalTypes'
<1> USE DEF TerminalTypes
<1>1. proxy' \in [Terminal!Callback -> Proxies]
  BY DEF Terminal!ProxyStep, Terminal!ProxyClaim, Terminal!ProxyFree, Terminal!ProxySubmit,
     Terminal!ProxyForward, Terminal!ProxyGoto, Proxies
<1>2. CASE Terminal!ProxyClaim(c)
  BY <1>1, <1>2 DEF Terminal!ProxyClaim, Terminal!Fault, Terminal!Fine, Terminal!downstream, TerminalConstants
<1>3. CASE Terminal!ProxyFree(c)
  BY <1>1, <1>3 DEF Terminal!ProxyFree, Terminal!Fault, Terminal!Fine, Terminal!downstream, TerminalConstants
<1>4. CASE Terminal!ProxySubmit(c)
  <2>1. record' \in Terminal!Record
    <3>1. Terminal!Submitted(c) \in Terminal!Record
      <4>1. record.box \in Terminal!Launch \cup {0}
        BY DEF Terminal!Record
      <4>2. QED
        BY <4>1, RecordBegins, Payloads DEF Terminal!Submitted
    <3>2. QED
      BY <1>4, <3>1 DEF Terminal!ProxySubmit
  <2>2. alarm' \in Terminal!Time \cup {Terminal!Never} /\ faults' \in Nat /\ faults' <= MaxFaults
    BY <1>4 DEF Terminal!ProxySubmit, Terminal!Fault, Terminal!Fine, TerminalConstants
  <2>3. QED
    BY <1>1, <1>4, <2>1, <2>2 DEF Terminal!ProxySubmit, Terminal!downstream
<1>5. CASE Terminal!ProxyForward(c)
  BY <1>1, <1>5, TakenIsTyped DEF Terminal!ProxyForward, Terminal!downstream
<1>6. QED
  BY <1>2, <1>3, <1>4, <1>5 DEF Terminal!ProxyStep

(* the alarm handler,                                                      *)
LEMMA RingKeepsTypes ==
  ASSUME TerminalConstants, TerminalTypes, Terminal!RingStep \/ Terminal!RingDies
  PROVE  TerminalTypes'
<1> USE DEF TerminalTypes
<1>1. Terminal!NoRing \in Rings /\ ring.held \in Terminal!Record
  BY NoRecordIsRecord, RingBegins, RingTurns
<1>2. CASE Terminal!Wake
  <2>1. [record EXCEPT !.state = "pending"] \in Terminal!Record
    BY RecordTurns
  <2>2. record' \in Terminal!Record /\ ring' \in Rings
    BY <1>2, <2>1, RingBegins DEF Terminal!Wake
  <2>3. alarm' \in Terminal!Time \cup {Terminal!Never}
    BY <1>2 DEF Terminal!Wake, Terminal!Time, Terminal!Never
  <2>4. QED
    BY <1>2, <2>2, <2>3 DEF Terminal!Wake, Terminal!downstream
<1>3. CASE Terminal!RingDeliver
  <2>1. ring' \in Rings
    BY <1>3, RingTurns DEF Terminal!RingDeliver
  <2>2. QED
    BY <1>3, <2>1, TakenIsTyped DEF Terminal!RingDeliver, Terminal!downstream
<1>4. CASE Terminal!RingAwait
  <2>1. ring' \in Rings
    BY <1>4, RingTurns DEF Terminal!RingAwait
  <2>2. QED
    BY <1>4, <2>1 DEF Terminal!RingAwait, Terminal!downstream
<1>5. CASE Terminal!RingPersist
  <2>1. ring' \in Rings
    BY <1>1, <1>5, RingTurns DEF Terminal!RingPersist, Terminal!Throw
  <2>2. QED
    BY <1>5, <2>1 DEF Terminal!RingPersist, Terminal!Throw, Terminal!Callbacks!GiveUp, Terminal!Fault,
       Terminal!Fine, Terminal!downstream, TerminalConstants
<1>6. CASE Terminal!RingDestroy
  <2>1. ring' \in Rings
    BY <1>1, <1>6, RingTurns DEF Terminal!RingDestroy, Terminal!Fails, Terminal!Throw
  <2>2. alarm' \in Terminal!Time \cup {Terminal!Never} /\ faults' \in Nat /\ faults' <= MaxFaults
    BY <1>6 DEF Terminal!RingDestroy, Terminal!Fails, Terminal!Throw, Terminal!Fault, Terminal!Fine,
       TerminalConstants
  <2>3. QED
    BY <1>6, <2>1, <2>2 DEF Terminal!RingDestroy, Terminal!Destroy, Terminal!downstream
<1>7. CASE Terminal!RingNote
  <2>1. ring' \in Rings
    BY <1>1, <1>7, RingTurns DEF Terminal!RingNote, Terminal!Fails, Terminal!Throw
  <2>2. record' \in Terminal!Record
    BY <1>7, RecordTurns DEF Terminal!RingNote, Terminal!MarkDestroyed
  <2>3. QED
    BY <1>7, <2>1, <2>2 DEF Terminal!RingNote, Terminal!Fails, Terminal!Throw, Terminal!Fault, Terminal!Fine,
       Terminal!downstream, TerminalConstants
<1>8. CASE Terminal!RingOwn
  <2>1. ring' \in Rings
    BY <1>1, <1>8, RingTurns DEF Terminal!RingOwn, Terminal!Fails, Terminal!Throw
  <2>2. owner' \in {"none", "claimed"} \cup Terminal!Settled
    BY <1>8 DEF Terminal!RingOwn, Terminal!Outcome, Terminal!Settled
  <2>3. QED
    BY <1>8, <2>1, <2>2 DEF Terminal!RingOwn, Terminal!Fails, Terminal!Throw, Terminal!Fault, Terminal!Fine,
       Terminal!downstream, TerminalConstants
<1>9. CASE Terminal!RingFinish
  <2>1. record' \in Terminal!Record
    BY <1>9, RecordTurns DEF Terminal!RingFinish
  <2>2. QED
    BY <1>1, <1>9, <2>1 DEF Terminal!RingFinish, Terminal!downstream
<1>10. CASE Terminal!RingSettle
  <2>1. [record EXCEPT !.state = "failed_terminal"] \in Terminal!Record
    BY RecordTurns
  <2>2. ring' \in Rings
    BY <1>1, <1>10, <2>1 DEF Terminal!RingSettle, Rings
  <2>3. QED
    BY <1>10, <2>1, <2>2 DEF Terminal!RingSettle, Terminal!downstream
<1>11. CASE Terminal!RingDies
  BY <1>1, <1>11 DEF Terminal!RingDies, Terminal!Throw, Terminal!Fault, Terminal!downstream, TerminalConstants
<1>12. QED
  BY <1>2, <1>3, <1>4, <1>5, <1>6, <1>7, <1>8, <1>9, <1>10, <1>11 DEF Terminal!RingStep

(* and all the rest.                                                       *)
LEMMA TerminalKeepsTypes ==
  ASSUME TerminalConstants, TerminalTypes, [Terminal!Next]_Terminal!vars
  PROVE  TerminalTypes'
<1>1. CASE UNCHANGED Terminal!vars
  BY <1>1 DEF Terminal!vars, TerminalTypes
<1>2. CASE Terminal!CallbackHandled
  BY <1>2 DEF Terminal!CallbackHandled, Terminal!Callbacks!Account, Terminal!Callbacks!Complete, TerminalTypes
<1>3. CASE Terminal!Tick
  BY <1>3 DEF Terminal!Tick, Terminal!downstream, TerminalTypes, Terminal!Time
<1>4. QED
  BY <1>1, <1>2, <1>3, LaunchKeepsTypes, ContainerKeepsTypes, ProxyKeepsTypes,
     RingKeepsTypes DEF Terminal!Next

(* A watchdog is armed.                                                    *)
LEMMA ArmKeepsEnding ==
  ASSUME TerminalConstants, Ending, Terminal!Arm
  PROVE  Ends'
<1> USE DEF Ending, Ends, TerminalTypes, Terminal!Arm, Terminal!LaunchGoto, Terminal!downstream
<1>1. \/ UNCHANGED record
      \/ /\ record.state = "absent" /\ record'.state = "awaiting_terminal" /\ record'.payload = Terminal!Timeout
         /\ record'.box = launch.n /\ record'.destroyed = FALSE /\ record'.finalized = FALSE
  BY DEF Terminal!Armed, Terminal!NoRecord
<1>2. RecordIsSound' /\ RingHoldsRecord' /\ CompletedIsTold'
  BY <1>1, Payloads DEF RecordIsSound, RingHoldsRecord, CompletedIsTold
<1>3. RingIsAt' /\ OwnerIsSettled' /\ Terminal!EndedIsSettled'
  BY <1>1 DEF RingIsAt, OwnerIsSettled, Terminal!EndedIsSettled, RingHoldsRecord, Terminal!Outcome,
     Terminal!Settled
<1>4. FirstLaunch'
  <2>1. launch.n \in Nat /\ record.box \in Nat /\ launch.n # 0 /\ clock = 0
    BY DEF FirstLaunch, Launches, Terminal!Record, Terminal!Launch, TerminalConstants
  <2>2. launch'.n = launch.n /\ launch'.pc \in {"create", "cancel"}
    BY DEF Launches
  <2>3. QED
    BY <1>1, <2>1, <2>2 DEF FirstLaunch, Unstarted
<1>5. QED
  BY <1>2, <1>3, <1>4

(* A callback takes the place of the watchdog.                             *)
LEMMA ProxySubmitKeepsEnding ==
  ASSUME TerminalConstants, Ending, NEW c \in Terminal!Callback, Terminal!ProxySubmit(c)
  PROVE  Ends'
<1> USE DEF Ending, Ends, TerminalTypes, Terminal!ProxySubmit, Terminal!ProxyGoto, Terminal!ProxyAt,
    Terminal!downstream
<1>1. \/ UNCHANGED record
      \/ /\ record.state \in {"absent", "awaiting_terminal"} /\ record'.state = "pending" /\ record'.payload = c
         /\ record'.box \in {0, record.box} /\ record'.destroyed = FALSE /\ record'.finalized = FALSE
  BY DEF Terminal!Submitted, Terminal!NoRecord, Terminal!Replaceable
<1>2. RecordIsSound' /\ RingHoldsRecord' /\ CompletedIsTold'
  BY <1>1, Payloads DEF RecordIsSound, RingHoldsRecord, CompletedIsTold
<1>3. RingIsAt' /\ OwnerIsSettled' /\ Terminal!EndedIsSettled'
  BY <1>1 DEF RingIsAt, OwnerIsSettled, Terminal!EndedIsSettled, RingHoldsRecord, Terminal!Outcome,
     Terminal!Settled
<1>4. FirstLaunch'
  <2>1. ~Unstarted /\ launch.n # 0
    BY DEF FirstLaunch, Unstarted
  <2>2. launch.n \in Nat /\ record.box \in Nat
    BY DEF Launches, Terminal!Record, Terminal!Launch, TerminalConstants
  <2>3. ~Unstarted'
    BY <2>1 DEF Unstarted
  <2>4. QED
    BY <1>1, <2>1, <2>2, <2>3 DEF FirstLaunch
<1>5. QED
  BY <1>2, <1>3, <1>4

(* A callback reaches its handler.                                         *)
LEMMA ProxyForwardKeepsEnding ==
  ASSUME TerminalConstants, Ending, NEW c \in Terminal!Callback, Terminal!ProxyForward(c)
  PROVE  Ends'
<1> USE DEF Ending, Ends, TerminalTypes, Terminal!ProxyForward, Terminal!ProxyGoto, Terminal!ProxyAt,
    Terminal!downstream
<1>1. UNCHANGED <<accounted, completed>> /\ (taken # Terminal!Nothing => UNCHANGED taken)
  BY DEF Terminal!Deliver, Terminal!Callbacks!Take
<1>2. RecordIsSound' /\ RingHoldsRecord' /\ CompletedIsTold'
  BY <1>1 DEF RecordIsSound, RingHoldsRecord, CompletedIsTold
<1>3. RingIsAt' /\ OwnerIsSettled' /\ Terminal!EndedIsSettled'
  BY <1>1, Payloads DEF RingIsAt, OwnerIsSettled, Terminal!EndedIsSettled, RingHoldsRecord, RecordIsSound,
     Terminal!Outcome, Terminal!Settled
<1>4. FirstLaunch'
  BY DEF FirstLaunch, Unstarted
<1>5. QED
  BY <1>2, <1>3, <1>4

(* The alarm handler wakes.                                                *)
LEMMA WakeKeepsEnding ==
  ASSUME TerminalConstants, Ending, Terminal!Wake
  PROVE  Ends'
<1> USE DEF Ending, Ends, TerminalTypes, Terminal!Wake, Terminal!RingAt, Terminal!downstream
<1>1. \/ UNCHANGED <<record, ring>>
      \/ /\ record.state \in {"awaiting_terminal", "pending"} /\ record'.state = "pending"
         /\ UNCHANGED <<record.payload, record.box, record.destroyed, record.finalized>>
         /\ ring'.pc = "deliver" /\ ~ring'.failing /\ ring'.held = record'
         /\ record.state = "awaiting_terminal" => clock # 0
      \/ /\ record.state = "failed_terminal" /\ UNCHANGED record
         /\ ring'.pc = "persist" /\ ring'.failing /\ ring'.held = record
  <2>1. \A s \in {"deliver", "persist"}, h \in Terminal!Record :
          LET r == Terminal!Woken(s, h) IN r.pc = s /\ r.held = h /\ (r.failing <=> s = "persist")
    BY DEF Terminal!Woken
  <2>2. [record EXCEPT !.state = "pending"] \in Terminal!Record
    BY RecordTurns
  <2>3. CASE record.state \in {"absent", "completed"} \/ (record.state = "failed_terminal" /\ record.finalized)
    BY <2>3
  <2>4. CASE record.state = "failed_terminal" /\ ~record.finalized
    BY <2>1, <2>4
  <2>5. CASE record.state \in {"awaiting_terminal", "pending"}
    BY <2>1, <2>2, <2>5 DEF Terminal!Record
  <2>6. QED
    BY <2>3, <2>4, <2>5 DEF Terminal!Record
<1>2. RecordIsSound' /\ RingHoldsRecord' /\ CompletedIsTold'
  BY <1>1, Payloads DEF RecordIsSound, RingHoldsRecord, CompletedIsTold
<1>3. RingIsAt' /\ OwnerIsSettled' /\ Terminal!EndedIsSettled'
  BY <1>1 DEF RingIsAt, OwnerIsSettled, Terminal!EndedIsSettled, RingHoldsRecord, Terminal!Outcome,
     Terminal!Settled
<1>4. FirstLaunch'
  BY <1>1 DEF FirstLaunch, Unstarted
<1>5. QED
  BY <1>2, <1>3, <1>4

(* A delivery is tried again, or given up.                                 *)
LEMMA RingSettleKeepsEnding ==
  ASSUME TerminalConstants, Ending, Terminal!RingSettle
  PROVE  Ends'
<1> USE DEF Ending, Ends, TerminalTypes, Terminal!RingSettle, Terminal!RingAt, Terminal!downstream
<1>1. ~ring.failing /\ record.state = "pending"
  BY DEF RingIsAt, RingHoldsRecord
<1>2. \/ UNCHANGED record /\ ring'.pc = "idle"
      \/ /\ record'.state = "failed_terminal"
         /\ UNCHANGED <<record.payload, record.box, record.destroyed, record.finalized>>
         /\ ring'.pc = "persist" /\ ring'.failing /\ ring'.held = record'
  <2>1. CASE ring.now < 2
    BY <2>1 DEF Terminal!NoRing
  <2>2. CASE ~(ring.now < 2)
    <3>1. record' = [record EXCEPT !.state = "failed_terminal"]
      BY <2>2
    <3>2. ring' = [ring EXCEPT !.pc = "persist", !.held = record', !.failing = TRUE]
      BY <2>2
    <3>3. QED
      BY <3>1, <3>2 DEF Terminal!Record, Rings
  <2>3. QED
    BY <2>1, <2>2
<1>3. RecordIsSound' /\ RingHoldsRecord' /\ CompletedIsTold'
  BY <1>1, <1>2 DEF RecordIsSound, RingHoldsRecord, CompletedIsTold
<1>4. RingIsAt' /\ OwnerIsSettled' /\ Terminal!EndedIsSettled'
  BY <1>1, <1>2 DEF RingIsAt, OwnerIsSettled, Terminal!EndedIsSettled, RingHoldsRecord, Terminal!Outcome,
     Terminal!Settled
<1>5. FirstLaunch'
  BY <1>1, <1>2 DEF FirstLaunch, Unstarted
<1>6. QED
  BY <1>3, <1>4, <1>5

(* The launch, but for the arming above.                                   *)
LEMMA LaunchKeepsEnding ==
  ASSUME TerminalConstants, Ending, Terminal!LaunchStep \/ Terminal!LaunchDies
  PROVE  Ends'
<1> USE DEF Ending, Ends, TerminalTypes, Terminal!downstream
<1>1. CASE Terminal!Register
  <2> USE <1>1 DEF Terminal!Register, Terminal!LaunchGoto
  <2>1. RecordIsSound' /\ RingHoldsRecord' /\ CompletedIsTold'
    BY DEF RecordIsSound, RingHoldsRecord, CompletedIsTold
  <2>2. RingIsAt'
    BY DEF RingIsAt, Terminal!Outcome
  <2>3. OwnerIsSettled' /\ Terminal!EndedIsSettled'
    BY DEF OwnerIsSettled, Terminal!EndedIsSettled, Terminal!Settled
  <2>4. FirstLaunch'
    BY DEF FirstLaunch, Unstarted, Launches, Terminal!Record, RecordIsSound, Rings, Terminal!Launch
  <2>5. QED
    BY <2>1, <2>2, <2>3, <2>4
<1>2. CASE Terminal!Create
  <2> USE <1>2 DEF Terminal!Create, Terminal!LaunchGoto, Terminal!Start
  <2>1. RecordIsSound' /\ RingHoldsRecord' /\ CompletedIsTold'
    BY DEF RecordIsSound, RingHoldsRecord, CompletedIsTold
  <2>2. RingIsAt'
    BY DEF RingIsAt, Terminal!Outcome
  <2>3. OwnerIsSettled' /\ Terminal!EndedIsSettled'
    BY DEF OwnerIsSettled, Terminal!EndedIsSettled
  <2>4. FirstLaunch'
    BY DEF FirstLaunch, Unstarted, Launches, Terminal!NoRecord, TerminalConstants, Terminal!Launch
  <2>5. QED
    BY <2>1, <2>2, <2>3, <2>4
<1>3. CASE Terminal!Clean
  <2> USE <1>3 DEF Terminal!Clean, Terminal!LaunchGoto, Terminal!Destroy
  <2>1. RecordIsSound' /\ RingHoldsRecord' /\ CompletedIsTold'
    BY DEF RecordIsSound, RingHoldsRecord, CompletedIsTold
  <2>2. RingIsAt'
    BY DEF RingIsAt, Terminal!Outcome
  <2>3. OwnerIsSettled' /\ Terminal!EndedIsSettled'
    BY DEF OwnerIsSettled, Terminal!EndedIsSettled
  <2>4. FirstLaunch'
    BY DEF FirstLaunch, Unstarted, Launches, TerminalConstants, Terminal!Launch
  <2>5. QED
    BY <2>1, <2>2, <2>3, <2>4
<1>4. CASE Terminal!Note
  <2> USE <1>4 DEF Terminal!Note, Terminal!LaunchGoto, Terminal!MarkDestroyed, Terminal!TakesReceipt
  <2>1. RecordIsSound' /\ RingHoldsRecord' /\ CompletedIsTold'
    BY DEF RecordIsSound, RingHoldsRecord, CompletedIsTold, Terminal!NoRecord, Terminal!Record
  <2>2. RingIsAt'
    BY DEF RingIsAt, Terminal!Outcome, Terminal!Record
  <2>3. OwnerIsSettled' /\ Terminal!EndedIsSettled'
    BY DEF OwnerIsSettled, Terminal!EndedIsSettled, Terminal!Record
  <2>4. FirstLaunch'
    BY DEF FirstLaunch, Unstarted, Launches, Terminal!Record, RecordIsSound
  <2>5. QED
    BY <2>1, <2>2, <2>3, <2>4
<1>5. CASE Terminal!Cancel
  <2> USE <1>5 DEF Terminal!Cancel, Terminal!LaunchGoto
  <2>1. RecordIsSound' /\ RingHoldsRecord' /\ CompletedIsTold'
    BY DEF RecordIsSound, RingHoldsRecord, CompletedIsTold, Terminal!NoRecord
  <2>2. RingIsAt'
    BY DEF RingIsAt, RingHoldsRecord, Terminal!Outcome
  <2>3. OwnerIsSettled' /\ Terminal!EndedIsSettled'
    BY DEF OwnerIsSettled, Terminal!EndedIsSettled, Terminal!NoRecord
  <2>4. FirstLaunch'
    BY DEF FirstLaunch, Unstarted, Launches, Terminal!NoRecord, Terminal!Launch
  <2>5. QED
    BY <2>1, <2>2, <2>3, <2>4
<1>6. CASE Terminal!Release
  <2> USE <1>6 DEF Terminal!Release, Terminal!LaunchGoto
  <2>1. RecordIsSound' /\ RingHoldsRecord' /\ CompletedIsTold'
    BY DEF RecordIsSound, RingHoldsRecord, CompletedIsTold
  <2>2. RingIsAt'
    BY DEF RingIsAt, Terminal!Outcome
  <2>3. OwnerIsSettled' /\ Terminal!EndedIsSettled'
    BY DEF OwnerIsSettled, Terminal!EndedIsSettled, Terminal!Settled
  <2>4. FirstLaunch'
    BY DEF FirstLaunch, Unstarted
  <2>5. QED
    BY <2>1, <2>2, <2>3, <2>4
<1>7. CASE Terminal!LaunchDies
  <2> USE <1>7 DEF Terminal!LaunchDies, Terminal!LaunchGoto
  <2>1. RecordIsSound' /\ RingHoldsRecord' /\ CompletedIsTold'
    BY DEF RecordIsSound, RingHoldsRecord, CompletedIsTold
  <2>2. RingIsAt'
    BY DEF RingIsAt, Terminal!Outcome
  <2>3. OwnerIsSettled' /\ Terminal!EndedIsSettled'
    BY DEF OwnerIsSettled, Terminal!EndedIsSettled
  <2>4. FirstLaunch'
    BY DEF FirstLaunch, Unstarted
  <2>5. QED
    BY <2>1, <2>2, <2>3, <2>4
<1>8. QED
  BY <1>1, <1>2, <1>3, <1>4, <1>5, <1>6, <1>7, ArmKeepsEnding DEF Terminal!LaunchStep

(* The container.                                                          *)
LEMMA ContainerKeepsEnding ==
  ASSUME TerminalConstants, Ending, NEW n \in Terminal!Launch, Terminal!Call(n) \/ Terminal!RunnerDies(n)
  PROVE  Ends'
<1> USE DEF Ending, Ends, TerminalTypes, Terminal!downstream
<1>1. CASE Terminal!Call(n)
  <2> USE <1>1 DEF Terminal!Call
  <2>1. RecordIsSound' /\ RingHoldsRecord' /\ CompletedIsTold'
    BY DEF RecordIsSound, RingHoldsRecord, CompletedIsTold
  <2>2. RingIsAt'
    BY DEF RingIsAt, Terminal!Outcome
  <2>3. OwnerIsSettled' /\ Terminal!EndedIsSettled'
    BY DEF OwnerIsSettled, Terminal!EndedIsSettled
  <2>4. FirstLaunch'
    BY DEF FirstLaunch, Unstarted
  <2>5. QED
    BY <2>1, <2>2, <2>3, <2>4
<1>2. CASE Terminal!RunnerDies(n)
  <2> USE <1>2 DEF Terminal!RunnerDies
  <2>1. RecordIsSound' /\ RingHoldsRecord' /\ CompletedIsTold'
    BY DEF RecordIsSound, RingHoldsRecord, CompletedIsTold
  <2>2. RingIsAt'
    BY DEF RingIsAt, Terminal!Outcome
  <2>3. OwnerIsSettled' /\ Terminal!EndedIsSettled'
    BY DEF OwnerIsSettled, Terminal!EndedIsSettled
  <2>4. FirstLaunch'
    BY DEF FirstLaunch, Unstarted
  <2>5. QED
    BY <2>1, <2>2, <2>3, <2>4
<1>3. QED
  BY <1>1, <1>2

(* The proxy.                                                              *)
LEMMA ProxyKeepsEnding ==
  ASSUME TerminalConstants, Ending, NEW c \in Terminal!Callback, Terminal!ProxyStep(c)
  PROVE  Ends'
<1> USE DEF Ending, Ends, TerminalTypes, Terminal!downstream
<1>1. CASE Terminal!ProxyClaim(c)
  <2> USE <1>1 DEF Terminal!ProxyClaim, Terminal!ProxyGoto, Terminal!ProxyAt
  <2>1. RecordIsSound' /\ RingHoldsRecord' /\ CompletedIsTold'
    BY DEF RecordIsSound, RingHoldsRecord, CompletedIsTold
  <2>2. RingIsAt'
    BY DEF RingIsAt, Terminal!Outcome
  <2>3. OwnerIsSettled' /\ Terminal!EndedIsSettled'
    BY DEF OwnerIsSettled, Terminal!EndedIsSettled, Terminal!Settled
  <2>4. FirstLaunch'
    BY DEF FirstLaunch, Unstarted
  <2>5. QED
    BY <2>1, <2>2, <2>3, <2>4
<1>2. CASE Terminal!ProxyFree(c)
  <2> USE <1>2 DEF Terminal!ProxyFree, Terminal!ProxyGoto, Terminal!ProxyAt
  <2>1. RecordIsSound' /\ RingHoldsRecord' /\ CompletedIsTold'
    BY DEF RecordIsSound, RingHoldsRecord, CompletedIsTold
  <2>2. RingIsAt'
    BY DEF RingIsAt, Terminal!Outcome
  <2>3. OwnerIsSettled' /\ Terminal!EndedIsSettled'
    BY DEF OwnerIsSettled, Terminal!EndedIsSettled, Terminal!Settled
  <2>4. FirstLaunch'
    BY DEF FirstLaunch, Unstarted
  <2>5. QED
    BY <2>1, <2>2, <2>3, <2>4
<1>3. QED
  BY <1>1, <1>2, ProxySubmitKeepsEnding, ProxyForwardKeepsEnding DEF Terminal!ProxyStep

(* The alarm handler.                                                      *)
LEMMA RingKeepsEnding ==
  ASSUME TerminalConstants, Ending, Terminal!RingStep \/ Terminal!RingDies
  PROVE  Ends'
<1> USE DEF Ending, Ends, TerminalTypes, Terminal!downstream
<1>1. CASE Terminal!RingDeliver
  <2> USE <1>1 DEF Terminal!RingDeliver, Terminal!RingAt, Terminal!RingGoto, Terminal!Deliver,
      Terminal!Callbacks!Take
  <2>1. RecordIsSound' /\ RingHoldsRecord' /\ CompletedIsTold'
    BY DEF RecordIsSound, RingHoldsRecord, CompletedIsTold, Rings
  <2>2. RingIsAt'
    BY DEF RingIsAt, RingHoldsRecord, Rings
  <2>3. OwnerIsSettled' /\ Terminal!EndedIsSettled'
    BY DEF OwnerIsSettled, Terminal!EndedIsSettled, RingHoldsRecord
  <2>4. FirstLaunch'
    BY DEF FirstLaunch, Unstarted, Rings
  <2>5. QED
    BY <2>1, <2>2, <2>3, <2>4
<1>2. CASE Terminal!RingAwait
  <2> USE <1>2 DEF Terminal!RingAwait, Terminal!RingAt, Terminal!RingGoto
  <2>1. RecordIsSound' /\ RingHoldsRecord' /\ CompletedIsTold'
    BY DEF RecordIsSound, RingHoldsRecord, CompletedIsTold, Rings
  <2>2. RingIsAt'
    BY DEF RingIsAt, Rings
  <2>3. OwnerIsSettled' /\ Terminal!EndedIsSettled'
    BY DEF OwnerIsSettled, Terminal!EndedIsSettled
  <2>4. FirstLaunch'
    BY DEF FirstLaunch, Unstarted, Rings
  <2>5. QED
    BY <2>1, <2>2, <2>3, <2>4
<1>3. CASE Terminal!RingPersist
  <2> USE <1>3 DEF Terminal!RingPersist, Terminal!RingAt, Terminal!RingGoto, Terminal!Throw, Terminal!NoRing,
      Terminal!Callbacks!GiveUp, Terminal!AccountedSame
  <2>1. RecordIsSound' /\ RingHoldsRecord' /\ CompletedIsTold'
    BY DEF RecordIsSound, RingHoldsRecord, CompletedIsTold, Rings
  <2>2. RingIsAt'
    BY DEF RingIsAt, Rings
  <2>3. OwnerIsSettled' /\ Terminal!EndedIsSettled'
    BY DEF OwnerIsSettled, Terminal!EndedIsSettled
  <2>4. FirstLaunch'
    BY DEF FirstLaunch, Unstarted, Rings
  <2>5. QED
    BY <2>1, <2>2, <2>3, <2>4
<1>4. CASE Terminal!RingDestroy
  <2> USE <1>4 DEF Terminal!RingDestroy, Terminal!RingAt, Terminal!RingGoto, Terminal!Fails, Terminal!Throw,
      Terminal!NoRing, Terminal!Destroy
  <2>1. RecordIsSound' /\ RingHoldsRecord' /\ CompletedIsTold'
    BY DEF RecordIsSound, RingHoldsRecord, CompletedIsTold, Rings
  <2>2. RingIsAt'
    BY DEF RingIsAt, RingHoldsRecord, Rings
  <2>3. OwnerIsSettled' /\ Terminal!EndedIsSettled'
    BY DEF OwnerIsSettled, Terminal!EndedIsSettled
  <2>4. FirstLaunch'
    BY DEF FirstLaunch, Unstarted, Launches, Terminal!Record, RingHoldsRecord, Rings, TerminalConstants,
       Terminal!Launch
  <2>5. QED
    BY <2>1, <2>2, <2>3, <2>4
<1>5. CASE Terminal!RingNote
  <2> USE <1>5 DEF Terminal!RingNote, Terminal!RingAt, Terminal!RingGoto, Terminal!Fails, Terminal!Throw,
      Terminal!NoRing, Terminal!MarkDestroyed, Terminal!TakesReceipt
  <2>1. RecordIsSound' /\ RingHoldsRecord' /\ CompletedIsTold'
    BY DEF RecordIsSound, RingHoldsRecord, CompletedIsTold, Terminal!Record, Rings
  <2>2. RingIsAt'
    BY DEF RingIsAt, Rings, Terminal!Record
  <2>3. OwnerIsSettled' /\ Terminal!EndedIsSettled'
    BY DEF OwnerIsSettled, Terminal!EndedIsSettled, Terminal!Record
  <2>4. FirstLaunch'
    BY DEF FirstLaunch, Unstarted, Terminal!Record
  <2>5. QED
    BY <2>1, <2>2, <2>3, <2>4
<1>6. CASE Terminal!RingOwn
  <2> USE <1>6 DEF Terminal!RingOwn, Terminal!RingAt, Terminal!RingGoto, Terminal!Fails, Terminal!Throw,
      Terminal!NoRing, Terminal!Outcome
  <2>1. RecordIsSound' /\ RingHoldsRecord' /\ CompletedIsTold'
    BY DEF RecordIsSound, RingHoldsRecord, CompletedIsTold, Rings
  <2>2. RingIsAt'
    BY DEF RingIsAt, Rings
  <2>3. OwnerIsSettled' /\ Terminal!EndedIsSettled'
    BY DEF RingIsAt, OwnerIsSettled, Terminal!EndedIsSettled, RingHoldsRecord
  <2>4. FirstLaunch'
    BY DEF FirstLaunch, Unstarted, Rings
  <2>5. QED
    BY <2>1, <2>2, <2>3, <2>4
<1>7. CASE Terminal!RingFinish
  <2> USE <1>7 DEF Terminal!RingFinish, Terminal!RingAt, Terminal!NoRing, Terminal!Outcome
  <2>1. RecordIsSound' /\ RingHoldsRecord' /\ CompletedIsTold'
    BY DEF RecordIsSound, RingHoldsRecord, CompletedIsTold
  <2>2. RingIsAt'
    BY DEF RingIsAt
  <2>3. OwnerIsSettled' /\ Terminal!EndedIsSettled'
    BY DEF RingIsAt, OwnerIsSettled, Terminal!EndedIsSettled
  <2>4. FirstLaunch'
    BY DEF FirstLaunch, Unstarted
  <2>5. QED
    BY <2>1, <2>2, <2>3, <2>4
<1>8. CASE Terminal!RingDies
  <2> USE <1>8 DEF Terminal!RingDies, Terminal!RingAt, Terminal!Throw, Terminal!NoRing
  <2>1. RecordIsSound' /\ RingHoldsRecord' /\ CompletedIsTold'
    BY DEF RecordIsSound, RingHoldsRecord, CompletedIsTold
  <2>2. RingIsAt'
    BY DEF RingIsAt
  <2>3. OwnerIsSettled' /\ Terminal!EndedIsSettled'
    BY DEF OwnerIsSettled, Terminal!EndedIsSettled
  <2>4. FirstLaunch'
    BY DEF FirstLaunch, Unstarted
  <2>5. QED
    BY <2>1, <2>2, <2>3, <2>4
<1>9. QED
  BY <1>1, <1>2, <1>3, <1>4, <1>5, <1>6, <1>7, <1>8, WakeKeepsEnding,
     RingSettleKeepsEnding DEF Terminal!RingStep

(* What the callback handler does on its own, and time.                    *)
LEMMA WorldKeepsEnding ==
  ASSUME TerminalConstants, Ending, Terminal!CallbackHandled \/ Terminal!Tick
  PROVE  Ends'
<1> USE DEF Ending, Ends, TerminalTypes, Terminal!downstream
<1>1. CASE Terminal!CallbackHandled
  <2> USE <1>1 DEF Terminal!CallbackHandled, Terminal!Callbacks!Account, Terminal!Callbacks!Complete
  <2>1. RecordIsSound' /\ RingHoldsRecord' /\ CompletedIsTold'
    BY DEF RecordIsSound, RingHoldsRecord, CompletedIsTold
  <2>2. RingIsAt'
    BY DEF RingIsAt, CompletedIsTold
  <2>3. OwnerIsSettled' /\ Terminal!EndedIsSettled'
    BY DEF OwnerIsSettled, Terminal!EndedIsSettled
  <2>4. FirstLaunch'
    BY DEF FirstLaunch, Unstarted
  <2>5. QED
    BY <2>1, <2>2, <2>3, <2>4
<1>2. CASE Terminal!Tick
  <2> USE <1>2 DEF Terminal!Tick
  <2>1. RecordIsSound' /\ RingHoldsRecord' /\ CompletedIsTold'
    BY DEF RecordIsSound, RingHoldsRecord, CompletedIsTold
  <2>2. RingIsAt'
    BY DEF RingIsAt, Terminal!Outcome
  <2>3. OwnerIsSettled' /\ Terminal!EndedIsSettled'
    BY DEF OwnerIsSettled, Terminal!EndedIsSettled
  <2>4. FirstLaunch'
    BY DEF FirstLaunch, Unstarted
  <2>5. QED
    BY <2>1, <2>2, <2>3, <2>4
<1>3. QED
  BY <1>1, <1>2

(* It holds at first, and every step keeps it.                             *)
LEMMA EndingAtFirst == ASSUME TerminalConstants, Terminal!Init PROVE Ending
<1> USE DEF Terminal!Init, Terminal!Callbacks!Init
<1>1. TerminalTypes
  <2>1. Terminal!NoRing \in Rings
    BY NoRecordIsRecord DEF Rings, Terminal!NoRing, Terminal!Time
  <2>2. faults \in Nat /\ faults <= MaxFaults /\ clock \in Terminal!Time /\ launch \in Launches
    BY DEF TerminalConstants, Terminal!Time, Launches
  <2>3. QED
    BY <2>1, <2>2, NoRecordIsRecord DEF TerminalTypes, Proxies
<1>2. RecordIsSound /\ RingHoldsRecord /\ RingIsAt /\ CompletedIsTold /\ OwnerIsSettled /\ Terminal!EndedIsSettled
  BY DEF RecordIsSound, RingHoldsRecord, RingIsAt, CompletedIsTold, OwnerIsSettled, Terminal!EndedIsSettled,
     Terminal!NoRecord, Terminal!NoRing, Terminal!Settled
<1>3. FirstLaunch
  BY DEF FirstLaunch, Unstarted, Terminal!NoRecord, Terminal!NoRing
<1>4. QED
  BY <1>1, <1>2, <1>3 DEF Ending, Ends

LEMMA EndingIsKept == ASSUME TerminalConstants, Ending, [Terminal!Next]_Terminal!vars PROVE Ending'
<1>1. TerminalTypes'
  BY TerminalKeepsTypes DEF Ending
<1>2. Ends'
  <2>1. CASE UNCHANGED Terminal!vars
    BY <2>1 DEF Terminal!vars, Ending, Ends, RecordIsSound, RingHoldsRecord, RingIsAt, CompletedIsTold,
       OwnerIsSettled, Terminal!EndedIsSettled, FirstLaunch, Unstarted, Terminal!Outcome
  <2>2. CASE Terminal!Next
    BY <2>2, LaunchKeepsEnding, ContainerKeepsEnding, ProxyKeepsEnding, RingKeepsEnding,
       WorldKeepsEnding DEF Terminal!Next
  <2>3. QED
    BY <2>1, <2>2
<1>3. QED
  BY <1>1, <1>2 DEF Ending

(* It says all that the run checks.                                        *)
LEMMA EndingIsEnough ==
  ASSUME TerminalConstants, Ending
  PROVE  Terminal!TypeOK /\ Terminal!SettledIsSanitized /\ Terminal!SucceededIsDelivered /\ Terminal!EndedIsSettled
<1> USE DEF Ending, Ends
<1>1. Terminal!TypeOK
  BY DEF TerminalTypes, Terminal!TypeOK, Launches, Rings, Proxies, TerminalConstants
<1>2. Terminal!SettledIsSanitized
  <2>1. ASSUME owner \in Terminal!Settled, launch.n = 1, NEW n \in Terminal!Launch
        PROVE  box[n] # "running"
    BY <2>1 DEF OwnerIsSettled, FirstLaunch, Terminal!Launch, TerminalConstants
  <2>2. QED
    BY <2>1 DEF Terminal!SettledIsSanitized, OwnerIsSettled
<1>3. Terminal!SucceededIsDelivered
  BY DEF Terminal!SucceededIsDelivered, OwnerIsSettled, CompletedIsTold
<1>4. QED
  BY <1>1, <1>2, <1>3

(* An owner claim that is settled stays so: it is released only before,    *)
(* and what the alarm handler would write over it is what it says.         *)
LEMMA OwnerStaysSettled ==
  ASSUME Ending, [Terminal!Next]_Terminal!vars, owner \in Terminal!Settled
  PROVE  owner' = owner
<1> USE DEF Ending, Ends, Terminal!Settled
<1>1. CASE Terminal!RingOwn
  BY <1>1 DEF Terminal!RingOwn, Terminal!RingAt, RingIsAt, OwnerIsSettled, CompletedIsTold, Terminal!Outcome
<1>2. CASE Terminal!LaunchStep \/ Terminal!LaunchDies
  BY <1>2 DEF Terminal!LaunchStep, Terminal!LaunchDies, Terminal!Register, Terminal!Arm, Terminal!Create,
     Terminal!Clean, Terminal!Note, Terminal!Cancel, Terminal!Release
<1>3. ASSUME NEW c \in Terminal!Callback, Terminal!ProxyStep(c) PROVE owner' = owner
  BY <1>3 DEF Terminal!ProxyStep, Terminal!ProxyClaim, Terminal!ProxyFree, Terminal!ProxySubmit,
     Terminal!ProxyForward
<1>4. CASE Terminal!RingDies \/ Terminal!Wake \/ Terminal!RingDeliver \/ Terminal!RingAwait
            \/ Terminal!RingPersist \/ Terminal!RingDestroy \/ Terminal!RingNote \/ Terminal!RingFinish
            \/ Terminal!RingSettle
  BY <1>4 DEF Terminal!RingDies, Terminal!Wake, Terminal!RingDeliver, Terminal!RingAwait,
     Terminal!RingPersist, Terminal!RingDestroy, Terminal!RingNote, Terminal!RingFinish, Terminal!RingSettle
<1>5. CASE Terminal!CallbackHandled \/ Terminal!Tick
  BY <1>5 DEF Terminal!CallbackHandled, Terminal!Tick
<1>6. ASSUME NEW n \in Terminal!Launch, Terminal!Call(n) \/ Terminal!RunnerDies(n) PROVE owner' = owner
  BY <1>6 DEF Terminal!Call, Terminal!RunnerDies
<1>7. QED
  BY <1>1, <1>2, <1>3, <1>4, <1>5, <1>6 DEF Terminal!Next, Terminal!RingStep, Terminal!vars

(* A record that took a callback, or whose time was over, moves forward.   *)
LEMMA RecordMovesOn ==
  ASSUME Ending, [Terminal!Next]_Terminal!vars, Terminal!Rank[record.state] >= 2
  PROVE  /\ record'.payload = record.payload /\ record'.box = record.box
         /\ record.destroyed => record'.destroyed
         /\ record'.state = record.state \/ Terminal!Rank[record'.state] > Terminal!Rank[record.state]
<1> USE DEF Ending, Ends, TerminalTypes
<1>1. record.state \in {"pending", "completed", "failed_terminal"} /\ record \in Terminal!Record
  BY DEF Terminal!Record, Terminal!Rank
<1>2. \/ UNCHANGED record \/ record' = [record EXCEPT !.destroyed = TRUE]
      \/ record' = [record EXCEPT !.finalized = TRUE]
      \/ record.state = "pending" /\ \E s \in {"completed", "failed_terminal"} : record' = [record EXCEPT !.state = s]
  <2>1. CASE Terminal!LaunchStep \/ Terminal!LaunchDies
    BY <1>1, <2>1 DEF Terminal!LaunchStep, Terminal!LaunchDies, Terminal!Register, Terminal!Arm,
       Terminal!Create, Terminal!Clean, Terminal!Note, Terminal!Cancel, Terminal!Release,
       Terminal!MarkDestroyed
  <2>2. ASSUME NEW c \in Terminal!Callback, Terminal!ProxyStep(c) PROVE UNCHANGED record
    BY <1>1, <2>2 DEF Terminal!ProxyStep, Terminal!ProxyClaim, Terminal!ProxyFree, Terminal!ProxySubmit,
       Terminal!ProxyForward, Terminal!Replaceable
  <2>3. CASE Terminal!Wake
    <3>1. record.state = "pending" => [record EXCEPT !.state = "pending"] = record
      BY <1>1 DEF Terminal!Record
    <3>2. QED
      BY <1>1, <2>3, <3>1 DEF Terminal!Wake
  <2>4. CASE Terminal!RingFinish \/ Terminal!RingSettle
    BY <2>4 DEF Terminal!RingFinish, Terminal!RingSettle, Terminal!RingAt, RingHoldsRecord, RingIsAt
  <2>5. CASE Terminal!RingDies \/ Terminal!RingDeliver \/ Terminal!RingAwait \/ Terminal!RingPersist
              \/ Terminal!RingDestroy \/ Terminal!RingNote \/ Terminal!RingOwn
    BY <2>5 DEF Terminal!RingDies, Terminal!RingDeliver, Terminal!RingAwait, Terminal!RingPersist,
       Terminal!RingDestroy, Terminal!RingNote, Terminal!RingOwn, Terminal!MarkDestroyed
  <2>6. CASE Terminal!CallbackHandled \/ Terminal!Tick
    BY <2>6 DEF Terminal!CallbackHandled, Terminal!Tick
  <2>7. ASSUME NEW n \in Terminal!Launch, Terminal!Call(n) \/ Terminal!RunnerDies(n) PROVE UNCHANGED record
    BY <2>7 DEF Terminal!Call, Terminal!RunnerDies
  <2>8. QED
    BY <2>1, <2>2, <2>3, <2>4, <2>5, <2>6, <2>7 DEF Terminal!Next, Terminal!RingStep, Terminal!vars
<1>3. QED
  BY <1>1, <1>2 DEF Terminal!Record, Terminal!Rank

LEMMA TerminalHolds ==
  ASSUME TerminalConstants
  PROVE  Terminal!Init /\ [][Terminal!Next]_Terminal!vars =>
           /\ [](Terminal!TypeOK /\ Terminal!SettledIsSanitized /\ Terminal!SucceededIsDelivered /\ Terminal!EndedIsSettled)
           /\ Terminal!OwnerOutcomeIsFinal /\ Terminal!RecordIsMonotone
<1>1. Terminal!Init => Ending
  BY EndingAtFirst
<1>2. Ending /\ [Terminal!Next]_Terminal!vars => Ending'
  BY EndingIsKept
<1>3. Ending => Terminal!TypeOK /\ Terminal!SettledIsSanitized /\ Terminal!SucceededIsDelivered /\ Terminal!EndedIsSettled
  BY EndingIsEnough
<1>4. Ending /\ [Terminal!Next]_Terminal!vars => [(owner \in Terminal!Settled) => owner' = owner]_owner
  BY OwnerStaysSettled
<1>5. Ending /\ [Terminal!Next]_Terminal!vars =>
        [Terminal!Rank[record.state] >= 2 =>
           /\ record'.payload = record.payload /\ record'.box = record.box
           /\ record.destroyed => record'.destroyed
           /\ record'.state = record.state \/ Terminal!Rank[record'.state] > Terminal!Rank[record.state]]_record
  BY RecordMovesOn
<1>6. QED
  BY <1>1, <1>2, <1>3, <1>4, <1>5, PTL DEF Terminal!OwnerOutcomeIsFinal, Terminal!RecordIsMonotone

-----------------------------------------------------------------------------
(* The request and the job side by side with the other parts.              *)
LEMMA JobBehaves ==
  Spec => /\ Terminal!Init /\ [][Terminal!Next]_Terminal!vars
          /\ Improvement!Init /\ [][Improvement!Next]_Improvement!improvementVars
<1>1. Init => Terminal!Init /\ Improvement!Init
  BY DEF Init
<1>2. [Next]_suiteVars => [Terminal!Next]_Terminal!vars
  BY DEF Next, HookMoves, TerminalMoves, RunnerMoves, GenerationMoves, ProviderMoves, suiteVars, terminalVars,
         Terminal!vars
<1>3. [Next]_suiteVars => [Improvement!Next]_Improvement!improvementVars
  BY DEF Next, HookMoves, TerminalMoves, RunnerMoves, GenerationMoves, ProviderMoves, suiteVars,
         improvementVars, Improvement!improvementVars
<1>4. QED
  BY <1>1, <1>2, <1>3, PTL DEF Spec

(* What the run checks of a development job, for any number of forms,      *)
(* submissions, people, deployments, launches and faults: a job is queued  *)
(* as it was announced and for somebody who was allowed (index.ts), its    *)
(* owner claim is settled after its container is destroyed, as its         *)
(* callback was accounted for, and before its record ends                  *)
(* (development-terminal-outbox.ts).                                       *)
THEOREM JobEndsAsTold ==
  ASSUME ImprovementConstants, TerminalConstants
  PROVE  Spec => []DevelopmentEndsAsTold
BY TerminalHolds, ImprovementHolds, JobBehaves, PTL DEF DevelopmentEndsAsTold

(* An owner claim is settled once, although completeIdempotency would      *)
(* write over it, and the first callback is kept                           *)
(* (development-terminal-outbox.ts).                                       *)
THEOREM OutcomesStand ==
  ASSUME TerminalConstants
  PROVE  Spec => Terminal!OwnerOutcomeIsFinal /\ Terminal!RecordIsMonotone
BY TerminalHolds, JobBehaves, PTL

=============================================================================
