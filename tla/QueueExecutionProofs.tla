----------------------- MODULE QueueExecutionProofs -----------------------
(***************************************************************************)
(* Theorems about QueueExecution, for any number of copies, invocations,   *)
(* deliveries and faults, any lease, heartbeat interval and delay, and     *)
(* timers as late as can be.                                               *)
(*                                                                         *)
(* Protocol is the inductive invariant under all of them: which store      *)
(* calls of an invocation can still be in flight, given the step it is at  *)
(* and whether the record carries its token. Nothing in it speaks of time: *)
(* fencing by claim_token alone carries the first theorems. What rests on  *)
(* time comes after them, under assumptions of its own.                    *)
(***************************************************************************)
EXTENDS QueueExecution, TLAPS

QueuedHasDeliveries ==
  \A c \in Copy : copy[c] = "queued" => tries[c] < MaxDeliveries

(* The steps at which an invocation can have a call in flight.             *)
StepsOf(r) ==
  CASE r.op = "claim"   -> IF r.awaited THEN {"claiming"} ELSE {"idle"}
    [] r.op = "renew"   -> IF r.awaited THEN {"processing", "draining"}
                                        ELSE Step \ {"claiming"}
    [] r.op = "succeed" -> IF r.awaited THEN {"completing"}
                                        ELSE {"releasing", "idle"}
    [] r.op = "fail"    -> IF r.awaited THEN {"failing"} ELSE {"idle"}
    [] r.op = "release" -> IF r.awaited THEN {"releasing"} ELSE {"idle"}

CallsFitSteps == \A r \in net : pc[r.inv] \in StepsOf(r)

(* A claim is the first call of its token, and nothing carries the token   *)
(* before it is executed.                                                  *)
ClaimIsFirst ==
  \A r \in net : r.op = "claim" =>
    rec.token # r.inv /\ \A q \in net : q.inv = r.inv => q = r

(* An invocation settles its claim in one way only, and releases it once.  *)
Settling == {"succeed", "fail"}

OneOutcome ==
  \A r, q \in net :
    /\ r.inv = q.inv
    /\ \/ r.op \in Settling /\ q.op \in Settling
       \/ r.op = "release" /\ q.op = "release"
    => r = q

OwnerHasClaimed ==
  \A i \in Invocation : rec.token = i => pc[i] # "claiming"

(* Nothing that could overwrite an outcome is left under its token.        *)
OutcomeStands ==
  /\ rec.state = "succeeded" =>
       /\ pc[rec.token] \in {"idle", "releasing", "completing"}
       /\ \A r \in net : r.inv = rec.token => r.op # "fail"
  /\ rec.state = "failed_terminal" =>
       /\ pc[rec.token] \in {"idle", "failing"}
       /\ \A r \in net : r.inv = rec.token => r.op # "succeed"
  /\ rec.state \in Terminal => rec.lease = 0

(* A success is reported only by an invocation whose process run ended ok. *)
SuccessHasRun ==
  /\ rec.state = "succeeded" => "ok" \in ended
  /\ \A r \in net : r.op = "succeed" => "ok" \in ended
  /\ \A i \in Invocation : pc[i] = "draining" => result[i] \in ended

Protocol ==
  /\ TypeOK
  /\ QueuedHasDeliveries
  /\ CallsFitSteps
  /\ ClaimIsFirst
  /\ OneOutcome
  /\ OwnerHasClaimed
  /\ OutcomeStands
  /\ SuccessHasRun

-----------------------------------------------------------------------------
(* Lemmas about calls and the queue.                                       *)

LEMMA CallType ==
  ASSUME NEW op \in Op, NEW i \in Invocation
  PROVE  /\ Call(op, i) \in Request
         /\ Call(op, i).op = op
         /\ Call(op, i).inv = i
         /\ Call(op, i).awaited
  BY ConstantsAssumption DEF Call, Request

(* A call given up by its caller is the same call, not awaited.            *)
GivenUp(r) == [r EXCEPT !.awaited = FALSE]

LEMMA GivenUpType ==
  ASSUME NEW r \in Request
  PROVE  /\ GivenUp(r) \in Request
         /\ GivenUp(r).op = r.op
         /\ GivenUp(r).inv = r.inv
         /\ ~GivenUp(r).awaited
  BY DEF GivenUp, Request

LEMMA RetryKeepsQueue ==
  ASSUME TypeOK, QueuedHasDeliveries, NEW c \in Copy, NEW ticks \in 0..Lease,
         Retry(c, ticks), UNCHANGED tries
  PROVE  /\ copy' \in [Copy -> CopyState]
         /\ delay' \in [Copy -> 0..Lease]
         /\ QueuedHasDeliveries'
  BY DEF TypeOK, Retry, QueuedHasDeliveries, CopyState

LEMMA AckKeepsQueue ==
  ASSUME TypeOK, QueuedHasDeliveries, NEW c \in Copy, Ack(c), UNCHANGED tries
  PROVE  /\ copy' \in [Copy -> CopyState]
         /\ delay' \in [Copy -> 0..Lease]
         /\ QueuedHasDeliveries'
  BY DEF TypeOK, Ack, QueuedHasDeliveries, CopyState

RecordSet == [state : RecState, token : Invocation \cup {NoOne},
              lease : -MaxDelay..Lease]

LEMMA CompletedType ==
  ASSUME TypeOK, NEW state \in Terminal
  PROVE  /\ Completed(state) \in RecordSet
         /\ Completed(state).state = state
         /\ Completed(state).token = rec.token
<1>1. rec \in RecordSet
  BY DEF TypeOK, RecordSet
<1>2. state \in RecState /\ rec.token \in Invocation \cup {NoOne}
  BY <1>1 DEF RecordSet, RecState
<1>3. 0 \in -MaxDelay..Lease
  BY ConstantsAssumption
<1>4. Completed(state) = [[rec EXCEPT !.state = state] EXCEPT !.lease = 0]
  BY DEF Completed
<1>5. [rec EXCEPT !.state = state] \in RecordSet
  BY <1>1, <1>2 DEF RecordSet
<1>6. QED
  BY <1>1, <1>2, <1>3, <1>4, <1>5 DEF RecordSet

LEMMA RecordType ==
  ASSUME TypeOK, NEW r \in Request
  PROVE  /\ AfterCall(r) \in RecordSet
         /\ AfterCall(r).state = "none" <=> AfterCall(r).token = NoOne
<1>. USE ConstantsAssumption DEF TypeOK, Request, RecState, Terminal, RecordSet
<1>a. /\ r.age \in 0..MaxDelay /\ r.inv \in Invocation
      /\ Lease - r.age \in -MaxDelay..Lease
  OBVIOUS
<1>1. CASE r.op = "claim"
  <2>1. AfterCall(r) = IF Claimable(r) THEN ClaimedBy(r) ELSE rec
    BY <1>1 DEF AfterCall, AfterClaim
  <2>2. /\ ClaimedBy(r) \in [state : RecState, token : Invocation \cup {NoOne},
                             lease : -MaxDelay..Lease]
        /\ ClaimedBy(r).state # "none" /\ ClaimedBy(r).token # NoOne
    BY <1>a DEF ClaimedBy
  <2>3. QED
    BY <2>1, <2>2
<1>2. CASE r.op = "renew"
  <2>1. AfterCall(r) = IF Renewable(r) THEN [rec EXCEPT !.lease = Lease - r.age]
                                       ELSE rec
    BY <1>2 DEF AfterCall, AfterRenew
  <2>2. /\ [rec EXCEPT !.lease = Lease - r.age]
               \in [state : RecState, token : Invocation \cup {NoOne},
                    lease : -MaxDelay..Lease]
        /\ [rec EXCEPT !.lease = Lease - r.age].state = rec.state
        /\ [rec EXCEPT !.lease = Lease - r.age].token = rec.token
    BY <1>a
  <2>3. QED
    BY <2>1, <2>2
<1>3. CASE r.op = "succeed"
  <2>1. AfterCall(r) = IF rec.state # "none" /\ rec.token = r.inv
                       THEN Completed("succeeded") ELSE rec
    BY <1>3 DEF AfterCall, AfterComplete
  <2>2. QED
    BY <2>1, CompletedType
<1>4. CASE r.op = "fail"
  <2>1. AfterCall(r) = IF rec.state # "none" /\ rec.token = r.inv
                       THEN Completed("failed_terminal") ELSE rec
    BY <1>4 DEF AfterCall, AfterComplete
  <2>2. QED
    BY <2>1, CompletedType
<1>5. CASE r.op = "release"
  BY <1>5 DEF AfterCall, AfterRelease, NoRecord
<1>6. QED
  BY <1>1, <1>2, <1>3, <1>4, <1>5 DEF Op

(* What a call does to the token and the state of the record.              *)
RecordSteps(r) ==
  \/ /\ AfterCall(r).state = rec.state /\ AfterCall(r).token = rec.token
     /\ rec.state \in Terminal => AfterCall(r).lease = rec.lease
  \/ /\ r.op = "claim" /\ rec.state \in {"none", "claimed"}
     /\ rec.lease <= 0 \/ rec.state = "none"
     /\ AfterCall(r).state = "claimed" /\ AfterCall(r).token = r.inv
  \/ /\ r.op = "succeed" /\ rec.token = r.inv
     /\ rec.state \in {"claimed", "succeeded"}
     /\ AfterCall(r).state = "succeeded" /\ AfterCall(r).token = r.inv
     /\ AfterCall(r).lease = 0
  \/ /\ r.op = "fail" /\ rec.token = r.inv
     /\ rec.state \in {"claimed", "failed_terminal"}
     /\ AfterCall(r).state = "failed_terminal" /\ AfterCall(r).token = r.inv
     /\ AfterCall(r).lease = 0
  \/ /\ r.op = "release" /\ rec.token = r.inv /\ rec.state = "claimed"
     /\ AfterCall(r).state = "none" /\ AfterCall(r).token = NoOne

LEMMA RecordStep ==
  ASSUME Protocol, NEW r \in net
  PROVE  RecordSteps(r)
<1>. USE ConstantsAssumption
     DEF RecordSteps, Protocol, TypeOK, Request, RecState, Terminal
<1>1. CASE r.op = "claim"
  BY <1>1 DEF AfterCall, AfterClaim, ClaimedBy, Claimable, Expired
<1>2. CASE r.op = "renew"
  BY <1>2 DEF AfterCall, AfterRenew, Renewable
<1>3. CASE r.op = "succeed"
  BY <1>3 DEF AfterCall, AfterComplete, Completed, OutcomeStands
<1>4. CASE r.op = "fail"
  BY <1>4 DEF AfterCall, AfterComplete, Completed, OutcomeStands
<1>5. CASE r.op = "release"
  BY <1>5 DEF AfterCall, AfterRelease, NoRecord
<1>6. QED
  BY <1>1, <1>2, <1>3, <1>4, <1>5 DEF Op

LEMMA RejectExpiredKeeps ==
  ASSUME Protocol, NEW c \in Copy, RejectExpired(c)
  PROVE  Protocol'
<1>. USE ConstantsAssumption DEF Protocol, queue, worker
<1>1. TypeOK'
  BY DEF RejectExpired, Deliverable, QueuedHasDeliveries, CopyState, TypeOK
<1>2. QueuedHasDeliveries'
  BY DEF RejectExpired, Deliverable, TypeOK, QueuedHasDeliveries
<1>3. CallsFitSteps'
  BY DEF RejectExpired, Deliverable, CallsFitSteps
<1>4. ClaimIsFirst'
  BY DEF RejectExpired, Deliverable, ClaimIsFirst
<1>5. OneOutcome'
  BY DEF RejectExpired, Deliverable, OneOutcome
<1>6. OwnerHasClaimed'
  BY DEF RejectExpired, Deliverable, OwnerHasClaimed
<1>7. OutcomeStands'
  BY DEF RejectExpired, Deliverable, OutcomeStands
<1>8. SuccessHasRun'
  BY DEF RejectExpired, Deliverable, SuccessHasRun
<1>9. QED
  BY <1>1, <1>2, <1>3, <1>4, <1>5, <1>6, <1>7, <1>8

LEMMA ValidationOutageKeeps ==
  ASSUME Protocol, NEW c \in Copy, ValidationOutage(c)
  PROVE  Protocol'
<1>. USE ConstantsAssumption DEF Protocol, queue, worker
<1>1. TypeOK'
  BY DEF ValidationOutage, Deliverable, Fault, QueuedHasDeliveries,
     CopyState, TypeOK
<1>2. QueuedHasDeliveries'
  BY DEF ValidationOutage, Deliverable, Fault, TypeOK, QueuedHasDeliveries
<1>3. CallsFitSteps'
  BY DEF ValidationOutage, Deliverable, Fault, CallsFitSteps
<1>4. ClaimIsFirst'
  BY DEF ValidationOutage, Deliverable, Fault, ClaimIsFirst
<1>5. OneOutcome'
  BY DEF ValidationOutage, Deliverable, Fault, OneOutcome
<1>6. OwnerHasClaimed'
  BY DEF ValidationOutage, Deliverable, Fault, OwnerHasClaimed
<1>7. OutcomeStands'
  BY DEF ValidationOutage, Deliverable, Fault, OutcomeStands
<1>8. SuccessHasRun'
  BY DEF ValidationOutage, Deliverable, Fault, SuccessHasRun
<1>9. QED
  BY <1>1, <1>2, <1>3, <1>4, <1>5, <1>6, <1>7, <1>8

LEMMA DeliverKeeps ==
  ASSUME Protocol, NEW c \in Copy, NEW i \in Invocation, Deliver(c, i)
  PROVE  Protocol'
<1>. USE ConstantsAssumption DEF Protocol, queue, worker
<1>a. pc' = [pc EXCEPT ![i] = "claiming"] /\ net' = net \cup {Call("claim", i)}
  BY DEF Deliver
<1>b. /\ Call("claim", i) \in Request /\ Call("claim", i).op = "claim"
      /\ Call("claim", i).inv = i /\ Call("claim", i).awaited
  BY CallType DEF Op
<1>1. TypeOK'
  BY <1>a, <1>b DEF Deliver, Deliverable, Fresh, QueuedHasDeliveries,
     CopyState, Step, Waiting, TypeOK
<1>2. QueuedHasDeliveries'
  BY <1>a, <1>b DEF Deliver, Deliverable, Fresh, TypeOK, QueuedHasDeliveries
<1>3. CallsFitSteps'
  BY <1>a, <1>b DEF Deliver, Deliverable, Fresh, TypeOK, StepsOf, Request,
     CallsFitSteps
<1>4. ClaimIsFirst'
  BY <1>a, <1>b DEF Deliver, Deliverable, Fresh, TypeOK, ClaimIsFirst
<1>5. OneOutcome'
  BY <1>a, <1>b DEF Deliver, Deliverable, Fresh, Settling, OneOutcome
<1>6. OwnerHasClaimed'
  BY <1>a, <1>b DEF Deliver, Deliverable, Fresh, TypeOK, OwnerHasClaimed
<1>7. OutcomeStands'
  BY <1>a, <1>b DEF Deliver, Deliverable, Fresh, TypeOK, Terminal,
     OutcomeStands
<1>8. SuccessHasRun'
  BY <1>a, <1>b DEF Deliver, Deliverable, Fresh, TypeOK, SuccessHasRun
<1>9. QED
  BY <1>1, <1>2, <1>3, <1>4, <1>5, <1>6, <1>7, <1>8

LEMMA LoseAbandonedKeeps ==
  ASSUME Protocol, NEW r \in net, LoseAbandoned(r)
  PROVE  Protocol'
<1>. USE ConstantsAssumption DEF Protocol, queue, worker
<1>1. TypeOK'
  BY DEF LoseAbandoned, TypeOK
<1>2. QueuedHasDeliveries'
  BY DEF LoseAbandoned, QueuedHasDeliveries
<1>3. CallsFitSteps'
  BY DEF LoseAbandoned, CallsFitSteps
<1>4. ClaimIsFirst'
  BY DEF LoseAbandoned, ClaimIsFirst
<1>5. OneOutcome'
  BY DEF LoseAbandoned, OneOutcome
<1>6. OwnerHasClaimed'
  BY DEF LoseAbandoned, OwnerHasClaimed
<1>7. OutcomeStands'
  BY DEF LoseAbandoned, OutcomeStands
<1>8. SuccessHasRun'
  BY DEF LoseAbandoned, SuccessHasRun
<1>9. QED
  BY <1>1, <1>2, <1>3, <1>4, <1>5, <1>6, <1>7, <1>8

(* The claim fails in transport: the invocation ends, its claim may follow.  *)
LEMMA LostClaimKeeps ==
  ASSUME Protocol, NEW r \in net, TransportError(r), r.op = "claim"
  PROVE  Protocol'
<1>. USE ConstantsAssumption DEF Protocol
<1>a. /\ r \in Request /\ r.inv \in Invocation /\ msg[r.inv] \in Copy /\ r.awaited
  BY DEF TransportError, TypeOK, Request
<1>b. /\ GivenUp(r) \in Request /\ GivenUp(r).op = r.op
      /\ GivenUp(r).inv = r.inv /\ ~GivenUp(r).awaited
  BY <1>a, GivenUpType
<1>d. /\ net' = (net \ {r}) \cup {GivenUp(r)}
      /\ pc' = [pc EXCEPT ![r.inv] = "idle"]
      /\ Retry(msg[r.inv], 0)
      /\ UNCHANGED <<rec, tries, ttl, msg, result, beat, ended, hbErr>>
      /\ faults' \in 0..MaxFaults
  BY <1>a DEF TransportError, Abandon, GivenUp, Finish, Fault, TypeOK
<1>q. /\ copy' \in [Copy -> CopyState] /\ delay' \in [Copy -> 0..Lease]
      /\ QueuedHasDeliveries'
  BY <1>a, <1>d, RetryKeepsQueue
<1>1. TypeOK'
  <2>1. net' \subseteq Request
    BY <1>a, <1>b, <1>d DEF TypeOK
  <2>2. pc' \in [Invocation -> Step] /\ hbErr' \in [Invocation -> HbError]
    BY <1>a, <1>d DEF TypeOK, Step, Waiting, HbError
  <2>3. QED
    BY <2>1, <2>2, <1>d, <1>q DEF TypeOK
<1>2. QueuedHasDeliveries'
  BY <1>q
<1>3. CallsFitSteps'
  <2>. SUFFICES ASSUME NEW q \in net' PROVE pc'[q.inv] \in StepsOf(q)
    BY DEF CallsFitSteps, StepsOf
  <2>. q \in Request
    BY <1>1 DEF TypeOK
  <2>1. CASE q = GivenUp(r)
    BY <2>1, <1>a, <1>b, <1>d DEF CallsFitSteps, StepsOf, TypeOK, Step,
       Waiting
  <2>2. CASE q \in net \ {r} /\ q.inv = r.inv
    <3>1. pc[r.inv] \in StepsOf(r) /\ pc[r.inv] \in StepsOf(q)
      BY <2>2 DEF CallsFitSteps
    <3>2. q.op # "claim" /\ r.op # "claim"
      BY <2>2 DEF ClaimIsFirst
    <3>3. /\ ~(r.op \in Settling /\ q.op \in Settling)
          /\ ~(r.op = "release" /\ q.op = "release")
      BY <2>2 DEF OneOutcome
    <3>4. pc'[q.inv] = "idle"
      BY <2>2, <1>a, <1>d DEF TypeOK
    <3>5. q.op \in Op
      BY DEF Request
    <3>6. QED
      BY <2>2, <3>1, <3>2, <3>3, <3>4, <3>5, <1>a
         DEF StepsOf, Settling, Op, Step, Waiting
  <2>3. CASE q \in net \ {r} /\ q.inv # r.inv
    BY <2>3, <1>a, <1>d DEF CallsFitSteps, StepsOf, TypeOK, Request
  <2>5. QED
    BY <2>1, <2>2, <2>3, <1>d
<1>4. ClaimIsFirst'
  BY <1>a, <1>b, <1>d DEF ClaimIsFirst, CallsFitSteps, StepsOf, TypeOK,
     Request
<1>5. OneOutcome'
  BY <1>a, <1>b, <1>d DEF OneOutcome, Settling, CallsFitSteps, StepsOf, TypeOK
<1>6. OwnerHasClaimed'
  BY <1>a, <1>b, <1>d DEF OwnerHasClaimed, TypeOK
<1>7. OutcomeStands'
  BY <1>a, <1>b, <1>d DEF OutcomeStands, TypeOK, Terminal
<1>8. SuccessHasRun'
  BY <1>a, <1>b, <1>d DEF SuccessHasRun, TypeOK
<1>9. QED
  BY <1>1, <1>2, <1>3, <1>4, <1>5, <1>6, <1>7, <1>8

(* A renewal fails in transport.                                           *)
LEMMA LostRenewKeeps ==
  ASSUME Protocol, NEW r \in net, TransportError(r), r.op = "renew"
  PROVE  Protocol'
<1>. USE ConstantsAssumption DEF Protocol
<1>a. /\ r \in Request /\ r.inv \in Invocation /\ msg[r.inv] \in Copy /\ r.awaited
  BY DEF TransportError, TypeOK, Request
<1>b. /\ GivenUp(r) \in Request /\ GivenUp(r).op = r.op
      /\ GivenUp(r).inv = r.inv /\ ~GivenUp(r).awaited
  BY <1>a, GivenUpType
<1>d. /\ net' = (net \ {r}) \cup {GivenUp(r)}
      /\ hbErr' = [hbErr EXCEPT ![r.inv] = "upstream"]
      /\ UNCHANGED <<copy, delay>>
      /\ UNCHANGED <<rec, tries, ttl, msg, result, beat, ended, pc>>
      /\ faults' \in 0..MaxFaults
  BY <1>a DEF TransportError, Abandon, GivenUp, Finish, Fault, TypeOK
<1>1. TypeOK'
  <2>1. net' \subseteq Request
    BY <1>a, <1>b, <1>d DEF TypeOK
  <2>2. pc' \in [Invocation -> Step] /\ hbErr' \in [Invocation -> HbError]
    BY <1>a, <1>d DEF TypeOK, Step, Waiting, HbError
  <2>3. QED
    BY <2>1, <2>2, <1>d DEF TypeOK
<1>2. QueuedHasDeliveries'
  BY <1>d DEF QueuedHasDeliveries
<1>3. CallsFitSteps'
  <2>. SUFFICES ASSUME NEW q \in net' PROVE pc'[q.inv] \in StepsOf(q)
    BY DEF CallsFitSteps, StepsOf
  <2>. q \in Request
    BY <1>1 DEF TypeOK
  <2>1. CASE q = GivenUp(r)
    BY <2>1, <1>a, <1>b, <1>d DEF CallsFitSteps, StepsOf, TypeOK, Step,
       Waiting
  <2>2. CASE q \in net \ {r} /\ q.inv = r.inv
    <3>1. pc[r.inv] \in StepsOf(r) /\ pc[r.inv] \in StepsOf(q)
      BY <2>2 DEF CallsFitSteps
    <3>2. q.op # "claim" /\ r.op # "claim"
      BY <2>2 DEF ClaimIsFirst
    <3>3. /\ ~(r.op \in Settling /\ q.op \in Settling)
          /\ ~(r.op = "release" /\ q.op = "release")
      BY <2>2 DEF OneOutcome
    <3>4. pc'[q.inv] = pc[q.inv]
      BY <2>2, <1>a, <1>d DEF TypeOK
    <3>5. q.op \in Op
      BY DEF Request
    <3>6. QED
      BY <2>2, <3>1, <3>2, <3>3, <3>4, <3>5, <1>a
         DEF StepsOf, Settling, Op, Step, Waiting
  <2>3. CASE q \in net \ {r} /\ q.inv # r.inv
    BY <2>3, <1>a, <1>d DEF CallsFitSteps, StepsOf, TypeOK, Request
  <2>5. QED
    BY <2>1, <2>2, <2>3, <1>d
<1>4. ClaimIsFirst'
  BY <1>a, <1>b, <1>d DEF ClaimIsFirst, CallsFitSteps, StepsOf, TypeOK,
     Request
<1>5. OneOutcome'
  BY <1>a, <1>b, <1>d DEF OneOutcome, Settling, CallsFitSteps, StepsOf, TypeOK
<1>6. OwnerHasClaimed'
  BY <1>a, <1>b, <1>d DEF OwnerHasClaimed, TypeOK
<1>7. OutcomeStands'
  BY <1>a, <1>b, <1>d DEF OutcomeStands, TypeOK, Terminal
<1>8. SuccessHasRun'
  BY <1>a, <1>b, <1>d DEF SuccessHasRun, TypeOK
<1>9. QED
  BY <1>1, <1>2, <1>3, <1>4, <1>5, <1>6, <1>7, <1>8

(* The report of success fails in transport: the claim is released.         *)
LEMMA LostSuccessKeeps ==
  ASSUME Protocol, NEW r \in net, TransportError(r), r.op = "succeed"
  PROVE  Protocol'
<1>. USE ConstantsAssumption DEF Protocol
<1>a. /\ r \in Request /\ r.inv \in Invocation /\ msg[r.inv] \in Copy /\ r.awaited
  BY DEF TransportError, TypeOK, Request
<1>b. /\ GivenUp(r) \in Request /\ GivenUp(r).op = r.op
      /\ GivenUp(r).inv = r.inv /\ ~GivenUp(r).awaited
  BY <1>a, GivenUpType
<1>c. /\ Call("release", r.inv) \in Request /\ Call("release", r.inv).op = "release"
      /\ Call("release", r.inv).inv = r.inv /\ Call("release", r.inv).awaited
  BY <1>a, CallType DEF Op
<1>d. /\ net' = (net \ {r}) \cup {GivenUp(r), Call("release", r.inv)}
      /\ pc' = [pc EXCEPT ![r.inv] = "releasing"]
      /\ UNCHANGED <<copy, delay>>
      /\ UNCHANGED <<rec, tries, ttl, msg, result, beat, ended, hbErr>>
      /\ faults' \in 0..MaxFaults
  BY <1>a DEF TransportError, Abandon, GivenUp, Finish, Fault, TypeOK
<1>1. TypeOK'
  <2>1. net' \subseteq Request
    BY <1>a, <1>b, <1>c, <1>d DEF TypeOK
  <2>2. pc' \in [Invocation -> Step] /\ hbErr' \in [Invocation -> HbError]
    BY <1>a, <1>d DEF TypeOK, Step, Waiting, HbError
  <2>3. QED
    BY <2>1, <2>2, <1>d DEF TypeOK
<1>2. QueuedHasDeliveries'
  BY <1>d DEF QueuedHasDeliveries
<1>3. CallsFitSteps'
  <2>. SUFFICES ASSUME NEW q \in net' PROVE pc'[q.inv] \in StepsOf(q)
    BY DEF CallsFitSteps, StepsOf
  <2>. q \in Request
    BY <1>1 DEF TypeOK
  <2>1. CASE q = GivenUp(r)
    BY <2>1, <1>a, <1>b, <1>d DEF CallsFitSteps, StepsOf, TypeOK, Step,
       Waiting
  <2>2. CASE q \in net \ {r} /\ q.inv = r.inv
    <3>1. pc[r.inv] \in StepsOf(r) /\ pc[r.inv] \in StepsOf(q)
      BY <2>2 DEF CallsFitSteps
    <3>2. q.op # "claim" /\ r.op # "claim"
      BY <2>2 DEF ClaimIsFirst
    <3>3. /\ ~(r.op \in Settling /\ q.op \in Settling)
          /\ ~(r.op = "release" /\ q.op = "release")
      BY <2>2 DEF OneOutcome
    <3>4. pc'[q.inv] = "releasing"
      BY <2>2, <1>a, <1>d DEF TypeOK
    <3>5. q.op \in Op
      BY DEF Request
    <3>6. QED
      BY <2>2, <3>1, <3>2, <3>3, <3>4, <3>5, <1>a
         DEF StepsOf, Settling, Op, Step, Waiting
  <2>3. CASE q \in net \ {r} /\ q.inv # r.inv
    BY <2>3, <1>a, <1>d DEF CallsFitSteps, StepsOf, TypeOK, Request
  <2>4. CASE q = Call("release", r.inv)
    BY <2>4, <1>a, <1>c, <1>d DEF StepsOf, TypeOK
  <2>5. QED
    BY <2>1, <2>2, <2>3, <2>4, <1>d
<1>4. ClaimIsFirst'
  BY <1>a, <1>b, <1>c, <1>d DEF ClaimIsFirst, CallsFitSteps, StepsOf, TypeOK,
     Request
<1>5. OneOutcome'
  BY <1>a, <1>b, <1>c, <1>d DEF OneOutcome, Settling, CallsFitSteps, StepsOf,
     TypeOK
<1>6. OwnerHasClaimed'
  BY <1>a, <1>b, <1>c, <1>d DEF OwnerHasClaimed, TypeOK
<1>7. OutcomeStands'
  BY <1>a, <1>b, <1>c, <1>d DEF OutcomeStands, TypeOK, Terminal
<1>8. SuccessHasRun'
  BY <1>a, <1>b, <1>c, <1>d DEF SuccessHasRun, TypeOK
<1>9. QED
  BY <1>1, <1>2, <1>3, <1>4, <1>5, <1>6, <1>7, <1>8

(* A failure report or a release fails in transport.                        *)
LEMMA LostEndKeeps ==
  ASSUME Protocol, NEW r \in net, TransportError(r), r.op \in {"fail", "release"}
  PROVE  Protocol'
<1>. USE ConstantsAssumption DEF Protocol
<1>a. /\ r \in Request /\ r.inv \in Invocation /\ msg[r.inv] \in Copy /\ r.awaited
  BY DEF TransportError, TypeOK, Request
<1>b. /\ GivenUp(r) \in Request /\ GivenUp(r).op = r.op
      /\ GivenUp(r).inv = r.inv /\ ~GivenUp(r).awaited
  BY <1>a, GivenUpType
<1>d. /\ net' = (net \ {r}) \cup {GivenUp(r)}
      /\ pc' = [pc EXCEPT ![r.inv] = "idle"]
      /\ Retry(msg[r.inv], 0)
      /\ UNCHANGED <<rec, tries, ttl, msg, result, beat, ended, hbErr>>
      /\ faults' \in 0..MaxFaults
  BY <1>a DEF TransportError, Abandon, GivenUp, Finish, Fault, TypeOK
<1>q. /\ copy' \in [Copy -> CopyState] /\ delay' \in [Copy -> 0..Lease]
      /\ QueuedHasDeliveries'
  BY <1>a, <1>d, RetryKeepsQueue
<1>1. TypeOK'
  <2>1. net' \subseteq Request
    BY <1>a, <1>b, <1>d DEF TypeOK
  <2>2. pc' \in [Invocation -> Step] /\ hbErr' \in [Invocation -> HbError]
    BY <1>a, <1>d DEF TypeOK, Step, Waiting, HbError
  <2>3. QED
    BY <2>1, <2>2, <1>d, <1>q DEF TypeOK
<1>2. QueuedHasDeliveries'
  BY <1>q
<1>3. CallsFitSteps'
  <2>. SUFFICES ASSUME NEW q \in net' PROVE pc'[q.inv] \in StepsOf(q)
    BY DEF CallsFitSteps, StepsOf
  <2>. q \in Request
    BY <1>1 DEF TypeOK
  <2>1. CASE q = GivenUp(r)
    BY <2>1, <1>a, <1>b, <1>d DEF CallsFitSteps, StepsOf, TypeOK, Step,
       Waiting
  <2>2. CASE q \in net \ {r} /\ q.inv = r.inv
    <3>1. pc[r.inv] \in StepsOf(r) /\ pc[r.inv] \in StepsOf(q)
      BY <2>2 DEF CallsFitSteps
    <3>2. q.op # "claim" /\ r.op # "claim"
      BY <2>2 DEF ClaimIsFirst
    <3>3. /\ ~(r.op \in Settling /\ q.op \in Settling)
          /\ ~(r.op = "release" /\ q.op = "release")
      BY <2>2 DEF OneOutcome
    <3>4. pc'[q.inv] = "idle"
      BY <2>2, <1>a, <1>d DEF TypeOK
    <3>5. q.op \in Op
      BY DEF Request
    <3>6. QED
      BY <2>2, <3>1, <3>2, <3>3, <3>4, <3>5, <1>a
         DEF StepsOf, Settling, Op, Step, Waiting
  <2>3. CASE q \in net \ {r} /\ q.inv # r.inv
    BY <2>3, <1>a, <1>d DEF CallsFitSteps, StepsOf, TypeOK, Request
  <2>5. QED
    BY <2>1, <2>2, <2>3, <1>d
<1>4. ClaimIsFirst'
  BY <1>a, <1>b, <1>d DEF ClaimIsFirst, CallsFitSteps, StepsOf, TypeOK,
     Request
<1>5. OneOutcome'
  BY <1>a, <1>b, <1>d DEF OneOutcome, Settling, CallsFitSteps, StepsOf, TypeOK
<1>6. OwnerHasClaimed'
  BY <1>a, <1>b, <1>d DEF OwnerHasClaimed, TypeOK
<1>7. OutcomeStands'
  BY <1>a, <1>b, <1>d DEF OutcomeStands, TypeOK, Terminal
<1>8. SuccessHasRun'
  BY <1>a, <1>b, <1>d DEF SuccessHasRun, TypeOK
<1>9. QED
  BY <1>1, <1>2, <1>3, <1>4, <1>5, <1>6, <1>7, <1>8

LEMMA HeartbeatKeeps ==
  ASSUME Protocol, NEW i \in Invocation, Heartbeat(i)
  PROVE  Protocol'
<1>. USE ConstantsAssumption DEF Protocol
<1>a. /\ pc[i] = "processing"
      /\ net' = net \/ net' = net \cup {Call("renew", i)}
      /\ beat' = [beat EXCEPT ![i] = 0]
      /\ UNCHANGED <<rec, copy, tries, delay, ttl, pc, msg, result, hbErr,
                     faults, ended>>
  BY DEF Heartbeat, queue
<1>b. /\ Call("renew", i) \in Request /\ Call("renew", i).op = "renew"
      /\ Call("renew", i).inv = i /\ Call("renew", i).awaited
  BY CallType DEF Op
<1>1. TypeOK'
  BY <1>a, <1>b DEF TypeOK
<1>2. QueuedHasDeliveries'
  BY <1>a DEF QueuedHasDeliveries
<1>3. CallsFitSteps'
  BY <1>a, <1>b DEF CallsFitSteps, StepsOf
<1>4. ClaimIsFirst'
  <2>1. \A r \in net : r.op = "claim" => r.inv # i
    BY <1>a DEF CallsFitSteps, StepsOf
  <2>2. QED
    BY <1>a, <1>b, <2>1 DEF ClaimIsFirst
<1>5. OneOutcome'
  BY <1>a, <1>b DEF OneOutcome, Settling
<1>6. OwnerHasClaimed'
  BY <1>a DEF OwnerHasClaimed
<1>7. OutcomeStands'
  BY <1>a, <1>b DEF OutcomeStands
<1>8. SuccessHasRun'
  BY <1>a, <1>b DEF SuccessHasRun
<1>9. QED
  BY <1>1, <1>2, <1>3, <1>4, <1>5, <1>6, <1>7, <1>8

LEMMA ProcessEndsKeeps ==
  ASSUME Protocol, NEW i \in Invocation, NEW how \in Outcome, ProcessEnds(i, how)
  PROVE  Protocol'
<1>. USE ConstantsAssumption DEF Protocol
<1>a. /\ pc[i] = "processing"
      /\ pc' = [pc EXCEPT ![i] = "draining"]
      /\ result' = [result EXCEPT ![i] = how]
      /\ ended' = ended \cup {how}
      /\ faults' \in 0..MaxFaults
      /\ UNCHANGED <<rec, copy, tries, delay, ttl, msg, beat, hbErr, net>>
  BY DEF ProcessEnds, Fault, TypeOK, queue
<1>1. TypeOK'
  BY <1>a DEF TypeOK, Step
<1>2. QueuedHasDeliveries'
  BY <1>a DEF QueuedHasDeliveries
<1>3. CallsFitSteps'
  <2>. SUFFICES ASSUME NEW r \in net PROVE pc'[r.inv] \in StepsOf(r)
    BY <1>a DEF CallsFitSteps, StepsOf
  <2>1. r \in Request /\ pc[r.inv] \in StepsOf(r)
    BY DEF CallsFitSteps, TypeOK
  <2>2. CASE r.inv = i
    <3>1. pc'[r.inv] = "draining" /\ r.op \in Op
      BY <2>1, <2>2, <1>a DEF TypeOK, Request
    <3>2. QED
      BY <2>1, <2>2, <3>1, <1>a DEF StepsOf, Op, Step, Waiting
  <2>3. CASE r.inv # i
    BY <2>1, <2>3, <1>a DEF TypeOK, Request
  <2>4. QED
    BY <2>2, <2>3
<1>4. ClaimIsFirst'
  BY <1>a DEF ClaimIsFirst
<1>5. OneOutcome'
  BY <1>a DEF OneOutcome
<1>6. OwnerHasClaimed'
  BY <1>a DEF OwnerHasClaimed, TypeOK
<1>7. OutcomeStands'
  BY <1>a DEF OutcomeStands, TypeOK, Terminal
<1>8. SuccessHasRun'
  BY <1>a DEF SuccessHasRun, TypeOK
<1>9. QED
  BY <1>1, <1>2, <1>3, <1>4, <1>5, <1>6, <1>7, <1>8

(* What settles the claim follows from how the process run ended.          *)
LEMMA SettleCall ==
  ASSUME TypeOK, NEW i \in Invocation
  PROVE  /\ SettlingStep(i) \in {"completing", "releasing", "failing"}
         /\ SettlingStep(i) = "completing" => result[i] = "ok"
         /\ CallOf("completing") = "succeed"
         /\ CallOf("releasing") = "release"
         /\ CallOf("failing") = "fail"
  BY DEF TypeOK, SettlingStep, Outcome, HbError, CallOf

LEMMA SettleKeeps ==
  ASSUME Protocol, NEW i \in Invocation, Settle(i)
  PROVE  Protocol'
<1>. USE ConstantsAssumption DEF Protocol
<1>. DEFINE step == SettlingStep(i)
            call == Call(CallOf(step), i)
<1>a. /\ pc[i] = "draining" /\ ~Beating(i)
      /\ pc' = [pc EXCEPT ![i] = step]
      /\ net' = net \cup {call}
      /\ ForgetLocals(i)
      /\ UNCHANGED <<rec, copy, tries, delay, ttl, msg, faults, ended>>
  BY DEF Settle, queue
<1>b. /\ step \in {"completing", "releasing", "failing"}
      /\ step = "completing" => result[i] = "ok"
      /\ CallOf("completing") = "succeed"
      /\ CallOf("releasing") = "release"
      /\ CallOf("failing") = "fail"
  BY SettleCall
<1>c. /\ call \in Request /\ call.op = CallOf(step)
      /\ call.inv = i /\ call.awaited
  <2>1. CallOf(step) \in Op
    BY <1>b DEF Op
  <2>2. QED
    BY <2>1, CallType
<1>d. \A r \in net : r.inv = i => r.op = "renew" /\ ~r.awaited
  BY <1>a DEF CallsFitSteps, StepsOf, TypeOK, Request, Op, Beating
<1>. HIDE DEF step, call
<1>1. TypeOK'
  BY <1>a, <1>b, <1>c DEF TypeOK, Step, Waiting, ForgetLocals, Outcome,
     HbError
<1>2. QueuedHasDeliveries'
  BY <1>a DEF QueuedHasDeliveries
<1>3. CallsFitSteps'
  <2>. SUFFICES ASSUME NEW r \in net' PROVE pc'[r.inv] \in StepsOf(r)
    BY DEF CallsFitSteps, StepsOf
  <2>1. CASE r = call
    <3>1. pc'[i] = step
      BY <1>a DEF TypeOK
    <3>2. QED
      BY <2>1, <3>1, <1>b, <1>c DEF StepsOf
  <2>2. CASE r \in net /\ r.inv = i
    <3>1. r.op = "renew" /\ ~r.awaited /\ pc'[r.inv] = step
      BY <2>2, <1>a, <1>d DEF TypeOK
    <3>2. QED
      BY <3>1, <1>b DEF StepsOf, Step, Waiting
  <2>3. CASE r \in net /\ r.inv # i
    BY <2>3, <1>a DEF CallsFitSteps, TypeOK, Request
  <2>4. QED
    BY <2>1, <2>2, <2>3, <1>a
<1>4. ClaimIsFirst'
  BY <1>a, <1>b, <1>c, <1>d DEF ClaimIsFirst
<1>5. OneOutcome'
  BY <1>a, <1>b, <1>c, <1>d DEF OneOutcome, Settling
<1>6. OwnerHasClaimed'
  BY <1>a, <1>b DEF OwnerHasClaimed, TypeOK
<1>7. OutcomeStands'
  BY <1>a, <1>b, <1>c DEF OutcomeStands, TypeOK, Terminal
<1>8. SuccessHasRun'
  <2>1. call.op = "succeed" => "ok" \in ended
    BY <1>a, <1>b, <1>c DEF SuccessHasRun
  <2>2. \A j \in Invocation : pc'[j] = "draining" => j # i /\ pc[j] = "draining"
    BY <1>a, <1>b DEF TypeOK
  <2>3. \A j \in Invocation : j # i => result'[j] = result[j]
    BY <1>a DEF ForgetLocals, TypeOK
  <2>4. QED
    BY <2>1, <2>2, <2>3, <1>a DEF SuccessHasRun
<1>9. QED
  BY <1>1, <1>2, <1>3, <1>4, <1>5, <1>6, <1>7, <1>8

LEMMA CrashKeeps ==
  ASSUME Protocol, NEW i \in Invocation, Crash(i)
  PROVE  Protocol'
<1>. USE ConstantsAssumption DEF Protocol
<1>. DEFINE Left(r) == IF r.inv = i THEN GivenUp(r) ELSE r
<1>a. /\ pc' = [pc EXCEPT ![i] = "idle"]
      /\ net' = {Left(r) : r \in net}
      /\ ForgetLocals(i)
      /\ Retry(msg[i], 0)
      /\ faults' \in 0..MaxFaults
      /\ UNCHANGED <<rec, tries, ttl, msg, ended>>
  BY DEF Crash, Finish, GivenUp, Fault, TypeOK
<1>b. \A r \in net : /\ Left(r) \in Request /\ Left(r).op = r.op
                     /\ Left(r).inv = r.inv
                     /\ r.inv = i => ~Left(r).awaited
                     /\ r.inv # i => Left(r) = r
  BY GivenUpType DEF TypeOK
<1>c. ASSUME NEW q \in net'
      PROVE  \E r \in net : q = Left(r)
  BY <1>a
<1>q. /\ copy' \in [Copy -> CopyState] /\ delay' \in [Copy -> 0..Lease]
      /\ QueuedHasDeliveries'
  <2>1. msg[i] \in Copy /\ 0 \in 0..Lease
    BY DEF TypeOK
  <2>2. QED
    BY <1>a, <2>1, RetryKeepsQueue
<1>. HIDE DEF Left
<1>1. TypeOK'
  <2>1. net' \subseteq Request
    BY <1>a, <1>b
  <2>2. /\ pc' \in [Invocation -> Step] /\ hbErr' \in [Invocation -> HbError]
        /\ result' \in [Invocation -> Outcome]
        /\ beat' \in [Invocation -> 0..HeartbeatInterval]
    BY <1>a DEF TypeOK, Step, HbError, Outcome, ForgetLocals
  <2>3. QED
    BY <2>1, <2>2, <1>a, <1>q DEF TypeOK
<1>2. QueuedHasDeliveries'
  BY <1>q
<1>3. CallsFitSteps'
  <2>. SUFFICES ASSUME NEW r \in net PROVE pc'[r.inv] \in StepsOf(Left(r))
    BY <1>a, <1>b DEF CallsFitSteps
  <2>1. CASE r.inv = i
    <3>1. pc'[r.inv] = "idle" /\ ~Left(r).awaited /\ Left(r).op \in Op
      BY <2>1, <1>a, <1>b DEF TypeOK, Request
    <3>2. QED
      BY <3>1 DEF StepsOf, Op, Step, Waiting
  <2>2. CASE r.inv # i
    <3>1. Left(r) = r /\ pc'[r.inv] = pc[r.inv]
      BY <2>2, <1>a, <1>b DEF TypeOK, Request
    <3>2. QED
      BY <3>1 DEF CallsFitSteps
  <2>3. QED
    BY <2>1, <2>2
<1>4. ClaimIsFirst'
  BY <1>a, <1>b DEF ClaimIsFirst
<1>5. OneOutcome'
  BY <1>a, <1>b DEF OneOutcome, Settling
<1>6. OwnerHasClaimed'
  BY <1>a DEF OwnerHasClaimed, TypeOK
<1>7. OutcomeStands'
  BY <1>a, <1>b DEF OutcomeStands, TypeOK, Terminal
<1>8. SuccessHasRun'
  BY <1>a, <1>b DEF SuccessHasRun, TypeOK, ForgetLocals
<1>9. QED
  BY <1>1, <1>2, <1>3, <1>4, <1>5, <1>6, <1>7, <1>8

(* Time only ages the calls and shortens the lease.                        *)
LEMMA TickRecord ==
  ASSUME TypeOK, Tick
  PROVE  /\ rec' \in RecordSet
         /\ rec'.state = rec.state /\ rec'.token = rec.token
         /\ rec.state # "claimed" => rec' = rec
<1>1. rec \in RecordSet
  BY DEF TypeOK, RecordSet
<1>2. CASE rec.state = "claimed"
  <2>1. rec' = [rec EXCEPT !.lease = Down(@, -MaxDelay)]
    BY <1>2 DEF Tick
  <2>2. Down(rec.lease, -MaxDelay) \in -MaxDelay..Lease
    BY <1>1, ConstantsAssumption DEF RecordSet, Down
  <2>3. QED
    BY <1>1, <1>2, <2>1, <2>2 DEF RecordSet
<1>3. CASE rec.state # "claimed"
  BY <1>1, <1>3 DEF Tick
<1>4. QED
  BY <1>2, <1>3

LEMMA TickKeeps ==
  ASSUME Protocol, Tick
  PROVE  Protocol'
<1>. USE ConstantsAssumption DEF Protocol
<1>. DEFINE Aged(r) == [r EXCEPT !.age = @ + 1]
<1>a. /\ net' = {Aged(r) : r \in net}
      /\ \A r \in net : r.age < MaxDelay
      /\ UNCHANGED <<copy, tries, pc, msg, result, hbErr, faults, ended>>
  BY DEF Tick
<1>b. \A r \in net : /\ Aged(r) \in Request /\ Aged(r).op = r.op
                     /\ Aged(r).inv = r.inv /\ Aged(r).awaited = r.awaited
  BY <1>a DEF TypeOK, Request
<1>c. /\ rec' \in RecordSet
      /\ rec'.state = rec.state /\ rec'.token = rec.token
      /\ rec.state # "claimed" => rec' = rec
  BY TickRecord
<1>. HIDE DEF Aged
<1>1. TypeOK'
  <2>1. net' \subseteq Request
    BY <1>a, <1>b
  <2>2. delay' \in [Copy -> 0..Lease]
    BY DEF Tick, TypeOK, Down
  <2>3. ttl' \in [Copy -> -1..ContextTTL]
    BY DEF Tick, TypeOK, Down
  <2>4. beat' \in [Invocation -> 0..HeartbeatInterval]
    BY DEF Tick, TypeOK
  <2>5. QED
    BY <2>1, <2>2, <2>3, <2>4, <1>a, <1>c DEF TypeOK, RecordSet
<1>2. QueuedHasDeliveries'
  BY <1>a DEF QueuedHasDeliveries
<1>3. CallsFitSteps'
  <2>1. \A r \in net : StepsOf(Aged(r)) = StepsOf(r)
    BY <1>b DEF StepsOf
  <2>2. QED
    BY <1>a, <1>b, <2>1 DEF CallsFitSteps
<1>4. ClaimIsFirst'
  BY <1>a, <1>b, <1>c DEF ClaimIsFirst
<1>5. OneOutcome'
  BY <1>a, <1>b DEF OneOutcome, Settling
<1>6. OwnerHasClaimed'
  BY <1>a, <1>c DEF OwnerHasClaimed
<1>7. OutcomeStands'
  BY <1>a, <1>b, <1>c DEF OutcomeStands, Terminal
<1>8. SuccessHasRun'
  BY <1>a, <1>b, <1>c DEF SuccessHasRun
<1>9. QED
  BY <1>1, <1>2, <1>3, <1>4, <1>5, <1>6, <1>7, <1>8

-----------------------------------------------------------------------------
(* The store executes a call.                                              *)

(* Where the answer takes the invocation: nowhere when it no longer waits, *)
(* or when it is a renewal; otherwise into its run, or to its end.         *)
MovesOn(r) ==
  /\ pc' \in [Invocation -> Step]
  /\ \A j \in Invocation : j # r.inv => pc'[j] = pc[j]
  /\ \/ (~r.awaited \/ r.op = "renew") /\ pc'[r.inv] = pc[r.inv]
     \/ r.awaited /\ r.op # "renew" /\ pc'[r.inv] = "idle"
     \/ r.awaited /\ r.op = "claim" /\ pc'[r.inv] = "processing"

LEMMA ExecutionKeepsCalls ==
  ASSUME Protocol, NEW r \in net, net' = net \ {r}, MovesOn(r)
  PROVE  CallsFitSteps'
<1>. USE DEF Protocol
<1>. SUFFICES ASSUME NEW q \in net \ {r} PROVE pc'[q.inv] \in StepsOf(q)
  BY DEF CallsFitSteps
<1>1. /\ q \in Request /\ r \in Request /\ q.op \in Op /\ r.op \in Op
      /\ q.inv \in Invocation
  BY DEF TypeOK, Request
<1>2. CASE q.inv # r.inv
  BY <1>1, <1>2 DEF MovesOn, CallsFitSteps
<1>3. CASE q.inv = r.inv
  <2>1. pc[r.inv] \in StepsOf(r) /\ pc[r.inv] \in StepsOf(q)
    BY <1>3 DEF CallsFitSteps
  <2>2. q.op # "claim" /\ r.op # "claim"
    BY <1>3 DEF ClaimIsFirst
  <2>3. /\ ~(r.op \in Settling /\ q.op \in Settling)
        /\ ~(r.op = "release" /\ q.op = "release")
    BY <1>3 DEF OneOutcome
  <2>4. CASE pc'[r.inv] = pc[r.inv]
    BY <1>3, <2>1, <2>4
  <2>5. CASE r.awaited /\ r.op # "renew" /\ pc'[r.inv] = "idle"
    BY <1>1, <1>3, <2>1, <2>2, <2>3, <2>5 DEF StepsOf, Settling, Op, Step,
       Waiting
  <2>6. QED
    BY <2>2, <2>4, <2>5 DEF MovesOn
<1>4. QED
  BY <1>2, <1>3

LEMMA ExecutionKeepsFencing ==
  ASSUME Protocol, NEW r \in net, net' = net \ {r}, MovesOn(r),
         rec' = AfterCall(r), UNCHANGED <<result, ended>>
  PROVE  /\ ClaimIsFirst' /\ OneOutcome' /\ OwnerHasClaimed'
         /\ OutcomeStands' /\ SuccessHasRun'
<1>. USE ConstantsAssumption DEF Protocol
<1>a. /\ r \in Request /\ r.op \in Op /\ r.inv \in Invocation
      /\ pc[r.inv] \in StepsOf(r)
  BY DEF TypeOK, Request, CallsFitSteps
<1>b. RecordSteps(r)
  BY RecordStep
<1>c. rec.token \in Invocation \cup {NoOne} /\ rec.state \in RecState
  BY DEF TypeOK
<1>d. rec.state \in Terminal => rec.token \in Invocation
  BY DEF TypeOK, Terminal
<1>1. ClaimIsFirst'
  <2>1. \A q \in net \ {r} : q.op = "claim" => /\ rec.token # q.inv
                                               /\ q.inv # r.inv /\ q.inv # NoOne
    BY DEF ClaimIsFirst, TypeOK, Request
  <2>2. rec'.token \in {rec.token, r.inv, NoOne}
    BY <1>b DEF RecordSteps
  <2>3. QED
    BY <2>1, <2>2 DEF ClaimIsFirst
<1>2. OneOutcome'
  BY DEF OneOutcome
<1>3. OwnerHasClaimed'
  <2>1. \A i \in Invocation : pc'[i] = "claiming" =>
          pc[i] = "claiming" /\ (i = r.inv => ~r.awaited \/ r.op = "renew")
    BY DEF MovesOn
  <2>2. pc'[r.inv] # "claiming"
    BY <1>a, <2>1 DEF StepsOf, Op
  <2>3. rec'.token \in {rec.token, r.inv, NoOne}
    BY <1>b DEF RecordSteps
  <2>4. QED
    BY <2>1, <2>2, <2>3 DEF OwnerHasClaimed
<1>4. OutcomeStands'
  <2>1. CASE rec'.state = rec.state /\ rec'.token = rec.token
    <3>1. rec.state \in Terminal /\ rec.token = r.inv => r.op # "claim"
      BY DEF ClaimIsFirst
    <3>2. rec.state \in Terminal =>
            pc'[rec.token] = pc[rec.token] \/ pc'[rec.token] = "idle"
      BY <1>d, <3>1 DEF MovesOn
    <3>3. rec.state \in Terminal => rec'.lease = 0
      BY <1>b, <2>1 DEF RecordSteps, OutcomeStands, Terminal
    <3>4. QED
      BY <2>1, <3>2, <3>3 DEF OutcomeStands, Terminal
  <2>2. CASE rec'.state \notin Terminal
    BY <2>2 DEF OutcomeStands, Terminal
  <2>3. CASE /\ r.op = "succeed" /\ rec'.state = "succeeded"
             /\ rec'.token = r.inv /\ rec'.lease = 0
    <3>1. \A q \in net \ {r} : q.inv = r.inv => q.op # "fail"
      BY <2>3 DEF OneOutcome, Settling
    <3>2. pc'[r.inv] \in {"idle", "releasing", "completing"}
      BY <1>a, <2>3 DEF MovesOn, StepsOf
    <3>3. QED
      BY <2>3, <3>1, <3>2 DEF OutcomeStands
  <2>4. CASE /\ r.op = "fail" /\ rec'.state = "failed_terminal"
             /\ rec'.token = r.inv /\ rec'.lease = 0
    <3>1. \A q \in net \ {r} : q.inv = r.inv => q.op # "succeed"
      BY <2>4 DEF OneOutcome, Settling
    <3>2. pc'[r.inv] \in {"idle", "failing"}
      BY <1>a, <2>4 DEF MovesOn, StepsOf
    <3>3. QED
      BY <2>4, <3>1, <3>2 DEF OutcomeStands
  <2>5. QED
    BY <1>b, <2>1, <2>2, <2>3, <2>4 DEF RecordSteps, Terminal
<1>5. SuccessHasRun'
  <2>1. rec'.state = "succeeded" => rec.state = "succeeded" \/ r.op = "succeed"
    BY <1>b DEF RecordSteps
  <2>2. \A j \in Invocation : pc'[j] = "draining" => pc[j] = "draining"
    BY DEF MovesOn
  <2>3. QED
    BY <2>1, <2>2 DEF SuccessHasRun
<1>6. QED
  BY <1>1, <1>2, <1>3, <1>4, <1>5

LEMMA ExecuteAbandonedKeeps ==
  ASSUME Protocol, NEW r \in net, ExecuteAbandoned(r)
  PROVE  Protocol'
<1>. USE DEF Protocol
<1>1. /\ net' = net \ {r} /\ ~r.awaited /\ rec' = AfterCall(r) /\ r \in Request
      /\ UNCHANGED <<copy, tries, delay, ttl, pc, msg, result, beat, hbErr,
                     faults, ended>>
  BY DEF ExecuteAbandoned, queue, worker, TypeOK
<1>2. MovesOn(r)
  BY <1>1 DEF MovesOn, TypeOK
<1>3. rec' \in RecordSet /\ (rec'.state = "none" <=> rec'.token = NoOne)
  BY <1>1, RecordType
<1>4. TypeOK'
  BY <1>1, <1>3 DEF TypeOK, RecordSet
<1>5. QueuedHasDeliveries'
  BY <1>1 DEF QueuedHasDeliveries
<1>6. CallsFitSteps'
  BY <1>1, <1>2, ExecutionKeepsCalls
<1>7. QED
  BY <1>1, <1>2, <1>4, <1>5, <1>6, ExecutionKeepsFencing

(* An answer that is taken: the call is gone, and the queue is untouched,  *)
(* acknowledged or asked to retry.                                         *)
Disposes(c) == \/ UNCHANGED <<copy, delay>>
               \/ Ack(c)
               \/ \E ticks \in 0..Lease : Retry(c, ticks)

LEMMA DisposalKeepsQueue ==
  ASSUME TypeOK, QueuedHasDeliveries, NEW c \in Copy, Disposes(c), UNCHANGED tries
  PROVE  /\ copy' \in [Copy -> CopyState]
         /\ delay' \in [Copy -> 0..Lease]
         /\ QueuedHasDeliveries'
<1>1. CASE UNCHANGED <<copy, delay>>
  BY <1>1 DEF TypeOK, QueuedHasDeliveries
<1>2. CASE Ack(c)
  BY <1>2, AckKeepsQueue
<1>3. CASE \E ticks \in 0..Lease : Retry(c, ticks)
  BY <1>3, RetryKeepsQueue
<1>4. QED
  BY <1>1, <1>2, <1>3 DEF Disposes

LEMMA AnswerKeeps ==
  ASSUME Protocol, NEW r \in net, rec' = AfterCall(r), net' = net \ {r},
         MovesOn(r), Disposes(msg[r.inv]),
         beat' \in [Invocation -> 0..HeartbeatInterval],
         hbErr' \in [Invocation -> HbError],
         UNCHANGED <<tries, ttl, msg, result, faults, ended>>
  PROVE  Protocol'
<1>. USE DEF Protocol
<1>1. r \in Request /\ msg[r.inv] \in Copy
  BY DEF TypeOK, Request
<1>2. rec' \in RecordSet /\ (rec'.state = "none" <=> rec'.token = NoOne)
  BY <1>1, RecordType
<1>3. /\ copy' \in [Copy -> CopyState] /\ delay' \in [Copy -> 0..Lease]
      /\ QueuedHasDeliveries'
  BY <1>1, DisposalKeepsQueue
<1>4. TypeOK'
  BY <1>2, <1>3 DEF TypeOK, RecordSet, MovesOn
<1>5. CallsFitSteps'
  BY ExecutionKeepsCalls
<1>6. QED
  BY <1>3, <1>4, <1>5, ExecutionKeepsFencing

(* A success that is refused: the record stays as it is, and the           *)
(* invocation reports a failure instead.                                   *)
LEMMA RefusedSuccessKeeps ==
  ASSUME Protocol, NEW r \in net, ExecuteAwaited(r), r.op = "succeed",
         ~(rec.state # "none" /\ rec.token = r.inv)
  PROVE  Protocol'
<1>. USE ConstantsAssumption DEF Protocol
<1>. DEFINE call == Call("fail", r.inv)
<1>a. /\ r \in Request /\ r.inv \in Invocation /\ r.awaited
      /\ pc[r.inv] = "completing"
  BY DEF ExecuteAwaited, TypeOK, Request, CallsFitSteps, StepsOf
<1>b. /\ call \in Request /\ call.op = "fail" /\ call.inv = r.inv /\ call.awaited
  BY <1>a, CallType DEF Op
<1>c. rec' = rec
  BY DEF ExecuteAwaited, AfterCall, AfterComplete
<1>d. /\ pc' = [pc EXCEPT ![r.inv] = "failing"]
      /\ net' = (net \ {r}) \cup {call}
      /\ UNCHANGED <<copy, tries, delay, ttl, msg, result, beat, hbErr, faults,
                     ended>>
  BY DEF ExecuteAwaited, SucceedAnswered
<1>e. rec.state \in Terminal => rec.token # r.inv
  BY DEF Terminal
<1>f. ASSUME NEW q \in net \ {r}, q.inv = r.inv
      PROVE  q.op = "renew" /\ ~q.awaited
  <2>1. pc[r.inv] \in StepsOf(q) /\ q.op \in Op
    BY <1>f DEF CallsFitSteps, TypeOK, Request
  <2>2. q.op # "succeed"
    BY <1>f DEF OneOutcome, Settling
  <2>3. QED
    BY <1>a, <2>1, <2>2 DEF StepsOf, Op
<1>. HIDE DEF call
<1>1. TypeOK'
  BY <1>a, <1>b, <1>c, <1>d DEF TypeOK, Step, Waiting
<1>2. QueuedHasDeliveries'
  BY <1>d DEF QueuedHasDeliveries
<1>3. CallsFitSteps'
  <2>. SUFFICES ASSUME NEW q \in net' PROVE pc'[q.inv] \in StepsOf(q)
    BY DEF CallsFitSteps
  <2>1. CASE q = call
    BY <2>1, <1>a, <1>b, <1>d DEF StepsOf, TypeOK
  <2>2. CASE q \in net \ {r} /\ q.inv = r.inv
    BY <2>2, <1>a, <1>d, <1>f DEF StepsOf, TypeOK, Step, Waiting
  <2>3. CASE q \in net \ {r} /\ q.inv # r.inv
    BY <2>3, <1>d DEF CallsFitSteps, TypeOK, Request
  <2>4. QED
    BY <2>1, <2>2, <2>3, <1>d
<1>4. ClaimIsFirst'
  BY <1>b, <1>c, <1>d, <1>f DEF ClaimIsFirst
<1>5. OneOutcome'
  BY <1>b, <1>d, <1>f DEF OneOutcome, Settling
<1>6. OwnerHasClaimed'
  BY <1>a, <1>c, <1>d DEF OwnerHasClaimed, TypeOK
<1>7. OutcomeStands'
  <2>1. rec.state \in Terminal => pc'[rec.token] = pc[rec.token]
    BY <1>d, <1>e DEF TypeOK, Terminal
  <2>2. QED
    BY <2>1, <1>b, <1>c, <1>d, <1>e DEF OutcomeStands, Terminal
<1>8. SuccessHasRun'
  BY <1>a, <1>b, <1>c, <1>d DEF SuccessHasRun, TypeOK
<1>9. QED
  BY <1>1, <1>2, <1>3, <1>4, <1>5, <1>6, <1>7, <1>8

LEMMA ExecuteAwaitedKeeps ==
  ASSUME Protocol, NEW r \in net, ExecuteAwaited(r)
  PROVE  Protocol'
<1>. USE ConstantsAssumption DEF Protocol
<1>a. /\ r \in Request /\ r.inv \in Invocation /\ r.awaited /\ r.op \in Op
      /\ rec' = AfterCall(r)
      /\ UNCHANGED <<tries, ttl, msg, result, faults, ended>>
  BY DEF ExecuteAwaited, TypeOK, Request
<1>b. 0 \in 0..Lease /\ (IF rec.lease > 0 THEN rec.lease ELSE 0) \in 0..Lease
  BY DEF TypeOK
<1>t. /\ beat \in [Invocation -> 0..HeartbeatInterval]
      /\ hbErr \in [Invocation -> HbError]
      /\ pc \in [Invocation -> Step]
  BY DEF TypeOK
<1>1. CASE r.op = "claim"
  <2>1. ClaimAnswered(r) /\ UNCHANGED hbErr
    BY <1>1 DEF ExecuteAwaited
  <2>2. net' = net \ {r}
    BY <2>1 DEF ClaimAnswered
  <2>3. Disposes(msg[r.inv])
    BY <2>1, <1>b DEF ClaimAnswered, Disposes, RetryAfterLease
  <2>4. MovesOn(r)
    BY <2>1, <1>1, <1>a, <1>t DEF ClaimAnswered, MovesOn, Finish, Step
  <2>5. beat' \in [Invocation -> 0..HeartbeatInterval]
    BY <2>1, <1>t DEF ClaimAnswered
  <2>6. QED
    BY <1>a, <1>t, <2>1, <2>2, <2>3, <2>4, <2>5, AnswerKeeps
<1>2. CASE r.op = "renew"
  <2>1. RenewAnswered(r) /\ UNCHANGED <<pc, beat, copy, delay>>
    BY <1>2 DEF ExecuteAwaited
  <2>2. net' = net \ {r} /\ hbErr' \in [Invocation -> HbError]
    BY <2>1, <1>t DEF RenewAnswered, HbError
  <2>3. Disposes(msg[r.inv])
    BY <2>1 DEF Disposes
  <2>4. MovesOn(r)
    BY <2>1, <1>2, <1>t DEF MovesOn
  <2>5. QED
    BY <1>a, <1>t, <2>1, <2>2, <2>3, <2>4, AnswerKeeps
<1>3. CASE r.op = "succeed" /\ rec.state # "none" /\ rec.token = r.inv
  <2>1. SucceedAnswered(r) /\ UNCHANGED <<beat, hbErr>>
    BY <1>3 DEF ExecuteAwaited
  <2>2. net' = net \ {r} /\ Finish(r.inv) /\ Ack(msg[r.inv])
    BY <2>1, <1>3 DEF SucceedAnswered
  <2>3. MovesOn(r)
    BY <2>2, <1>3, <1>a, <1>t DEF MovesOn, Finish, Step
  <2>4. QED
    BY <1>a, <1>t, <2>1, <2>2, <2>3, AnswerKeeps DEF Disposes
<1>4. CASE r.op = "succeed" /\ ~(rec.state # "none" /\ rec.token = r.inv)
  BY <1>4, RefusedSuccessKeeps
<1>5. CASE r.op \in {"fail", "release"}
  <2>1. UNCHANGED <<beat, hbErr>> /\ (FailAnswered(r) \/ ReleaseAnswered(r))
    BY <1>5 DEF ExecuteAwaited
  <2>2. net' = net \ {r} /\ Finish(r.inv)
    BY <2>1 DEF FailAnswered, ReleaseAnswered
  <2>3. Disposes(msg[r.inv])
    BY <2>1, <1>b DEF FailAnswered, ReleaseAnswered, Disposes
  <2>4. MovesOn(r)
    BY <2>2, <1>5, <1>a, <1>t DEF MovesOn, Finish, Step
  <2>5. QED
    BY <1>a, <1>t, <2>1, <2>2, <2>3, <2>4, AnswerKeeps
<1>6. QED
  BY <1>a, <1>1, <1>2, <1>3, <1>4, <1>5 DEF Op

-----------------------------------------------------------------------------
(* The invariant.                                                          *)

LEMMA ProtocolInit == Init => Protocol
<1>. SUFFICES ASSUME Init PROVE Protocol
  OBVIOUS
<1>. USE ConstantsAssumption DEF Init
<1>1. /\ rec \in RecordSet /\ (rec.state = "none" <=> rec.token = NoOne)
      /\ rec.state = "none" /\ rec.token = NoOne
  BY DEF NoRecord, RecordSet, RecState
<1>2. msg \in [Invocation -> Copy]
  BY DEF Init
<1>3. TypeOK
  BY <1>1, <1>2 DEF TypeOK, RecordSet, CopyState, Step, Outcome, HbError
<1>4. QueuedHasDeliveries
  BY DEF QueuedHasDeliveries
<1>5. CallsFitSteps /\ ClaimIsFirst /\ OneOutcome
  BY DEF CallsFitSteps, ClaimIsFirst, OneOutcome
<1>6. OwnerHasClaimed
  BY DEF OwnerHasClaimed
<1>7. OutcomeStands /\ SuccessHasRun
  BY <1>1 DEF OutcomeStands, SuccessHasRun, Terminal
<1>8. QED
  BY <1>3, <1>4, <1>5, <1>6, <1>7 DEF Protocol

LEMMA TransportErrorKeeps ==
  ASSUME Protocol, NEW r \in net, TransportError(r)
  PROVE  Protocol'
<1>1. r.op \in Op
  BY DEF Protocol, TypeOK, Request
<1>2. QED
  BY <1>1, LostClaimKeeps, LostRenewKeeps, LostSuccessKeeps, LostEndKeeps
     DEF Op

LEMMA StutterKeeps ==
  ASSUME Protocol, UNCHANGED vars
  PROVE  Protocol'
<1>. USE DEF Protocol, vars
<1>1. TypeOK' /\ QueuedHasDeliveries'
  BY DEF TypeOK, QueuedHasDeliveries
<1>2. CallsFitSteps' /\ ClaimIsFirst' /\ OneOutcome' /\ OwnerHasClaimed'
  BY DEF CallsFitSteps, ClaimIsFirst, OneOutcome, OwnerHasClaimed
<1>3. OutcomeStands' /\ SuccessHasRun'
  BY DEF OutcomeStands, SuccessHasRun
<1>4. QED
  BY <1>1, <1>2, <1>3

LEMMA ProtocolStep == Protocol /\ [Next]_vars => Protocol'
<1>. SUFFICES ASSUME Protocol, [Next]_vars PROVE Protocol'
  OBVIOUS
<1>1. CASE \E c \in Copy : RejectExpired(c) \/ ValidationOutage(c)
  BY <1>1, RejectExpiredKeeps, ValidationOutageKeeps
<1>2. CASE \E c \in Copy, i \in Invocation : Deliver(c, i)
  BY <1>2, DeliverKeeps
<1>3. CASE \E r \in net : \/ ExecuteAwaited(r) \/ ExecuteAbandoned(r)
                          \/ LoseAbandoned(r) \/ TransportError(r)
  BY <1>3, ExecuteAwaitedKeeps, ExecuteAbandonedKeeps, LoseAbandonedKeeps,
     TransportErrorKeeps
<1>4. CASE \E i \in Invocation : Heartbeat(i) \/ Settle(i) \/ Crash(i)
  BY <1>4, HeartbeatKeeps, SettleKeeps, CrashKeeps
<1>5. CASE \E i \in Invocation, how \in Outcome : ProcessEnds(i, how)
  BY <1>5, ProcessEndsKeeps
<1>6. CASE Tick
  BY <1>6, TickKeeps
<1>7. CASE UNCHANGED vars
  BY <1>7, StutterKeeps
<1>8. QED
  BY <1>1, <1>2, <1>3, <1>4, <1>5, <1>6, <1>7 DEF Next

(* The calls in flight and the record always fit the steps the invocations *)
(* are at (consumeTenantQueueMessage, DurableTenantStateStore).            *)
THEOREM ProtocolHolds == Spec => []Protocol
<1>1. QED
  BY ProtocolInit, ProtocolStep, PTL DEF Spec

(* Every variable stays in its type.                                       *)
THEOREM TypeCorrect == Spec => []TypeOK
<1>1. Protocol => TypeOK
  BY DEF Protocol
<1>2. QED
  BY <1>1, ProtocolHolds, PTL

(* A key recorded as succeeded was processed successfully: no failed run,  *)
(* late call or refused settlement records a success.                      *)
THEOREM SuccessIsOfARun == Spec => []SuccessIsReal
<1>1. Protocol => SuccessIsReal
  BY DEF Protocol, SuccessHasRun, SuccessIsReal
<1>2. QED
  BY <1>1, ProtocolHolds, PTL

-----------------------------------------------------------------------------
(* What a step may do to the record.                                       *)

(* Only a store call and the passing of time touch the record.             *)
LEMMA RecordChanges ==
  ASSUME [Next]_vars
  PROVE  \/ \E r \in net : rec' = AfterCall(r)
         \/ Tick
         \/ UNCHANGED rec
  BY DEF Next, vars, RejectExpired, ValidationOutage, Deliver, ExecuteAwaited,
         ExecuteAbandoned, LoseAbandoned, TransportError, Heartbeat, Settle,
         Crash, ProcessEnds

LEMMA SettledStep ==
  ASSUME Protocol, [Next]_vars, rec.state \in Terminal
  PROVE  rec' = rec
<1>. USE DEF Protocol
<1>1. rec \in RecordSet /\ rec.lease = 0
  BY DEF TypeOK, RecordSet, OutcomeStands
<1>2. ASSUME NEW r \in net, rec' = AfterCall(r)
      PROVE  rec' = rec
  <2>1. r \in Request /\ RecordSteps(r)
    BY RecordStep DEF TypeOK
  <2>2. r.op = "succeed" => ~(rec.state = "failed_terminal" /\ rec.token = r.inv)
    BY DEF OutcomeStands
  <2>3. r.op = "fail" => ~(rec.state = "succeeded" /\ rec.token = r.inv)
    BY DEF OutcomeStands
  <2>4. /\ rec'.state = rec.state /\ rec'.token = rec.token
        /\ rec'.lease = rec.lease
    BY <1>1, <1>2, <2>1, <2>2, <2>3 DEF RecordSteps, Terminal
  <2>5. rec' \in RecordSet
    BY <1>2, <2>1, RecordType
  <2>6. QED
    BY <1>1, <2>4, <2>5 DEF RecordSet
<1>3. Tick => rec' = rec
  BY TickRecord DEF Terminal
<1>4. QED
  BY <1>2, <1>3, RecordChanges

(* A settled claim keeps its outcome: no retry, reclaim, late completion   *)
(* or release touches it again (DurableTenantStateStore.complete does not  *)
(* look at the state it overwrites).                                       *)
THEOREM OutcomeIsFinal == Spec => TerminalIsFinal
<1>1. Protocol /\ [Next]_vars => [rec.state \in Terminal => rec' = rec]_vars
  BY SettledStep
<1>2. QED
  BY <1>1, ProtocolHolds, PTL DEF Spec, TerminalIsFinal

LEMMA OwnershipStep ==
  ASSUME Protocol, [Next]_vars, NEW i \in Invocation,
         Running(i), Owns(i), ~Owns(i)'
  PROVE  rec.lease <= 0 /\ rec'.state = "claimed"
<1>. USE DEF Protocol
<1>1. /\ pc[i] \in {"processing", "draining"}
      /\ rec.state = "claimed" /\ rec.token = i
      /\ ~(rec'.state = "claimed" /\ rec'.token = i)
  BY DEF Running, Owns
<1>2. ASSUME NEW r \in net, rec' = AfterCall(r)
      PROVE  rec.lease <= 0 /\ rec'.state = "claimed"
  <2>1. RecordSteps(r) /\ pc[r.inv] \in StepsOf(r)
    BY RecordStep DEF CallsFitSteps
  <2>2. r.inv = i => r.op \notin {"succeed", "fail", "release"}
    BY <1>1, <2>1 DEF StepsOf
  <2>3. QED
    BY <1>1, <1>2, <2>1, <2>2 DEF RecordSteps
<1>3. Tick => rec'.state = rec.state /\ rec'.token = rec.token
  BY TickRecord
<1>4. QED
  BY <1>1, <1>2, <1>3, RecordChanges

(* A running invocation loses its claim to a reclaimer only, and only once *)
(* its lease has run out (claim_token fencing).                            *)
THEOREM ClaimIsFenced == Spec => ClaimLostOnlyByExpiry
<1>1. Protocol /\ [Next]_vars =>
        [\A i \in Invocation : Running(i) /\ Owns(i) /\ ~Owns(i)'
           => rec.lease <= 0 /\ rec'.state = "claimed"]_vars
  BY OwnershipStep
<1>2. QED
  BY <1>1, ProtocolHolds, PTL DEF Spec, ClaimLostOnlyByExpiry

-----------------------------------------------------------------------------
(* What the execution of a message owes to time. Two claims of             *)
(* QueueExecution do not follow from the fencing by claim_token: that      *)
(* nothing is lost when every copy is acknowledged, and that an invocation *)
(* that lives keeps its claim. Both rest on how long a store call may take *)
(* and how often a lease is renewed, and say so in their assumptions.      *)

-----------------------------------------------------------------------------
(* Every acknowledged message is settled.                                  *)
(*                                                                         *)
(* Fencing alone does not carry this one: it speaks of the store calls     *)
(* that arrive late, and a late claim does harm when it takes the key for  *)
(* a copy that nobody will deliver again. What keeps that from happening   *)
(* is time: while a claim of an earlier delivery of a copy is in flight,   *)
(* the lease of the one that works on the copy has not run out.            *)

(* A store call is over before a lease is, and duplicates carry one        *)
(* context, as they do when the queue makes them of one message.           *)
CallsEndInTime == MaxDelay < Lease
OneContext     == \A c, d \in Copy : ContextOf[c] = ContextOf[d]

Active(i)  == pc[i] # "idle"
Working(i) == pc[i] \notin {"idle", "claiming"}

(* A copy is in the hands of one invocation at a time.                     *)
OneDelivery ==
  \A i \in Invocation : Active(i) =>
    /\ copy[msg[i]] = "delivered"
    /\ \A j \in Invocation : Active(j) /\ msg[j] = msg[i] => j = i

(* A claim of an earlier delivery of the copy that i was started for. It   *)
(* is older than every call of i.                                          *)
LateClaim(r, i) == r.op = "claim" /\ r.inv # i /\ msg[r.inv] = msg[i]

LateClaimsAreOlder ==
  \A i \in Invocation, r, q \in net :
    Active(i) /\ LateClaim(r, i) /\ q.inv = i => q.age <= r.age

(* Whoever works on the copy has a lease that ends a lease after the late  *)
(* claim was sent, or the key is settled.                                  *)
LeaseOutlivesLateClaims ==
  \A i \in Invocation, r \in net :
    Working(i) /\ LateClaim(r, i) =>
      rec.state \in Terminal \/ (Owns(i) /\ rec.lease + r.age >= Lease)

AckedClaimIsInert ==
  \A r \in net : r.op = "claim" /\ copy[msg[r.inv]] = "acked" =>
    rec.state \in Terminal

OwnerIsUnsettled == rec.state = "claimed" => copy[msg[rec.token]] # "acked"

(* The key is not claimed for a copy by any but the one that works on it.  *)
OwnerOfCopy ==
  \A i \in Invocation :
    rec.state = "claimed" /\ Working(i) /\ msg[rec.token] = msg[i] => rec.token = i

FreeIsUnsettled == rec.state = "none" => \E c \in Copy : copy[c] # "acked"

Delivery ==
  /\ OneDelivery
  /\ LateClaimsAreOlder
  /\ LeaseOutlivesLateClaims
  /\ AckedClaimIsInert
  /\ OwnerIsUnsettled
  /\ OwnerOfCopy
  /\ FreeIsUnsettled

LEMMA TypesOfCalls ==
  ASSUME TypeOK
  PROVE  /\ \A r \in net : /\ r.inv \in Invocation /\ msg[r.inv] \in Copy
                           /\ r.age \in 0..MaxDelay /\ r.op \in Op
         /\ rec.state \in RecState /\ rec.lease \in -MaxDelay..Lease
         /\ rec.state # "none" => rec.token \in Invocation
         /\ \A i \in Invocation : msg[i] \in Copy /\ pc[i] \in Step
  BY DEF TypeOK, Request

(* What most steps do to calls, invocations and copies: a call in flight   *)
(* stays, is given up or is a new one that is no claim; an invocation goes *)
(* on working or ends; a copy moves when its invocation ends, or from the  *)
(* queue, and is not acknowledged.                                         *)
CallsGoOn ==
  \A q \in net' :
    \/ \E r \in net : q.op = r.op /\ q.inv = r.inv /\ q.age = r.age
    \/ q.op # "claim" /\ q.age = 0

WorkersGoOn ==
  \A j \in Invocation :
    pc'[j] = pc[j] \/ pc'[j] = "idle" \/ (Working(j) /\ Working(j)')

CopiesMove ==
  \A c \in Copy :
    \/ copy'[c] = copy[c]
    \/ copy[c] = "queued"
    \/ \E i \in Invocation : msg[i] = c /\ Active(i) /\ ~Active(i)'

NothingIsAcked == \A c \in Copy : copy'[c] = "acked" => copy[c] = "acked"

LEMMA DeliveriesGoOn ==
  ASSUME TypeOK, Delivery, CallsGoOn, WorkersGoOn, CopiesMove, msg' = msg
  PROVE  OneDelivery' /\ LateClaimsAreOlder'
<1>1. \A i \in Invocation : Active(i)' => Active(i)
  BY DEF WorkersGoOn, Active, Working
<1>2. OneDelivery'
  <2>. SUFFICES ASSUME NEW i \in Invocation, Active(i)'
                PROVE  /\ copy'[msg[i]] = "delivered"
                       /\ \A j \in Invocation : Active(j)' /\ msg[j] = msg[i] => j = i
    BY DEF OneDelivery
  <2>1. Active(i) /\ copy[msg[i]] = "delivered" /\ msg[i] \in Copy
    BY <1>1, TypesOfCalls DEF Delivery, OneDelivery
  <2>2. \A j \in Invocation : Active(j) /\ msg[j] = msg[i] => j = i
    BY <2>1 DEF Delivery, OneDelivery
  <2>3. QED
    BY <1>1, <2>1, <2>2 DEF CopiesMove
<1>3. LateClaimsAreOlder'
  <2>. SUFFICES ASSUME NEW i \in Invocation, NEW r \in net', NEW q \in net',
                       Active(i)', LateClaim(r, i)', q.inv = i
                PROVE  q.age <= r.age
    BY DEF LateClaimsAreOlder
  <2>1. Active(i) /\ LateClaim(r, i)
    BY <1>1 DEF LateClaim
  <2>2. PICK r0 \in net : r.op = r0.op /\ r.inv = r0.inv /\ r.age = r0.age
    BY <2>1 DEF CallsGoOn, LateClaim
  <2>3. LateClaim(r0, i)
    BY <2>1, <2>2 DEF LateClaim
  <2>4. CASE \E q0 \in net : q.op = q0.op /\ q.inv = q0.inv /\ q.age = q0.age
    BY <2>1, <2>2, <2>3, <2>4 DEF Delivery, LateClaimsAreOlder
  <2>5. CASE q.age = 0
    BY <2>2, <2>5, TypesOfCalls
  <2>6. QED
    BY <2>4, <2>5 DEF CallsGoOn
<1>4. QED
  BY <1>2, <1>3

(* The record is left alone and nothing acknowledged.                      *)
LEMMA QuietKeepsDelivery ==
  ASSUME TypeOK, Delivery, CallsGoOn, WorkersGoOn, CopiesMove, NothingIsAcked,
         msg' = msg, rec' = rec
  PROVE  Delivery'
<1>1. OneDelivery' /\ LateClaimsAreOlder'
  BY DeliveriesGoOn
<1>2. \A i \in Invocation : Working(i)' => Working(i)
  BY DEF WorkersGoOn, Working
<1>3. ASSUME NEW r \in net', r.op = "claim"
      PROVE  \E s \in net : s.op = "claim" /\ s.inv = r.inv /\ s.age = r.age
  BY <1>3 DEF CallsGoOn
<1>4. LeaseOutlivesLateClaims'
  <2>. SUFFICES ASSUME NEW i \in Invocation, NEW r \in net',
                       Working(i)', LateClaim(r, i)'
                PROVE  rec.state \in Terminal \/ (Owns(i) /\ rec.lease + r.age >= Lease)
    BY DEF LeaseOutlivesLateClaims, Owns
  <2>1. PICK s \in net : s.op = "claim" /\ s.inv = r.inv /\ s.age = r.age
    BY <1>3 DEF LateClaim
  <2>2. LateClaim(s, i)
    BY <2>1 DEF LateClaim
  <2>3. QED
    BY <1>2, <2>1, <2>2 DEF Delivery, LeaseOutlivesLateClaims
<1>5. AckedClaimIsInert'
  BY <1>3, TypesOfCalls DEF Delivery, AckedClaimIsInert, NothingIsAcked
<1>6. OwnerIsUnsettled'
  BY TypesOfCalls DEF Delivery, OwnerIsUnsettled, NothingIsAcked
<1>7. OwnerOfCopy'
  BY <1>2 DEF Delivery, OwnerOfCopy
<1>8. FreeIsUnsettled'
  BY DEF Delivery, FreeIsUnsettled, NothingIsAcked
<1>9. QED
  BY <1>1, <1>4, <1>5, <1>6, <1>7, <1>8 DEF Delivery

(* Once the key is settled, only the deliveries matter.                    *)
LEMMA SettledKeepsDelivery ==
  ASSUME TypeOK, Delivery, CallsGoOn, WorkersGoOn, CopiesMove, msg' = msg,
         rec'.state \in Terminal
  PROVE  Delivery'
<1>1. OneDelivery' /\ LateClaimsAreOlder'
  BY DeliveriesGoOn
<1>2. QED
  BY <1>1 DEF Delivery, LeaseOutlivesLateClaims, AckedClaimIsInert,
     OwnerIsUnsettled, OwnerOfCopy, FreeIsUnsettled, Terminal

(* A call leaves the net when it is executed or lost.                      *)
LEMMA RemovalGoesOn ==
  ASSUME NEW r \in net, net' = net \ {r}
  PROVE  CallsGoOn
  BY DEF CallsGoOn

LEMMA DeliverKeepsDelivery ==
  ASSUME Protocol, Delivery, NEW c \in Copy, NEW i \in Invocation, Deliver(c, i)
  PROVE  Delivery'
<1>. USE DEF Protocol
<1>a. /\ copy[c] = "queued" /\ pc[i] = "idle" /\ rec.token # i
      /\ \A r \in net : r.inv # i
      /\ copy' = [copy EXCEPT ![c] = "delivered"]
      /\ pc' = [pc EXCEPT ![i] = "claiming"] /\ msg' = [msg EXCEPT ![i] = c]
      /\ net' = net \cup {Call("claim", i)} /\ rec' = rec
  BY DEF Deliver, Deliverable, Fresh
<1>b. /\ Call("claim", i).op = "claim" /\ Call("claim", i).inv = i
      /\ Call("claim", i).age = 0
  BY DEF Call
<1>c. /\ pc \in [Invocation -> Step] /\ msg \in [Invocation -> Copy]
      /\ copy \in [Copy -> CopyState]
  BY DEF TypeOK
<1>d. \A j \in Invocation : Active(j) => msg[j] # c
  BY <1>a DEF Delivery, OneDelivery
<1>e. \A j \in Invocation \ {i} : msg'[j] = msg[j] /\ pc'[j] = pc[j]
  BY <1>a, <1>c
<1>f. pc'[i] = "claiming" /\ msg'[i] = c /\ copy'[c] = "delivered"
  BY <1>a, <1>c
<1>1. OneDelivery'
  BY <1>a, <1>c, <1>d, <1>e, <1>f DEF Delivery, OneDelivery, Active
<1>2. LateClaimsAreOlder'
  <2>. SUFFICES ASSUME NEW j \in Invocation, NEW r \in net', NEW q \in net',
                       Active(j)', LateClaim(r, j)', q.inv = j
                PROVE  q.age <= r.age
    BY DEF LateClaimsAreOlder
  <2>1. CASE j = i
    <3>1. q = Call("claim", i) /\ r \in net
      BY <1>a, <1>b, <2>1 DEF LateClaim
    <3>2. QED
      BY <1>b, <3>1, TypesOfCalls
  <2>2. CASE j # i
    <3>1. Active(j) /\ q \in net
      BY <1>a, <1>b, <1>e, <2>2 DEF Active
    <3>2. r \in net
      BY <1>a, <1>b, <1>d, <1>e, <1>f, <2>2, <3>1 DEF LateClaim
    <3>3. LateClaim(r, j)
      BY <1>a, <1>e, <2>2, <3>2, TypesOfCalls DEF LateClaim
    <3>4. QED
      BY <3>1, <3>2, <3>3 DEF Delivery, LateClaimsAreOlder
  <2>3. QED
    BY <2>1, <2>2
<1>3. LeaseOutlivesLateClaims'
  <2>. SUFFICES ASSUME NEW j \in Invocation, NEW r \in net',
                       Working(j)', LateClaim(r, j)'
                PROVE  rec.state \in Terminal \/ (Owns(j) /\ rec.lease + r.age >= Lease)
    BY <1>a DEF LeaseOutlivesLateClaims, Owns
  <2>1. j # i /\ Working(j) /\ Active(j)
    BY <1>e, <1>f DEF Working, Active
  <2>2. r \in net
    BY <1>a, <1>b, <1>d, <1>e, <1>f, <2>1 DEF LateClaim
  <2>3. LateClaim(r, j)
    BY <1>a, <1>e, <2>1, <2>2, TypesOfCalls DEF LateClaim
  <2>4. QED
    BY <2>1, <2>2, <2>3 DEF Delivery, LeaseOutlivesLateClaims
<1>4. AckedClaimIsInert'
  <2>. SUFFICES ASSUME NEW r \in net', r.op = "claim", copy'[msg'[r.inv]] = "acked"
                PROVE  rec.state \in Terminal
    BY <1>a DEF AckedClaimIsInert
  <2>1. r \in net
    BY <1>a, <1>b, <1>f
  <2>2. msg'[r.inv] = msg[r.inv] /\ msg[r.inv] \in Copy
    BY <1>a, <1>e, <2>1, TypesOfCalls
  <2>3. copy[msg[r.inv]] = "acked"
    BY <1>a, <1>c, <2>2
  <2>4. QED
    BY <2>1, <2>3 DEF Delivery, AckedClaimIsInert
<1>5. OwnerIsUnsettled'
  <2>1. rec.state = "claimed" => msg'[rec.token] = msg[rec.token] /\ msg[rec.token] \in Copy
    BY <1>a, <1>e, TypesOfCalls
  <2>2. QED
    BY <1>a, <1>c, <2>1 DEF Delivery, OwnerIsUnsettled
<1>6. OwnerOfCopy'
  <2>1. rec.state = "claimed" => msg'[rec.token] = msg[rec.token]
    BY <1>a, <1>e, TypesOfCalls
  <2>2. \A j \in Invocation : Working(j)' => Working(j) /\ msg'[j] = msg[j]
    BY <1>e, <1>f DEF Working
  <2>3. QED
    BY <1>a, <2>1, <2>2 DEF Delivery, OwnerOfCopy
<1>7. FreeIsUnsettled'
  BY <1>a, <1>f DEF FreeIsUnsettled
<1>8. QED
  BY <1>1, <1>2, <1>3, <1>4, <1>5, <1>6, <1>7 DEF Delivery

(* Time: what is left of the lease shrinks as the late claim ages, and     *)
(* cannot have run out while the claim is in flight.                       *)
LEMMA TickKeepsDelivery ==
  ASSUME CallsEndInTime, Protocol, Delivery, Tick
  PROVE  Delivery'
<1>. USE ConstantsAssumption DEF Protocol
<1>. DEFINE Aged(r) == [r EXCEPT !.age = @ + 1]
<1>a. net' = {Aged(r) : r \in net} /\ UNCHANGED <<copy, pc, msg>>
  BY DEF Tick
<1>b. \A r \in net : /\ Aged(r).op = r.op /\ Aged(r).inv = r.inv
                     /\ Aged(r).age = r.age + 1 /\ r.age \in 0..MaxDelay
  BY DEF TypeOK, Request
<1>c. rec'.state = rec.state /\ rec'.token = rec.token
  BY TickRecord
<1>d. rec.state = "claimed" /\ rec.lease > -MaxDelay => rec'.lease = rec.lease - 1
  BY DEF Tick, Down, TypeOK
<1>. HIDE DEF Aged
<1>1. OneDelivery'
  BY <1>a DEF Delivery, OneDelivery, Active
<1>2. LateClaimsAreOlder'
  <2>. SUFFICES ASSUME NEW i \in Invocation, NEW r \in net, NEW q \in net,
                       Active(i), LateClaim(r, i), q.inv = i
                PROVE  Aged(q).age <= Aged(r).age
    BY <1>a, <1>b DEF LateClaimsAreOlder, LateClaim, Active
  <2>1. QED
    BY <1>b DEF Delivery, LateClaimsAreOlder
<1>3. LeaseOutlivesLateClaims'
  <2>. SUFFICES ASSUME NEW i \in Invocation, NEW r \in net, Working(i),
                       LateClaim(r, i), rec.state \notin Terminal
                PROVE  Owns(i) /\ rec'.lease + Aged(r).age >= Lease
    BY <1>a, <1>b, <1>c DEF LeaseOutlivesLateClaims, LateClaim, Working, Owns
  <2>1. Owns(i) /\ rec.lease + r.age >= Lease
    BY DEF Delivery, LeaseOutlivesLateClaims
  <2>2. rec.lease \in -MaxDelay..Lease
    BY TypesOfCalls
  <2>3. QED
    BY <1>b, <1>d, <2>1, <2>2 DEF CallsEndInTime, Owns
<1>4. AckedClaimIsInert'
  BY <1>a, <1>b, <1>c DEF Delivery, AckedClaimIsInert
<1>5. OwnerIsUnsettled' /\ OwnerOfCopy' /\ FreeIsUnsettled'
  BY <1>a, <1>c DEF Delivery, OwnerIsUnsettled, OwnerOfCopy, FreeIsUnsettled, Working
<1>6. QED
  BY <1>1, <1>2, <1>3, <1>4, <1>5 DEF Delivery

-----------------------------------------------------------------------------
(* The store executes a call.                                              *)

(* A claim in flight, seen by the one that works on the same copy.         *)
LEMMA WorkerIsSafe ==
  ASSUME CallsEndInTime, Protocol, Delivery, NEW i \in Invocation, NEW s \in net,
         Working(i), LateClaim(s, i), NEW r \in net, r.op = "claim"
  PROVE  ~Claimable(r)
<1>. USE ConstantsAssumption DEF Protocol
<1>1. rec.state \in Terminal \/ (rec.state = "claimed" /\ rec.lease + s.age >= Lease)
  BY DEF Delivery, LeaseOutlivesLateClaims, Owns
<1>2. s.age \in 0..MaxDelay /\ r.age \in 0..MaxDelay /\ rec.lease \in -MaxDelay..Lease
  BY TypesOfCalls
<1>3. QED
  BY <1>1, <1>2 DEF CallsEndInTime, Claimable, Expired, Terminal

(* A claim that takes the key, awaited or late.                            *)
LEMMA TakingKeepsDelivery ==
  ASSUME CallsEndInTime, Protocol, Delivery, NEW r \in net, r.op = "claim",
         Claimable(r), rec' = ClaimedBy(r), net' = net \ {r},
         UNCHANGED <<copy, msg>>,
         \/ UNCHANGED pc
         \/ r.awaited /\ pc' = [pc EXCEPT ![r.inv] = "processing"]
  PROVE  Delivery'
<1>. USE ConstantsAssumption DEF Protocol
<1>a. /\ r.inv \in Invocation /\ msg[r.inv] \in Copy /\ r.age \in 0..MaxDelay
      /\ rec.state \notin Terminal
      /\ pc[r.inv] = IF r.awaited THEN "claiming" ELSE "idle"
  BY TypesOfCalls DEF CallsFitSteps, StepsOf, Claimable, Expired, Terminal
<1>b. rec'.state = "claimed" /\ rec'.token = r.inv /\ rec'.lease = Lease - r.age
  BY DEF ClaimedBy
<1>c. copy[msg[r.inv]] # "acked"
  BY <1>a DEF Delivery, AckedClaimIsInert
<1>d. \A j \in Invocation : j # r.inv => pc'[j] = pc[j]
  BY DEF TypeOK
<1>e. \A i \in Invocation : Active(i)' => Active(i)
  BY <1>a, <1>d DEF Active
<1>1. OneDelivery'
  BY <1>e DEF Delivery, OneDelivery
<1>2. LateClaimsAreOlder'
  BY <1>e DEF Delivery, LateClaimsAreOlder, LateClaim
<1>3. LeaseOutlivesLateClaims'
  <2>. SUFFICES ASSUME NEW i \in Invocation, NEW s \in net \ {r},
                       Working(i)', LateClaim(s, i)
                PROVE  i = r.inv /\ Lease - r.age + s.age >= Lease
    BY <1>b DEF LeaseOutlivesLateClaims, LateClaim, Owns
  <2>1. i = r.inv
    <3>. SUFFICES ASSUME i # r.inv PROVE FALSE
      OBVIOUS
    <3>1. Working(i)
      BY <1>d DEF Working
    <3>2. QED
      BY <3>1, WorkerIsSafe
  <2>2. Active(i)
    BY <1>e, <2>1 DEF Working, Active
  <2>3. s.age >= r.age /\ s.age \in 0..MaxDelay
    BY <2>1, <2>2, TypesOfCalls DEF Delivery, LateClaimsAreOlder
  <2>4. QED
    BY <1>a, <2>1, <2>3
<1>4. AckedClaimIsInert'
  BY <1>a DEF Delivery, AckedClaimIsInert
<1>5. OwnerIsUnsettled'
  BY <1>b, <1>c DEF OwnerIsUnsettled
<1>6. OwnerOfCopy'
  <2>. SUFFICES ASSUME NEW i \in Invocation, Working(i)', msg[r.inv] = msg[i], i # r.inv
                PROVE  FALSE
    BY <1>b DEF OwnerOfCopy
  <2>1. Working(i)
    BY <1>d DEF Working
  <2>2. LateClaim(r, i)
    BY DEF LateClaim
  <2>3. QED
    BY <2>1, <2>2, WorkerIsSafe
<1>7. FreeIsUnsettled'
  BY <1>b DEF FreeIsUnsettled
<1>8. QED
  BY <1>1, <1>2, <1>3, <1>4, <1>5, <1>6, <1>7 DEF Delivery

(* A renewal only moves the lease, for its owner.                          *)
LEMMA RenewalKeepsDelivery ==
  ASSUME CallsEndInTime, Protocol, Delivery, NEW r \in net, r.op = "renew",
         rec' = AfterRenew(r), net' = net \ {r}, UNCHANGED <<copy, msg, pc>>
  PROVE  Delivery'
<1>. USE ConstantsAssumption DEF Protocol
<1>a. rec'.state = rec.state /\ rec'.token = rec.token
  BY DEF AfterRenew, TypeOK
<1>b. rec'.lease = rec.lease \/ (rec.token = r.inv /\ rec'.lease = Lease - r.age)
  BY DEF AfterRenew, Renewable, TypeOK
<1>1. OneDelivery' /\ LateClaimsAreOlder'
  BY DEF Delivery, OneDelivery, LateClaimsAreOlder, LateClaim, Active
<1>2. LeaseOutlivesLateClaims'
  <2>. SUFFICES ASSUME NEW i \in Invocation, NEW s \in net \ {r}, Working(i),
                       LateClaim(s, i), rec.state \notin Terminal
                PROVE  Owns(i) /\ rec'.lease + s.age >= Lease
    BY <1>a DEF LeaseOutlivesLateClaims, LateClaim, Working, Owns
  <2>1. Owns(i) /\ rec.lease + s.age >= Lease
    BY DEF Delivery, LeaseOutlivesLateClaims
  <2>2. r.inv = i => r.age <= s.age
    BY DEF Delivery, LateClaimsAreOlder, Working, Active
  <2>3. QED
    BY <1>b, <2>1, <2>2, TypesOfCalls DEF Owns
<1>3. AckedClaimIsInert' /\ OwnerIsUnsettled' /\ OwnerOfCopy' /\ FreeIsUnsettled'
  BY <1>a DEF Delivery, AckedClaimIsInert, OwnerIsUnsettled, OwnerOfCopy,
     FreeIsUnsettled, Working
<1>4. QED
  BY <1>1, <1>2, <1>3 DEF Delivery

(* A release gives the key back, for a copy that is delivered again.       *)
LEMMA ReleaseKeepsDelivery ==
  ASSUME Protocol, Delivery, NEW r \in net, r.op = "release",
         rec.state = "claimed", rec.token = r.inv, rec' = NoRecord,
         CallsGoOn, WorkersGoOn, CopiesMove, NothingIsAcked, msg' = msg,
         pc'[r.inv] = "idle"
  PROVE  Delivery'
<1>. USE DEF Protocol
<1>1. OneDelivery' /\ LateClaimsAreOlder'
  BY DeliveriesGoOn
<1>2. LeaseOutlivesLateClaims'
  <2>. SUFFICES ASSUME NEW i \in Invocation, NEW s \in net', Working(i)',
                       LateClaim(s, i)
                PROVE  FALSE
    BY DEF LeaseOutlivesLateClaims, LateClaim
  <2>1. PICK s0 \in net : s0.op = "claim" /\ s0.inv = s.inv /\ s0.age = s.age
    BY DEF CallsGoOn, LateClaim
  <2>2. Working(i) /\ LateClaim(s0, i) /\ i # r.inv
    BY <2>1 DEF WorkersGoOn, Working, LateClaim
  <2>3. QED
    BY <2>2 DEF Delivery, LeaseOutlivesLateClaims, Owns, Terminal
<1>3. AckedClaimIsInert'
  <2>. SUFFICES ASSUME NEW s \in net', s.op = "claim", copy'[msg[s.inv]] = "acked"
                PROVE  FALSE
    BY DEF AckedClaimIsInert
  <2>1. PICK s0 \in net : s0.op = "claim" /\ s0.inv = s.inv
    BY DEF CallsGoOn
  <2>2. QED
    BY <2>1, TypesOfCalls DEF Delivery, AckedClaimIsInert, NothingIsAcked, Terminal
<1>4. OwnerIsUnsettled' /\ OwnerOfCopy'
  BY DEF OwnerIsUnsettled, OwnerOfCopy, NoRecord
<1>5. FreeIsUnsettled'
  BY TypesOfCalls DEF Delivery, OwnerIsUnsettled, FreeIsUnsettled, NothingIsAcked
<1>6. QED
  BY <1>1, <1>2, <1>3, <1>4, <1>5 DEF Delivery

(* A worker acknowledges because a newer delivery owns the key: of another *)
(* copy, for the key cannot be claimed for this one by anybody else.       *)
LEMMA ConflictKeepsDelivery ==
  ASSUME Protocol, Delivery, NEW r \in net, r.awaited, r.op \in {"fail", "release"},
         rec.state # "none", rec.token # r.inv, rec' = rec, net' = net \ {r},
         pc' = [pc EXCEPT ![r.inv] = "idle"], Ack(msg[r.inv]), msg' = msg
  PROVE  Delivery'
<1>. USE DEF Protocol
<1>a. /\ r.inv \in Invocation /\ msg[r.inv] \in Copy
      /\ pc[r.inv] \in {"failing", "releasing"}
  BY TypesOfCalls DEF CallsFitSteps, StepsOf
<1>b. /\ copy' = [copy EXCEPT ![msg[r.inv]] = "acked"]
      /\ copy \in [Copy -> CopyState] /\ pc \in [Invocation -> Step]
  BY DEF Ack, TypeOK
<1>c. CallsGoOn /\ WorkersGoOn /\ CopiesMove
  BY <1>a, <1>b, RemovalGoesOn DEF WorkersGoOn, CopiesMove, Active
<1>1. CASE rec.state \in Terminal
  BY <1>1, <1>c, SettledKeepsDelivery
<1>2. CASE rec.state = "claimed"
  <2>0. Working(r.inv)
    BY <1>a DEF Working
  <2>1. OneDelivery' /\ LateClaimsAreOlder'
    BY <1>c, DeliveriesGoOn
  <2>2. \A i \in Invocation : Working(i)' => Working(i)
    BY <1>c DEF WorkersGoOn, Working
  <2>3. LeaseOutlivesLateClaims' /\ OwnerOfCopy'
    BY <2>2 DEF Delivery, LeaseOutlivesLateClaims, OwnerOfCopy, LateClaim, Owns
  <2>4. AckedClaimIsInert'
    <3>. SUFFICES ASSUME NEW s \in net \ {r}, s.op = "claim", copy'[msg[s.inv]] = "acked"
                  PROVE  FALSE
      BY <1>2 DEF AckedClaimIsInert, Terminal
    <3>1. s.inv # r.inv
      BY DEF ClaimIsFirst
    <3>2. msg[s.inv] # msg[r.inv]
      BY <1>2, <2>0, <3>1, <1>a DEF Delivery, LeaseOutlivesLateClaims, LateClaim, Owns, Terminal
    <3>3. copy[msg[s.inv]] = "acked"
      BY <1>a, <1>b, <3>2, TypesOfCalls
    <3>4. QED
      BY <1>2, <3>3 DEF Delivery, AckedClaimIsInert, Terminal
  <2>5. OwnerIsUnsettled'
    <3>1. msg[rec.token] # msg[r.inv]
      BY <1>2, <2>0, <1>a DEF Delivery, OwnerOfCopy
    <3>2. QED
      BY <1>a, <1>b, <1>2, <3>1, TypesOfCalls DEF Delivery, OwnerIsUnsettled
  <2>6. FreeIsUnsettled'
    BY <1>2 DEF FreeIsUnsettled
  <2>7. QED
    BY <2>1, <2>3, <2>4, <2>5, <2>6 DEF Delivery
<1>3. QED
  BY <1>1, <1>2, TypesOfCalls DEF RecState

(* The queue is asked to deliver a copy again, or told it is done.         *)
LEMMA RetryMoves ==
  ASSUME TypeOK, NEW i \in Invocation, NEW ticks, Retry(msg[i], ticks), Active(i),
         pc' = [pc EXCEPT ![i] = "idle"]
  PROVE  WorkersGoOn /\ CopiesMove /\ NothingIsAcked
  BY TypesOfCalls DEF TypeOK, Retry, WorkersGoOn, CopiesMove, NothingIsAcked, Active

LEMMA AckMoves ==
  ASSUME TypeOK, NEW i \in Invocation, Ack(msg[i]), Active(i),
         pc' = [pc EXCEPT ![i] = "idle"]
  PROVE  WorkersGoOn /\ CopiesMove
  BY TypesOfCalls DEF TypeOK, Ack, WorkersGoOn, CopiesMove, Active

LEMMA AnswerKeepsDelivery ==
  ASSUME CallsEndInTime, OneContext, Protocol, Delivery, NEW r \in net, ExecuteAwaited(r)
  PROVE  Delivery'
<1>. USE ConstantsAssumption DEF Protocol
<1>a. /\ r.inv \in Invocation /\ msg[r.inv] \in Copy /\ r.op \in Op /\ r.awaited
      /\ rec' = AfterCall(r) /\ msg' = msg
  BY TypesOfCalls DEF ExecuteAwaited
<1>b. pc[r.inv] \in StepsOf(r) /\ r.op # "renew" => Active(r.inv)
  BY <1>a DEF StepsOf, Active, Op
<1>c. pc[r.inv] \in StepsOf(r)
  BY DEF CallsFitSteps
<1>1. CASE r.op = "claim"
  <2>1. ClaimAnswered(r) /\ rec' = AfterClaim(r) /\ Active(r.inv)
    BY <1>1, <1>a, <1>b, <1>c DEF ExecuteAwaited, AfterCall
  <2>2. CASE Claimable(r)
    <3>1. /\ pc' = [pc EXCEPT ![r.inv] = "processing"] /\ net' = net \ {r}
          /\ UNCHANGED <<copy, delay>> /\ rec' = ClaimedBy(r)
      BY <2>1, <2>2 DEF ClaimAnswered, AfterClaim
    <3>2. QED
      BY <1>1, <1>a, <2>2, <3>1, TakingKeepsDelivery
  <2>3. CASE ~Claimable(r)
    <3>1. rec' = rec /\ net' = net \ {r} /\ pc' = [pc EXCEPT ![r.inv] = "idle"]
      BY <2>1, <2>3 DEF ClaimAnswered, AfterClaim, Finish
    <3>2. rec.state # "none" /\ SameContext(msg[r.inv])
      BY <1>a, <2>3, TypesOfCalls DEF Claimable, SameContext, OneContext
    <3>3. CASE rec.state = "claimed"
      <4>1. \E ticks : Retry(msg[r.inv], ticks)
        BY <2>1, <2>3, <3>2, <3>3 DEF ClaimAnswered, RetryAfterLease, Terminal
      <4>2. QED
        BY <1>a, <2>1, <3>1, <4>1, RetryMoves, RemovalGoesOn, QuietKeepsDelivery
    <3>4. CASE rec.state \in Terminal
      <4>1. Ack(msg[r.inv])
        BY <2>1, <2>3, <3>4 DEF ClaimAnswered, Terminal
      <4>2. QED
        BY <1>a, <2>1, <3>1, <3>4, <4>1, AckMoves, RemovalGoesOn, SettledKeepsDelivery
    <3>5. QED
      BY <3>2, <3>3, <3>4, TypesOfCalls DEF RecState
  <2>4. QED
    BY <2>2, <2>3
<1>2. CASE r.op = "renew"
  BY <1>2, <1>a, RenewalKeepsDelivery DEF ExecuteAwaited, RenewAnswered, AfterCall
<1>3. CASE r.op = "succeed"
  <2>1. SucceedAnswered(r) /\ rec' = AfterComplete(r, "succeeded") /\ Active(r.inv)
    BY <1>3, <1>a, <1>b, <1>c DEF ExecuteAwaited, AfterCall
  <2>2. CASE rec.state # "none" /\ rec.token = r.inv
    <3>1. /\ net' = net \ {r} /\ pc' = [pc EXCEPT ![r.inv] = "idle"] /\ Ack(msg[r.inv])
          /\ rec'.state \in Terminal
      BY <2>1, <2>2 DEF SucceedAnswered, Finish, AfterComplete, Completed, TypeOK, Terminal
    <3>2. QED
      BY <1>a, <2>1, <3>1, AckMoves, RemovalGoesOn, SettledKeepsDelivery
  <2>3. CASE ~(rec.state # "none" /\ rec.token = r.inv)
    <3>1. /\ net' = (net \ {r}) \cup {Call("fail", r.inv)} /\ UNCHANGED <<copy, delay>>
          /\ pc' = [pc EXCEPT ![r.inv] = "failing"] /\ rec' = rec
      BY <2>1, <2>3 DEF SucceedAnswered, AfterComplete
    <3>2. CallsGoOn
      BY <3>1 DEF CallsGoOn, Call
    <3>3. pc[r.inv] = "completing"
      BY <1>3, <1>a, <1>c DEF StepsOf
    <3>4. WorkersGoOn /\ CopiesMove /\ NothingIsAcked
      BY <1>a, <3>1, <3>3 DEF WorkersGoOn, CopiesMove, NothingIsAcked, Working, TypeOK
    <3>5. QED
      BY <1>a, <3>1, <3>2, <3>4, QuietKeepsDelivery
  <2>4. QED
    BY <2>2, <2>3
<1>4. CASE r.op = "fail"
  <2>1. /\ FailAnswered(r) /\ rec' = AfterComplete(r, "failed_terminal") /\ Active(r.inv)
        /\ net' = net \ {r} /\ pc' = [pc EXCEPT ![r.inv] = "idle"]
    BY <1>4, <1>a, <1>b, <1>c DEF ExecuteAwaited, AfterCall, FailAnswered, Finish
  <2>2. CASE rec.state = "none"
    <3>1. Retry(msg[r.inv], 0) /\ rec' = rec
      BY <2>1, <2>2 DEF FailAnswered, AfterComplete
    <3>2. QED
      BY <1>a, <2>1, <3>1, RetryMoves, RemovalGoesOn, QuietKeepsDelivery
  <2>3. CASE rec.state # "none" /\ rec.token = r.inv
    <3>1. Ack(msg[r.inv]) /\ rec'.state \in Terminal
      BY <2>1, <2>3 DEF FailAnswered, AfterComplete, Completed, TypeOK, Terminal
    <3>2. QED
      BY <1>a, <2>1, <3>1, AckMoves, RemovalGoesOn, SettledKeepsDelivery
  <2>4. CASE rec.state # "none" /\ rec.token # r.inv
    <3>1. Ack(msg[r.inv]) /\ rec' = rec
      BY <2>1, <2>4 DEF FailAnswered, AfterComplete
    <3>2. QED
      BY <1>4, <1>a, <2>1, <2>4, <3>1, ConflictKeepsDelivery
  <2>5. QED
    BY <2>2, <2>3, <2>4
<1>5. CASE r.op = "release"
  <2>1. /\ ReleaseAnswered(r) /\ rec' = AfterRelease(r) /\ Active(r.inv)
        /\ net' = net \ {r} /\ pc' = [pc EXCEPT ![r.inv] = "idle"]
    BY <1>5, <1>a, <1>b, <1>c DEF ExecuteAwaited, AfterCall, ReleaseAnswered, Finish
  <2>2. CASE rec.state # "none" /\ rec.token # r.inv
    <3>1. Ack(msg[r.inv]) /\ rec' = rec
      BY <2>1, <2>2 DEF ReleaseAnswered, AfterRelease
    <3>2. QED
      BY <1>5, <1>a, <2>1, <2>2, <3>1, ConflictKeepsDelivery
  <2>3. CASE ~(rec.state # "none" /\ rec.token # r.inv)
    <3>1. Retry(msg[r.inv], 0)
      BY <2>1, <2>3 DEF ReleaseAnswered
    <3>2. WorkersGoOn /\ CopiesMove /\ NothingIsAcked /\ CallsGoOn /\ pc'[r.inv] = "idle"
      BY <1>a, <2>1, <3>1, RetryMoves, RemovalGoesOn DEF TypeOK
    <3>3. CASE rec.state = "claimed" /\ rec.token = r.inv
      BY <1>5, <1>a, <2>1, <3>2, <3>3, ReleaseKeepsDelivery DEF AfterRelease
    <3>4. CASE ~(rec.state = "claimed" /\ rec.token = r.inv)
      BY <1>a, <2>1, <3>2, <3>4, QuietKeepsDelivery DEF AfterRelease
    <3>5. QED
      BY <3>3, <3>4
  <2>4. QED
    BY <2>2, <2>3
<1>6. QED
  BY <1>a, <1>1, <1>2, <1>3, <1>4, <1>5 DEF Op

LEMMA LateCallKeepsDelivery ==
  ASSUME CallsEndInTime, Protocol, Delivery, NEW r \in net, ExecuteAbandoned(r)
  PROVE  Delivery'
<1>. USE ConstantsAssumption DEF Protocol
<1>a. /\ ~r.awaited /\ rec' = AfterCall(r) /\ net' = net \ {r}
      /\ UNCHANGED <<copy, pc, msg>>
  BY DEF ExecuteAbandoned, queue, worker
<1>b. r.inv \in Invocation /\ r.op \in Op
  BY TypesOfCalls
<1>c. CallsGoOn /\ WorkersGoOn /\ CopiesMove /\ NothingIsAcked
  BY <1>a, RemovalGoesOn DEF WorkersGoOn, CopiesMove, NothingIsAcked
<1>1. CASE rec' = rec
  BY <1>a, <1>c, <1>1, QuietKeepsDelivery
<1>2. CASE rec' # rec /\ r.op = "claim"
  BY <1>a, <1>2, TakingKeepsDelivery DEF AfterCall, AfterClaim
<1>3. CASE r.op = "renew"
  BY <1>a, <1>3, RenewalKeepsDelivery DEF AfterCall
<1>4. CASE rec' # rec /\ r.op \in {"succeed", "fail"}
  <2>1. rec'.state \in Terminal
    BY <1>a, <1>4 DEF AfterCall, AfterComplete, Completed, TypeOK, Terminal
  <2>2. QED
    BY <1>a, <1>c, <2>1, SettledKeepsDelivery
<1>5. CASE rec' # rec /\ r.op = "release"
  <2>1. rec.state = "claimed" /\ rec.token = r.inv /\ rec' = NoRecord
    BY <1>a, <1>5 DEF AfterCall, AfterRelease
  <2>2. pc'[r.inv] = "idle"
    BY <1>a, <1>5 DEF CallsFitSteps, StepsOf
  <2>3. QED
    BY <1>a, <1>c, <1>5, <2>1, <2>2, ReleaseKeepsDelivery
<1>6. QED
  BY <1>b, <1>1, <1>2, <1>3, <1>4, <1>5 DEF Op

-----------------------------------------------------------------------------
(* The other steps leave the record alone and acknowledge nothing.         *)

LEMMA FailureKeepsDelivery ==
  ASSUME Protocol, Delivery, NEW r \in net, TransportError(r)
  PROVE  Delivery'
<1>. USE DEF Protocol
<1>a. /\ r \in Request /\ r.inv \in Invocation /\ r.awaited /\ rec' = rec /\ msg' = msg
      /\ pc[r.inv] \in StepsOf(r) /\ r.op \in Op
  BY TypesOfCalls DEF TransportError, CallsFitSteps, TypeOK
<1>b. GivenUp(r).op = r.op /\ GivenUp(r).inv = r.inv /\ GivenUp(r).age = r.age
  BY <1>a DEF GivenUp, Request
<1>1. CallsGoOn
  <2>1. \/ net' = (net \ {r}) \cup {GivenUp(r)}
        \/ net' = (net \ {r}) \cup {GivenUp(r), Call("release", r.inv)}
    BY DEF TransportError, Abandon, GivenUp
  <2>2. QED
    BY <1>b, <2>1 DEF CallsGoOn, Call
<1>2. CASE r.op = "renew"
  BY <1>a, <1>1, <1>2, QuietKeepsDelivery
     DEF TransportError, WorkersGoOn, CopiesMove, NothingIsAcked
<1>3. CASE r.op = "succeed"
  <2>1. pc' = [pc EXCEPT ![r.inv] = "releasing"] /\ UNCHANGED <<copy, delay>>
    BY <1>3 DEF TransportError
  <2>2. pc[r.inv] = "completing"
    BY <1>a, <1>3 DEF StepsOf
  <2>3. WorkersGoOn /\ CopiesMove /\ NothingIsAcked
    BY <1>a, <2>1, <2>2 DEF WorkersGoOn, CopiesMove, NothingIsAcked, Working, TypeOK
  <2>4. QED
    BY <1>a, <1>1, <2>3, QuietKeepsDelivery
<1>4. CASE r.op \in {"claim", "fail", "release"}
  <2>1. pc' = [pc EXCEPT ![r.inv] = "idle"] /\ Retry(msg[r.inv], 0)
    BY <1>4 DEF TransportError, Finish
  <2>2. Active(r.inv)
    BY <1>a, <1>4 DEF StepsOf, Active
  <2>3. QED
    BY <1>a, <1>1, <2>1, <2>2, RetryMoves, QuietKeepsDelivery
<1>5. QED
  BY <1>a, <1>2, <1>3, <1>4 DEF Op

LEMMA OwnStepKeepsDelivery ==
  ASSUME Protocol, Delivery, NEW i \in Invocation,
         Heartbeat(i) \/ Settle(i) \/ Crash(i) \/ \E how \in Outcome : ProcessEnds(i, how)
  PROVE  Delivery'
<1>. USE DEF Protocol
<1>1. CASE Heartbeat(i)
  BY <1>1, QuietKeepsDelivery
     DEF Heartbeat, queue, CallsGoOn, Call, WorkersGoOn, CopiesMove, NothingIsAcked
<1>2. CASE Settle(i)
  <2>1. /\ SettlingStep(i) \in {"completing", "releasing", "failing"}
        /\ CallOf(SettlingStep(i)) # "claim"
    BY SettleCall
  <2>2. /\ pc[i] = "draining" /\ pc' = [pc EXCEPT ![i] = SettlingStep(i)]
        /\ net' = net \cup {Call(CallOf(SettlingStep(i)), i)}
        /\ UNCHANGED <<copy, rec, msg>>
    BY <1>2 DEF Settle, queue
  <2>3. CallsGoOn
    BY <2>1, <2>2 DEF CallsGoOn, Call
  <2>4. WorkersGoOn /\ CopiesMove /\ NothingIsAcked
    BY <2>1, <2>2 DEF WorkersGoOn, CopiesMove, NothingIsAcked, Working, TypeOK
  <2>5. QED
    BY <2>2, <2>3, <2>4, QuietKeepsDelivery
<1>3. CASE Crash(i)
  <2>1. /\ pc' = [pc EXCEPT ![i] = "idle"] /\ Active(i) /\ Retry(msg[i], 0)
        /\ net' = {IF r.inv = i THEN GivenUp(r) ELSE r : r \in net}
        /\ UNCHANGED <<rec, msg>>
    BY <1>3 DEF Crash, Finish, GivenUp, Active
  <2>2. \A r \in net : GivenUp(r).op = r.op /\ GivenUp(r).inv = r.inv /\ GivenUp(r).age = r.age
    BY DEF GivenUp, TypeOK, Request
  <2>3. CallsGoOn
    BY <2>1, <2>2 DEF CallsGoOn
  <2>4. QED
    BY <2>1, <2>3, RetryMoves, QuietKeepsDelivery
<1>4. CASE \E how \in Outcome : ProcessEnds(i, how)
  <2>1. pc[i] = "processing" /\ pc' = [pc EXCEPT ![i] = "draining"]
        /\ UNCHANGED <<copy, rec, msg, net>>
    BY <1>4 DEF ProcessEnds, queue
  <2>2. CallsGoOn /\ WorkersGoOn /\ CopiesMove /\ NothingIsAcked
    BY <2>1 DEF CallsGoOn, WorkersGoOn, CopiesMove, NothingIsAcked, Working, TypeOK
  <2>3. QED
    BY <2>1, <2>2, QuietKeepsDelivery
<1>5. QED
  BY <1>1, <1>2, <1>3, <1>4

LEMMA QueueStepKeepsDelivery ==
  ASSUME Protocol, Delivery,
         \/ \E c \in Copy : RejectExpired(c) \/ ValidationOutage(c)
         \/ \E r \in net : LoseAbandoned(r)
         \/ UNCHANGED vars
  PROVE  Delivery'
<1>. USE DEF Protocol
<1>1. CallsGoOn /\ WorkersGoOn /\ msg' = msg /\ rec' = rec
  BY DEF CallsGoOn, WorkersGoOn, RejectExpired, ValidationOutage, LoseAbandoned,
     worker, vars
<1>2. CopiesMove /\ NothingIsAcked
  BY DEF CopiesMove, NothingIsAcked, RejectExpired, ValidationOutage, LoseAbandoned,
     Deliverable, queue, vars, TypeOK
<1>3. QED
  BY <1>1, <1>2, QuietKeepsDelivery

LEMMA DeliveryStep ==
  ASSUME CallsEndInTime, OneContext, Protocol, Delivery, [Next]_vars
  PROVE  Delivery'
<1>1. CASE UNCHANGED vars
  BY <1>1, QueueStepKeepsDelivery
<1>2. CASE Next
  BY <1>2, QueueStepKeepsDelivery, DeliverKeepsDelivery, AnswerKeepsDelivery,
     LateCallKeepsDelivery, FailureKeepsDelivery, OwnStepKeepsDelivery,
     TickKeepsDelivery DEF Next
<1>3. QED
  BY <1>1, <1>2

LEMMA DeliveryInit ==
  ASSUME Init
  PROVE  Delivery
<1>1. rec.state = "none" /\ net = {} /\ \A i \in Invocation : pc[i] = "idle"
  BY DEF Init, NoRecord
<1>2. \E c \in Copy : copy[c] # "acked"
  BY ConstantsAssumption DEF Init
<1>3. QED
  BY <1>1, <1>2 DEF Delivery, OneDelivery, LateClaimsAreOlder, LeaseOutlivesLateClaims,
     AckedClaimIsInert, OwnerIsUnsettled, OwnerOfCopy, FreeIsUnsettled, Active, Working

(* A message all of whose copies were acknowledged as handled is settled:  *)
(* a stale Worker that acknowledges on IDEMPOTENCY_CONFLICT never drops    *)
(* the last chance to run it.                                              *)
THEOREM AckedIsSettled ==
  ASSUME CallsEndInTime, OneContext
  PROVE  Spec => []AllAckedIsSettled
<1>1. Init => Delivery
  BY DeliveryInit
<1>2. Protocol /\ Delivery /\ [Next]_vars => Delivery'
  BY DeliveryStep
<1>3. Protocol /\ Delivery => AllAckedIsSettled
  BY TypesOfCalls DEF Protocol, Delivery, OwnerIsUnsettled, FreeIsUnsettled,
     AllAckedIsSettled, RecState
<1>4. QED
  BY <1>1, <1>2, <1>3, ProtocolHolds, PTL DEF Spec

-----------------------------------------------------------------------------
(* An invocation that lives keeps its claim.                               *)
(*                                                                         *)
(* The lease of a running invocation and the time since its last heartbeat *)
(* add up to a lease, less what was lost: the delay of the claim, the      *)
(* heartbeat of a renewal that failed, the one of a renewal in flight. One *)
(* renewal may fail, so the lease must outlast two heartbeats and the      *)
(* delay of two calls. In production a heartbeat is a third of the lease.  *)

TimelyHeartbeats ==
  /\ TimelyTimers
  /\ MaxFaults <= 1
  /\ MaxDelay < HeartbeatInterval
  /\ 2 * (HeartbeatInterval + MaxDelay) < Lease

Renewal(r, i) == r.op = "renew" /\ r.inv = i

Lost       == IF faults = 0 THEN 0 ELSE HeartbeatInterval
InFlight(i) == IF Beating(i) THEN HeartbeatInterval ELSE 0

NoConflict == \A i \in Invocation : hbErr[i] # "conflict"

LeaseIsHeld ==
  \A i \in Invocation : pc[i] = "processing" =>
    /\ Owns(i)
    /\ rec.lease + beat[i] <= Lease
    /\ rec.lease + beat[i] + Lost + InFlight(i) >= Lease - MaxDelay

(* A renewal that is awaited left with the last heartbeat, one that was    *)
(* given up with an earlier one.                                           *)
RenewalsFollowBeats ==
  \A i \in Invocation, q \in net : pc[i] = "processing" /\ Renewal(q, i) =>
    /\ q.age >= beat[i]
    /\ q.awaited => q.age = beat[i]

AwaitedRenewalIsInTime ==
  \A i \in Invocation, q \in net : Renewal(q, i) /\ q.awaited =>
    /\ Owns(i)
    /\ rec.lease + q.age + Lost + HeartbeatInterval >= Lease - MaxDelay

OneRenewal ==
  \A i \in Invocation, p, q \in net :
    Renewal(p, i) /\ Renewal(q, i) /\ p.awaited /\ q.awaited => p = q

Timely ==
  /\ NoConflict
  /\ LeaseIsHeld
  /\ RenewalsFollowBeats
  /\ AwaitedRenewalIsInTime
  /\ OneRenewal

(* Those that need the lease: they run, or wait for a renewal.             *)
Guarding(i) == pc[i] = "processing" \/ Beating(i)

LEMMA TypesOfTime ==
  ASSUME TimelyHeartbeats, TypeOK
  PROVE  /\ Lost \in {0, HeartbeatInterval} /\ faults \in 0..1
         /\ \A i \in Invocation : /\ InFlight(i) \in {0, HeartbeatInterval}
                                  /\ beat[i] \in 0..HeartbeatInterval
         /\ MaxDelay \in Nat /\ HeartbeatInterval \in Nat /\ Lease \in Nat
  BY ConstantsAssumption DEF TimelyHeartbeats, TypeOK, Lost, InFlight

LEMMA GuardHoldsLease ==
  ASSUME TimelyHeartbeats, TypeOK, Timely, NEW i \in Invocation, Guarding(i)
  PROVE  Owns(i) /\ rec.lease > 0
<1>. USE TypesOfTime, TypesOfCalls DEF Timely, TimelyHeartbeats
<1>1. CASE Beating(i)
  <2>1. PICK q \in net : Renewal(q, i) /\ q.awaited
    BY <1>1 DEF Beating, Renewal
  <2>2. /\ Owns(i) /\ q.age \in 0..MaxDelay
        /\ rec.lease + q.age + Lost + HeartbeatInterval >= Lease - MaxDelay
    BY <2>1 DEF AwaitedRenewalIsInTime
  <2>3. QED
    BY <2>2
<1>2. CASE pc[i] = "processing" /\ ~Beating(i)
  <2>1. /\ Owns(i) /\ InFlight(i) = 0
        /\ rec.lease + beat[i] + Lost + InFlight(i) >= Lease - MaxDelay
    BY <1>2 DEF LeaseIsHeld, InFlight
  <2>2. QED
    BY <2>1
<1>3. QED
  BY <1>1, <1>2 DEF Guarding

(* A call that the store executes takes nothing away from it: the record   *)
(* stays as it is, or a renewal of its own moves the lease on.             *)
LEMMA GuardedRecord ==
  ASSUME TimelyHeartbeats, Protocol, Timely, NEW i \in Invocation, Guarding(i),
         NEW r \in net
  PROVE  \/ AfterCall(r) = rec
         \/ /\ Renewal(r, i) /\ r.age <= Lease - rec.lease
            /\ AfterCall(r) = [rec EXCEPT !.lease = Lease - r.age]
<1>. USE ConstantsAssumption DEF Protocol
<1>1. Owns(i) /\ rec.lease > 0
  BY GuardHoldsLease
<1>2. r.op \in Op /\ r.age \in 0..MaxDelay /\ rec.lease \in -MaxDelay..Lease
  BY TypesOfCalls
<1>3. pc[i] \in {"processing", "draining"}
  BY DEF Guarding, Beating, CallsFitSteps, StepsOf
<1>4. r.inv = i => r.op \notin {"succeed", "fail", "release"}
  BY <1>3 DEF CallsFitSteps, StepsOf
<1>5. ~Expired(r.age)
  BY <1>1, <1>2 DEF Expired
<1>6. CASE r.op = "claim"
  BY <1>1, <1>5, <1>6 DEF AfterCall, AfterClaim, Claimable, Owns
<1>7. CASE r.op = "renew"
  BY <1>1, <1>2, <1>5, <1>7 DEF AfterCall, AfterRenew, Renewable, Regresses, Owns, Renewal
<1>8. CASE r.op \in {"succeed", "fail", "release"}
  BY <1>1, <1>4, <1>8 DEF AfterCall, AfterComplete, AfterRelease, Owns
<1>9. QED
  BY <1>2, <1>6, <1>7, <1>8 DEF Op

-----------------------------------------------------------------------------
(* What most steps do.                                                     *)

LeaseGoesOn ==
  \A i \in Invocation : Guarding(i) =>
    \/ rec' = rec
    \/ \E r \in net : /\ Renewal(r, i) /\ r.age <= Lease - rec.lease
                      /\ rec' = [rec EXCEPT !.lease = Lease - r.age]

RunsGoOn ==
  \A i \in Invocation : pc'[i] = "processing" =>
    pc[i] = "processing" /\ beat'[i] = beat[i]

RenewalsGoOn ==
  \A q \in net' : q.op = "renew" =>
    \/ q \in net
    \/ ~q.awaited /\ \E p \in net : p.op = "renew" /\ p.inv = q.inv /\ p.age = q.age

(* A renewal that is no longer awaited is a fault, or was executed.        *)
RenewalsAreCounted ==
  \A i \in Invocation : pc'[i] = "processing" /\ Beating(i) /\ ~Beating(i)' =>
    faults' # faults

FaultsAreCounted == faults' = faults \/ faults' = faults + 1

LEMMA TimeGoesOn ==
  ASSUME TimelyHeartbeats, TypeOK, TypeOK', Timely, NoConflict', LeaseGoesOn, RunsGoOn,
         RenewalsGoOn, RenewalsAreCounted, FaultsAreCounted
  PROVE  Timely'
<1>. USE DEF Timely
<1>a. /\ Lost \in {0, HeartbeatInterval} /\ Lost' \in {0, HeartbeatInterval}
      /\ Lost <= Lost' /\ (faults' # faults => Lost = 0 /\ Lost' = HeartbeatInterval)
  BY TypesOfTime, ConstantsAssumption DEF FaultsAreCounted, Lost, TypeOK, TimelyHeartbeats
<1>b. \A i \in Invocation : Beating(i)' => Beating(i)
  BY DEF RenewalsGoOn, Beating
<1>c. ASSUME NEW i \in Invocation, Guarding(i)
      PROVE  /\ rec'.state = rec.state /\ rec'.token = rec.token
             /\ rec'.lease >= rec.lease /\ rec.lease \in Int /\ rec'.lease \in Int
  BY <1>c, TypesOfCalls, TypesOfTime DEF LeaseGoesOn, TypeOK
<1>1. LeaseIsHeld'
  <2>. SUFFICES ASSUME NEW i \in Invocation, pc'[i] = "processing"
                PROVE  /\ Owns(i)' /\ rec'.lease + beat'[i] <= Lease
                       /\ rec'.lease + beat'[i] + Lost' + InFlight(i)' >= Lease - MaxDelay
    BY DEF LeaseIsHeld
  <2>1. pc[i] = "processing" /\ beat'[i] = beat[i] /\ Guarding(i)
    BY DEF RunsGoOn, Guarding
  <2>2. /\ Owns(i) /\ rec.lease + beat[i] <= Lease
        /\ rec.lease + beat[i] + Lost + InFlight(i) >= Lease - MaxDelay
    BY <2>1 DEF LeaseIsHeld
  <2>3. rec'.lease + beat[i] <= Lease
    <3>1. CASE rec' = rec
      BY <2>2, <3>1
    <3>2. ASSUME NEW r \in net, Renewal(r, i), rec' = [rec EXCEPT !.lease = Lease - r.age]
          PROVE  rec'.lease + beat[i] <= Lease
      <4>1. r.age >= beat[i]
        BY <2>1, <3>2 DEF RenewalsFollowBeats
      <4>2. rec'.lease = Lease - r.age
        BY <3>2 DEF TypeOK
      <4>3. QED
        BY <4>1, <4>2, TypesOfCalls, TypesOfTime
    <3>3. QED
      BY <2>1, <3>1, <3>2 DEF LeaseGoesOn
  <2>4. Lost + InFlight(i) <= Lost' + InFlight(i)'
    BY <1>a, <1>b, TypesOfTime DEF InFlight, RenewalsAreCounted
  <2>5. InFlight(i) \in Nat /\ InFlight(i)' \in Nat
    BY TypesOfTime DEF InFlight
  <2>6. QED
    BY <1>a, <1>c, <2>1, <2>2, <2>3, <2>4, <2>5, TypesOfTime DEF Owns
<1>2. RenewalsFollowBeats'
  BY TypesOfCalls, TypesOfTime DEF RenewalsFollowBeats, Renewal, RenewalsGoOn, RunsGoOn
<1>3. AwaitedRenewalIsInTime'
  <2>. SUFFICES ASSUME NEW i \in Invocation, NEW q \in net', Renewal(q, i), q.awaited
                PROVE  /\ Owns(i)'
                       /\ rec'.lease + q.age + Lost' + HeartbeatInterval >= Lease - MaxDelay
    BY DEF AwaitedRenewalIsInTime
  <2>1. q \in net /\ Guarding(i)
    BY DEF RenewalsGoOn, Renewal, Guarding, Beating
  <2>2. /\ Owns(i) /\ rec.lease + q.age + Lost + HeartbeatInterval >= Lease - MaxDelay
    BY <2>1 DEF AwaitedRenewalIsInTime
  <2>3. QED
    BY <1>a, <1>c, <2>1, <2>2, TypesOfCalls, TypesOfTime DEF Owns
<1>4. OneRenewal'
  BY DEF OneRenewal, Renewal, RenewalsGoOn
<1>5. QED
  BY <1>1, <1>2, <1>3, <1>4

LEMMA TakingKeepsTime ==
  ASSUME TimelyHeartbeats, Protocol, Timely, NEW r \in net, r.op = "claim",
         Claimable(r), rec' = ClaimedBy(r), net' = net \ {r},
         UNCHANGED <<faults, hbErr>>,
         \/ UNCHANGED <<pc, beat>>
         \/ /\ pc' = [pc EXCEPT ![r.inv] = "processing"]
            /\ beat' = [beat EXCEPT ![r.inv] = 0]
  PROVE  Timely'
<1>. USE DEF Timely, Protocol
<1>a. /\ r.inv \in Invocation /\ r.age \in 0..MaxDelay
      /\ \A q \in net \ {r} : q.inv # r.inv
  BY TypesOfCalls DEF ClaimIsFirst
<1>b. ASSUME NEW i \in Invocation, Guarding(i)
      PROVE  FALSE
  <2>1. Owns(i) /\ rec.lease > 0
    BY <1>b, GuardHoldsLease
  <2>2. rec.lease \in -MaxDelay..Lease
    BY TypesOfCalls
  <2>3. QED
    BY <1>a, <2>1, <2>2 DEF Claimable, Expired, Owns
<1>c. \A i \in Invocation : pc'[i] = "processing" => i = r.inv /\ beat'[i] = 0
  BY <1>a, <1>b DEF Guarding, TypeOK
<1>d. \A q \in net' : q.op = "renew" => ~q.awaited
  BY <1>b, TypesOfCalls DEF Guarding, Beating
<1>1. LeaseIsHeld'
  <2>. SUFFICES ASSUME NEW i \in Invocation, pc'[i] = "processing"
                PROVE  /\ Owns(i)' /\ rec'.lease + beat'[i] <= Lease
                       /\ rec'.lease + beat'[i] + Lost' + InFlight(i)' >= Lease - MaxDelay
    BY DEF LeaseIsHeld
  <2>1. /\ rec'.state = "claimed" /\ rec'.token = i /\ rec'.lease = Lease - r.age
        /\ beat'[i] = 0
    BY <1>c DEF ClaimedBy
  <2>2. Lost' \in Nat /\ InFlight(i)' \in Nat
    BY TypesOfTime DEF InFlight, Lost
  <2>3. QED
    BY <1>a, <2>1, <2>2, TypesOfTime DEF Owns
<1>2. RenewalsFollowBeats'
  BY <1>a, <1>c DEF RenewalsFollowBeats, Renewal
<1>3. AwaitedRenewalIsInTime' /\ OneRenewal'
  BY <1>d DEF AwaitedRenewalIsInTime, OneRenewal, Renewal
<1>4. NoConflict'
  BY DEF NoConflict
<1>5. QED
  BY <1>1, <1>2, <1>3, <1>4

(* The answer to the one renewal that is awaited: the lease is a lease     *)
(* longer than its age.                                                    *)
LEMMA RenewalKeepsTime ==
  ASSUME TimelyHeartbeats, Protocol, Timely, NEW r \in net, r.op = "renew", r.awaited,
         ExecuteAwaited(r)
  PROVE  Timely'
<1>. USE DEF Timely, Protocol
<1>. DEFINE i == r.inv
<1>a. /\ i \in Invocation /\ r.age \in 0..MaxDelay /\ Renewal(r, i)
      /\ Guarding(i) /\ rec.lease \in -MaxDelay..Lease
  BY TypesOfCalls DEF Renewal, Guarding, Beating
<1>b. /\ RenewAnswered(r) /\ UNCHANGED <<pc, beat, faults>> /\ net' = net \ {r}
      /\ rec' = AfterRenew(r)
  BY DEF ExecuteAwaited, RenewAnswered, AfterCall
<1>c. Owns(i) /\ rec.lease > 0 /\ ~Expired(r.age)
  BY <1>a, GuardHoldsLease, TypesOfTime DEF Expired
<1>d. NoConflict'
  BY <1>a, <1>b, <1>c DEF NoConflict, RenewAnswered, Owns, TypeOK
<1>e. \A j \in Invocation : Guarding(j) => j = i
  BY <1>c, GuardHoldsLease DEF Owns
<1>f. \A q \in net' : q.op = "renew" => ~q.awaited
  BY <1>a, <1>b, <1>e, TypesOfCalls DEF OneRenewal, Renewal, Guarding, Beating
<1>1. LeaseIsHeld'
  <2>. SUFFICES ASSUME NEW j \in Invocation, pc'[j] = "processing"
                PROVE  /\ Owns(j)' /\ rec'.lease + beat'[j] <= Lease
                       /\ rec'.lease + beat'[j] + Lost' + InFlight(j)' >= Lease - MaxDelay
    BY DEF LeaseIsHeld
  <2>1. j = i /\ r.age = beat[i] /\ rec.lease + beat[i] <= Lease
    BY <1>a, <1>b, <1>e DEF Guarding, RenewalsFollowBeats, LeaseIsHeld
  <2>2. Renewable(r)
    BY <1>a, <1>c, <2>1, TypesOfTime DEF Renewable, Regresses, Owns
  <2>3. rec'.state = rec.state /\ rec'.token = rec.token /\ rec'.lease = Lease - r.age
    BY <1>b, <2>2 DEF AfterRenew, TypeOK
  <2>4. Lost' \in Nat /\ InFlight(j)' \in Nat
    BY TypesOfTime DEF InFlight, Lost
  <2>5. QED
    BY <1>a, <1>b, <1>c, <2>1, <2>3, <2>4, TypesOfTime DEF Owns
<1>2. RenewalsFollowBeats'
  BY <1>b DEF RenewalsFollowBeats, Renewal
<1>3. AwaitedRenewalIsInTime' /\ OneRenewal'
  BY <1>f DEF AwaitedRenewalIsInTime, OneRenewal, Renewal
<1>4. QED
  BY <1>d, <1>1, <1>2, <1>3

(* The timer fires: no renewal is that old, so a new one is sent.          *)
LEMMA HeartbeatKeepsTime ==
  ASSUME TimelyHeartbeats, Protocol, Timely, NEW i \in Invocation, Heartbeat(i)
  PROVE  Timely'
<1>. USE DEF Timely, Protocol
<1>. DEFINE call == Call("renew", i)
<1>a. /\ pc[i] = "processing" /\ beat[i] = HeartbeatInterval
      /\ beat' = [beat EXCEPT ![i] = 0] /\ UNCHANGED <<rec, pc, hbErr, faults>>
  BY DEF Heartbeat, queue
<1>b. ~Beating(i)
  BY <1>a, TypesOfCalls, TypesOfTime
     DEF Beating, RenewalsFollowBeats, Renewal, TimelyHeartbeats
<1>c. net' = net \cup {call}
  BY <1>b DEF Heartbeat
<1>d. Renewal(call, i) /\ call.awaited /\ call.age = 0
  BY DEF Call, Renewal
<1>e. \A j \in Invocation : Guarding(j) => j = i
  BY <1>a, GuardHoldsLease DEF Owns, Guarding
<1>f. /\ Owns(i) /\ rec.lease + HeartbeatInterval <= Lease
      /\ rec.lease + HeartbeatInterval + Lost >= Lease - MaxDelay
      /\ rec.lease \in -MaxDelay..Lease
  BY <1>a, <1>b, TypesOfTime, TypesOfCalls DEF LeaseIsHeld, InFlight
<1>g. beat'[i] = 0 /\ \A q \in net : Renewal(q, i) => ~q.awaited
  BY <1>a, <1>b DEF TypeOK, Beating, Renewal
<1>. HIDE DEF call
<1>1. LeaseIsHeld'
  <2>. SUFFICES ASSUME NEW j \in Invocation, pc[j] = "processing"
                PROVE  /\ Owns(j) /\ rec.lease + beat'[j] <= Lease
                       /\ rec.lease + beat'[j] + Lost + InFlight(j)' >= Lease - MaxDelay
    BY <1>a DEF LeaseIsHeld, Owns, Lost
  <2>1. j = i
    BY <1>e DEF Guarding
  <2>2. InFlight(i)' = HeartbeatInterval
    BY <1>c, <1>d DEF InFlight, Beating, Renewal
  <2>3. QED
    BY <1>f, <1>g, <2>1, <2>2, TypesOfTime
<1>2. RenewalsFollowBeats'
  BY <1>a, <1>c, <1>d, <1>e, <1>g, TypesOfCalls
     DEF RenewalsFollowBeats, Guarding, Renewal
<1>3. AwaitedRenewalIsInTime'
  <2>. SUFFICES ASSUME NEW j \in Invocation, NEW q \in net', Renewal(q, j), q.awaited
                PROVE  /\ Owns(j)
                       /\ rec.lease + q.age + Lost + HeartbeatInterval >= Lease - MaxDelay
    BY <1>a DEF AwaitedRenewalIsInTime, Owns, Lost
  <2>1. CASE q = call
    BY <1>d, <1>f, <2>1, TypesOfTime DEF Renewal
  <2>2. CASE q \in net
    BY <2>2 DEF AwaitedRenewalIsInTime
  <2>3. QED
    BY <1>c, <2>1, <2>2
<1>4. OneRenewal'
  BY <1>c, <1>d, <1>g DEF OneRenewal, Renewal
<1>5. NoConflict'
  BY <1>a DEF NoConflict
<1>6. QED
  BY <1>1, <1>2, <1>3, <1>4, <1>5

LEMMA TickKeepsTime ==
  ASSUME TimelyHeartbeats, Protocol, Timely, Tick
  PROVE  Timely'
<1>. USE DEF Timely, Protocol
<1>. DEFINE Aged(r) == [r EXCEPT !.age = @ + 1]
<1>a. net' = {Aged(r) : r \in net} /\ UNCHANGED <<pc, hbErr, faults>>
  BY DEF Tick
<1>b. \A r \in net : /\ Aged(r).op = r.op /\ Aged(r).inv = r.inv
                     /\ Aged(r).awaited = r.awaited
                     /\ Aged(r).age = r.age + 1 /\ r.age \in 0..MaxDelay
  BY DEF TypeOK, Request
<1>c. \A i \in Invocation : pc[i] = "processing" => beat'[i] = beat[i] + 1
  BY DEF Tick, TimelyHeartbeats, TypeOK
<1>d. ASSUME NEW i \in Invocation, Guarding(i)
      PROVE  /\ rec'.state = rec.state /\ rec'.token = rec.token
             /\ rec'.lease = rec.lease - 1 /\ rec.lease \in Int /\ Owns(i)
  <2>1. Owns(i) /\ rec.lease > 0 /\ rec.lease \in -MaxDelay..Lease
    BY <1>d, GuardHoldsLease, TypesOfCalls
  <2>2. rec' = [rec EXCEPT !.lease = Down(@, -MaxDelay)]
    BY <2>1 DEF Tick, Owns
  <2>3. QED
    BY <2>1, <2>2, TypesOfTime DEF Down, TypeOK
<1>. HIDE DEF Aged
<1>e. \A i \in Invocation : Beating(i)' => Beating(i)
  BY <1>a, <1>b DEF Beating
<1>f. \A i \in Invocation : Beating(i) => Beating(i)'
  BY <1>a, <1>b DEF Beating
<1>1. LeaseIsHeld'
  <2>. SUFFICES ASSUME NEW i \in Invocation, pc[i] = "processing"
                PROVE  /\ Owns(i)' /\ rec'.lease + beat'[i] <= Lease
                       /\ rec'.lease + beat'[i] + Lost' + InFlight(i)' >= Lease - MaxDelay
    BY <1>a DEF LeaseIsHeld
  <2>1. Guarding(i) /\ rec'.lease + beat'[i] = rec.lease + beat[i] /\ Owns(i)'
    BY <1>c, <1>d, TypesOfTime DEF Guarding, Owns
  <2>2. InFlight(i)' = InFlight(i) /\ Lost' = Lost
    BY <1>a, <1>e, <1>f DEF InFlight, Lost
  <2>3. QED
    BY <2>1, <2>2 DEF LeaseIsHeld
<1>2. RenewalsFollowBeats'
  <2>. SUFFICES ASSUME NEW i \in Invocation, NEW q \in net, pc[i] = "processing",
                       Renewal(q, i)
                PROVE  /\ Aged(q).age >= beat'[i]
                       /\ q.awaited => Aged(q).age = beat'[i]
    BY <1>a, <1>b DEF RenewalsFollowBeats, Renewal
  <2>1. QED
    BY <1>b, <1>c, TypesOfTime DEF RenewalsFollowBeats
<1>3. AwaitedRenewalIsInTime'
  <2>. SUFFICES ASSUME NEW i \in Invocation, NEW q \in net, Renewal(q, i), q.awaited
                PROVE  /\ Owns(i)'
                       /\ rec'.lease + Aged(q).age + Lost' + HeartbeatInterval
                            >= Lease - MaxDelay
    BY <1>a, <1>b DEF AwaitedRenewalIsInTime, Renewal
  <2>1. Guarding(i) /\ Lost' = Lost
    BY <1>a DEF Guarding, Beating, Renewal, Lost
  <2>2. QED
    BY <1>b, <1>d, <2>1, TypesOfTime DEF AwaitedRenewalIsInTime, Owns
<1>4. OneRenewal'
  <2>. SUFFICES ASSUME NEW i \in Invocation, NEW p \in net, NEW q \in net,
                       Renewal(p, i), Renewal(q, i), p.awaited, q.awaited
                PROVE  p = q
    BY <1>a, <1>b DEF OneRenewal, Renewal
  <2>1. QED
    BY DEF OneRenewal
<1>5. NoConflict'
  BY <1>a DEF NoConflict
<1>6. QED
  BY <1>1, <1>2, <1>3, <1>4, <1>5

(* The other calls: a claim that is refused, a call that settles the claim,*)
(* a call that nobody waits for.                                           *)
LEMMA AnswerKeepsTime ==
  ASSUME TimelyHeartbeats, Protocol, Protocol', Timely, NEW r \in net, ExecuteAwaited(r)
  PROVE  Timely'
<1>. USE DEF Protocol
<1>a. /\ r.inv \in Invocation /\ r.op \in Op /\ r.awaited /\ pc[r.inv] \in StepsOf(r)
      /\ rec' = AfterCall(r) /\ faults' = faults /\ pc \in [Invocation -> Step]
  BY TypesOfCalls DEF ExecuteAwaited, CallsFitSteps, TypeOK
<1>b. LeaseGoesOn
  BY <1>a, GuardedRecord DEF LeaseGoesOn
<1>1. CASE r.op = "claim" /\ Claimable(r)
  BY <1>1, <1>a, TakingKeepsTime DEF ExecuteAwaited, ClaimAnswered, AfterCall, AfterClaim
<1>2. CASE r.op = "renew"
  BY <1>2, <1>a, RenewalKeepsTime
<1>3. CASE r.op # "renew" /\ ~(r.op = "claim" /\ Claimable(r))
  <2>1. /\ UNCHANGED <<beat, hbErr>>
        /\ net' = net \ {r} \/ net' = (net \ {r}) \cup {Call("fail", r.inv)}
        /\ pc' = [pc EXCEPT ![r.inv] = "idle"] \/ pc' = [pc EXCEPT ![r.inv] = "failing"]
    BY <1>a, <1>3 DEF ExecuteAwaited, ClaimAnswered, SucceedAnswered, FailAnswered,
       ReleaseAnswered, Finish, Op
  <2>2. RunsGoOn /\ RenewalsGoOn
    BY <1>a, <2>1 DEF RunsGoOn, RenewalsGoOn, Call
  <2>3. RenewalsAreCounted
    BY <1>3, <2>1 DEF RenewalsAreCounted, Beating
  <2>4. NoConflict' /\ FaultsAreCounted
    BY <1>a, <2>1 DEF Timely, NoConflict, FaultsAreCounted
  <2>5. QED
    BY <1>b, <2>2, <2>3, <2>4, TimeGoesOn
<1>4. QED
  BY <1>1, <1>2, <1>3

LEMMA LateCallKeepsTime ==
  ASSUME TimelyHeartbeats, Protocol, Protocol', Timely, NEW r \in net,
         ExecuteAbandoned(r) \/ LoseAbandoned(r)
  PROVE  Timely'
<1>. USE DEF Protocol
<1>a. /\ ~r.awaited /\ net' = net \ {r} /\ UNCHANGED <<pc, beat, hbErr, faults>>
      /\ rec' = rec \/ rec' = AfterCall(r)
  BY DEF ExecuteAbandoned, LoseAbandoned, queue, worker
<1>1. CASE rec' # rec /\ r.op = "claim"
  <2>1. Claimable(r) /\ rec' = ClaimedBy(r)
    BY <1>1, <1>a DEF AfterCall, AfterClaim
  <2>2. QED
    BY <1>1, <1>a, <2>1, TakingKeepsTime
<1>2. CASE rec' = rec \/ r.op # "claim"
  <2>1. LeaseGoesOn
    BY <1>2, <1>a, GuardedRecord DEF LeaseGoesOn
  <2>2. RunsGoOn /\ RenewalsGoOn
    BY <1>a DEF RunsGoOn, RenewalsGoOn
  <2>3. RenewalsAreCounted
    BY <1>a DEF RenewalsAreCounted, Beating
  <2>4. NoConflict' /\ FaultsAreCounted
    BY <1>a DEF Timely, NoConflict, FaultsAreCounted
  <2>5. QED
    BY <2>1, <2>2, <2>3, <2>4, TimeGoesOn
<1>3. QED
  BY <1>1, <1>2

LEMMA FailureKeepsTime ==
  ASSUME TimelyHeartbeats, Protocol, Protocol', Timely, NEW r \in net, TransportError(r)
  PROVE  Timely'
<1>. USE DEF Protocol
<1>a. /\ r \in Request /\ r.inv \in Invocation /\ r.awaited /\ r.op \in Op
      /\ rec' = rec /\ beat' = beat /\ faults' = faults + 1 /\ faults \in Nat
      /\ pc \in [Invocation -> Step] /\ hbErr \in [Invocation -> HbError]
  BY TypesOfCalls DEF TransportError, Fault, TypeOK
<1>b. /\ GivenUp(r).op = r.op /\ GivenUp(r).inv = r.inv /\ GivenUp(r).age = r.age
      /\ ~GivenUp(r).awaited
  BY <1>a DEF GivenUp, Request
<1>c. \/ net' = (net \ {r}) \cup {GivenUp(r)}
      \/ net' = (net \ {r}) \cup {GivenUp(r), Call("release", r.inv)}
  BY DEF TransportError, Abandon, GivenUp
<1>d. \A i \in Invocation : pc'[i] \in {pc[i], "idle", "releasing"}
  BY <1>a DEF TransportError, Finish, Op
<1>1. LeaseGoesOn /\ FaultsAreCounted /\ RunsGoOn
  BY <1>a, <1>d DEF LeaseGoesOn, FaultsAreCounted, RunsGoOn
<1>2. RenewalsGoOn
  BY <1>b, <1>c DEF RenewalsGoOn, Call
<1>3. RenewalsAreCounted
  BY <1>a DEF RenewalsAreCounted
<1>4. NoConflict'
  <2>1. \A i \in Invocation : hbErr'[i] \in {hbErr[i], "upstream"}
    BY <1>a DEF TransportError, Op
  <2>2. QED
    BY <2>1 DEF Timely, NoConflict
<1>5. QED
  BY <1>1, <1>2, <1>3, <1>4, TimeGoesOn

LEMMA OwnStepKeepsTime ==
  ASSUME TimelyHeartbeats, Protocol, Protocol', Timely, NEW i \in Invocation,
         Settle(i) \/ Crash(i) \/ \E how \in Outcome : ProcessEnds(i, how)
  PROVE  Timely'
<1>. USE DEF Protocol
<1>a. rec' = rec /\ faults \in Nat /\ pc \in [Invocation -> Step]
      /\ beat \in [Invocation -> 0..HeartbeatInterval]
      /\ hbErr \in [Invocation -> HbError]
  BY DEF Settle, Crash, ProcessEnds, TypeOK
<1>b. LeaseGoesOn
  BY <1>a DEF LeaseGoesOn
<1>1. CASE Settle(i)
  <2>1. /\ SettlingStep(i) \in {"completing", "releasing", "failing"}
        /\ CallOf(SettlingStep(i)) # "renew"
    BY SettleCall
  <2>2. /\ pc[i] = "draining" /\ pc' = [pc EXCEPT ![i] = SettlingStep(i)]
        /\ net' = net \cup {Call(CallOf(SettlingStep(i)), i)}
        /\ ForgetLocals(i) /\ faults' = faults
    BY <1>1 DEF Settle
  <2>3. RunsGoOn /\ RenewalsGoOn /\ FaultsAreCounted
    BY <1>a, <2>1, <2>2 DEF RunsGoOn, RenewalsGoOn, FaultsAreCounted, ForgetLocals, Call
  <2>4. RenewalsAreCounted /\ NoConflict'
    BY <1>a, <2>2 DEF RenewalsAreCounted, Beating, Timely, NoConflict, ForgetLocals
  <2>5. QED
    BY <1>b, <2>3, <2>4, TimeGoesOn
<1>2. CASE Crash(i)
  <2>1. /\ pc' = [pc EXCEPT ![i] = "idle"] /\ ForgetLocals(i)
        /\ net' = {IF r.inv = i THEN GivenUp(r) ELSE r : r \in net}
        /\ faults' = faults + 1
    BY <1>2 DEF Crash, Finish, GivenUp, Fault
  <2>2. \A r \in net : /\ GivenUp(r).op = r.op /\ GivenUp(r).inv = r.inv
                       /\ GivenUp(r).age = r.age /\ ~GivenUp(r).awaited
    BY DEF GivenUp, TypeOK, Request
  <2>3. RenewalsGoOn
    BY <2>1, <2>2 DEF RenewalsGoOn
  <2>4. RunsGoOn /\ RenewalsAreCounted /\ FaultsAreCounted /\ NoConflict'
    BY <1>a, <2>1 DEF RunsGoOn, RenewalsAreCounted, FaultsAreCounted, ForgetLocals,
       Timely, NoConflict
  <2>5. QED
    BY <1>b, <2>3, <2>4, TimeGoesOn
<1>3. CASE \E how \in Outcome : ProcessEnds(i, how)
  <2>1. /\ pc' = [pc EXCEPT ![i] = "draining"] /\ UNCHANGED <<beat, hbErr, net>>
        /\ FaultsAreCounted
    BY <1>3 DEF ProcessEnds, Fault, FaultsAreCounted
  <2>2. RunsGoOn /\ RenewalsGoOn /\ RenewalsAreCounted /\ NoConflict'
    BY <1>a, <2>1 DEF RunsGoOn, RenewalsGoOn, RenewalsAreCounted, Beating,
       Timely, NoConflict
  <2>3. QED
    BY <1>b, <2>1, <2>2, TimeGoesOn
<1>4. QED
  BY <1>1, <1>2, <1>3

LEMMA QueueStepKeepsTime ==
  ASSUME TimelyHeartbeats, Protocol, Protocol', Timely,
         \/ \E c \in Copy : RejectExpired(c) \/ ValidationOutage(c)
         \/ \E c \in Copy, i \in Invocation : Deliver(c, i)
         \/ UNCHANGED vars
  PROVE  Timely'
<1>. USE DEF Protocol
<1>1. rec' = rec /\ FaultsAreCounted /\ beat' = beat /\ hbErr' = hbErr
  BY DEF FaultsAreCounted, RejectExpired, ValidationOutage, Deliver, Fault, worker, vars
<1>2. \/ net' = net /\ pc' = pc
      \/ \E i \in Invocation : /\ net' = net \cup {Call("claim", i)}
                                /\ pc' = [pc EXCEPT ![i] = "claiming"]
  BY DEF RejectExpired, ValidationOutage, Deliver, worker, vars
<1>3. RunsGoOn /\ RenewalsGoOn /\ RenewalsAreCounted
  BY <1>1, <1>2 DEF RunsGoOn, RenewalsGoOn, RenewalsAreCounted, Beating, Call, TypeOK
<1>4. LeaseGoesOn /\ NoConflict'
  BY <1>1 DEF LeaseGoesOn, Timely, NoConflict
<1>5. QED
  BY <1>1, <1>3, <1>4, TimeGoesOn

LEMMA TimelyStep ==
  ASSUME TimelyHeartbeats, Protocol, Timely, [Next]_vars
  PROVE  Timely'
<1>1. Protocol'
  BY ProtocolStep
<1>2. CASE UNCHANGED vars
  BY <1>1, <1>2, QueueStepKeepsTime
<1>3. CASE Next
  BY <1>1, <1>3, QueueStepKeepsTime, AnswerKeepsTime, LateCallKeepsTime,
     FailureKeepsTime, OwnStepKeepsTime, HeartbeatKeepsTime, TickKeepsTime DEF Next
<1>4. QED
  BY <1>2, <1>3

LEMMA TimelyInit ==
  ASSUME Init
  PROVE  Timely
  BY DEF Init, Timely, NoConflict, LeaseIsHeld, RenewalsFollowBeats,
     AwaitedRenewalIsInTime, OneRenewal

-----------------------------------------------------------------------------
(* A failure that is reported is one of the process.                       *)
FailuresAreReal ==
  /\ FailureIsReal
  /\ \A r \in net : r.op = "fail" => "terminal" \in ended \/ rec.token # r.inv

(* Failures are called for after a run that failed, or under a token that  *)
(* was lost.                                                               *)
FailuresGoOn ==
  \A q \in net' : q.op = "fail" =>
    \/ \E p \in net : p.op = "fail" /\ p.inv = q.inv
    \/ "terminal" \in ended
    \/ rec' = rec /\ rec.token # q.inv

LEMMA FailureGoesOn ==
  ASSUME Protocol, FailuresAreReal, FailuresGoOn, ended \subseteq ended',
         \/ \E r \in net : rec' = AfterCall(r)
         \/ Tick
         \/ UNCHANGED rec
  PROVE  FailuresAreReal'
<1>. USE DEF Protocol
<1>1. FailureIsReal'
  <2>1. ASSUME NEW r \in net, rec' = AfterCall(r), rec'.state = "failed_terminal",
               rec.state # "failed_terminal"
        PROVE  r.op = "fail" /\ rec.token = r.inv
    BY <2>1, RecordStep DEF RecordSteps
  <2>2. Tick => rec'.state = rec.state
    BY TickRecord
  <2>3. QED
    BY <2>1, <2>2 DEF FailuresAreReal, FailureIsReal
<1>2. ASSUME NEW p \in net, p.op = "fail", rec.token # p.inv
      PROVE  rec'.token # p.inv
  <2>1. ASSUME NEW r \in net, rec' = AfterCall(r)
        PROVE  rec'.token # p.inv
    <3>1. RecordSteps(r)
      BY RecordStep
    <3>2. r.op = "claim" => r.inv # p.inv
      BY <1>2 DEF ClaimIsFirst
    <3>3. p.inv # NoOne
      BY ConstantsAssumption, TypesOfCalls
    <3>4. QED
      BY <1>2, <2>1, <3>1, <3>2, <3>3 DEF RecordSteps
  <2>2. Tick => rec'.token = rec.token
    BY TickRecord
  <2>3. QED
    BY <1>2, <2>1, <2>2
<1>3. QED
  BY <1>1, <1>2 DEF FailuresAreReal, FailuresGoOn

LEMMA FailureStep ==
  ASSUME Protocol, NoConflict, FailuresAreReal, [Next]_vars
  PROVE  FailuresAreReal'
<1>. USE DEF Protocol
<1>1. ended \subseteq ended'
  BY DEF Next, vars, RejectExpired, ValidationOutage, Deliver, ExecuteAwaited,
         ExecuteAbandoned, LoseAbandoned, TransportError, Heartbeat, Settle,
         Crash, ProcessEnds, Tick
<1>2. net' \subseteq net => FailuresGoOn
  BY DEF FailuresGoOn
<1>3. ASSUME NEW c \in Copy, NEW i \in Invocation, Deliver(c, i)
      PROVE  FailuresGoOn
  BY <1>3 DEF Deliver, FailuresGoOn, Call
<1>4. ASSUME NEW r \in net, ExecuteAwaited(r)
      PROVE  FailuresGoOn
  <2>1. \/ net' = net \ {r}
        \/ /\ net' = (net \ {r}) \cup {Call("fail", r.inv)} /\ r.op = "succeed"
           /\ ~(rec.state # "none" /\ rec.token = r.inv)
    BY <1>4 DEF ExecuteAwaited, ClaimAnswered, RenewAnswered, SucceedAnswered,
       FailAnswered, ReleaseAnswered
  <2>2. CASE net' = net \ {r}
    BY <2>2 DEF FailuresGoOn
  <2>3. CASE /\ net' = (net \ {r}) \cup {Call("fail", r.inv)} /\ r.op = "succeed"
             /\ ~(rec.state # "none" /\ rec.token = r.inv)
    <3>1. rec' = rec
      BY <1>4, <2>3 DEF ExecuteAwaited, AfterCall, AfterComplete
    <3>2. rec.token # r.inv
      BY <2>3, ConstantsAssumption, TypesOfCalls DEF TypeOK
    <3>3. QED
      BY <2>3, <3>1, <3>2 DEF FailuresGoOn, Call
  <2>4. QED
    BY <2>1, <2>2, <2>3
<1>5. ASSUME NEW r \in net, TransportError(r)
      PROVE  FailuresGoOn
  <2>1. GivenUp(r).op = r.op /\ GivenUp(r).inv = r.inv
    BY DEF GivenUp, TypeOK, Request
  <2>2. \/ net' = (net \ {r}) \cup {GivenUp(r)}
        \/ net' = (net \ {r}) \cup {GivenUp(r), Call("release", r.inv)}
    BY <1>5 DEF TransportError, Abandon, GivenUp
  <2>3. QED
    BY <2>1, <2>2 DEF FailuresGoOn, Call
<1>6. ASSUME NEW i \in Invocation, Heartbeat(i)
      PROVE  FailuresGoOn
  BY <1>6 DEF Heartbeat, FailuresGoOn, Call
<1>7. ASSUME NEW i \in Invocation, Settle(i)
      PROVE  FailuresGoOn
  <2>1. /\ pc[i] = "draining" /\ net' = net \cup {Call(CallOf(SettlingStep(i)), i)}
    BY <1>7 DEF Settle
  <2>2. CallOf(SettlingStep(i)) = "fail" => result[i] = "terminal"
    BY SettleCall DEF SettlingStep, NoConflict, TypeOK, Outcome, HbError
  <2>3. result[i] \in ended
    BY <2>1 DEF SuccessHasRun
  <2>4. QED
    BY <2>1, <2>2, <2>3 DEF FailuresGoOn, Call
<1>8. ASSUME NEW i \in Invocation, Crash(i)
      PROVE  FailuresGoOn
  <2>1. \A r \in net : GivenUp(r).op = r.op /\ GivenUp(r).inv = r.inv
    BY DEF GivenUp, TypeOK, Request
  <2>2. net' = {IF r.inv = i THEN GivenUp(r) ELSE r : r \in net}
    BY <1>8 DEF Crash, GivenUp
  <2>3. QED
    BY <2>1, <2>2 DEF FailuresGoOn
<1>9. ASSUME Tick
      PROVE  FailuresGoOn
  BY <1>9 DEF Tick, FailuresGoOn, TypeOK, Request
<1>10. FailuresGoOn
  <2>1. \/ UNCHANGED vars \/ \E c \in Copy : RejectExpired(c) \/ ValidationOutage(c)
        \/ \E r \in net : ExecuteAbandoned(r) \/ LoseAbandoned(r)
        \/ \E i \in Invocation, how \in Outcome : ProcessEnds(i, how)
        => net' \subseteq net
    BY DEF vars, RejectExpired, ValidationOutage, ExecuteAbandoned, LoseAbandoned, ProcessEnds
  <2>2. QED
    BY <2>1, <1>2, <1>3, <1>4, <1>5, <1>6, <1>7, <1>8, <1>9 DEF Next
<1>11. QED
  BY <1>1, <1>10, FailureGoesOn, RecordChanges

(* With timers in time and one fault, a consumer that lives keeps its      *)
(* claim, so two never process the message at once, and a key is recorded  *)
(* as failed only after a run that failed (startIdempotencyHeartbeat).     *)
THEOREM TimelyWorkIsKept ==
  ASSUME TimelyHeartbeats
  PROVE  Spec => []TimelyInvocationKeepsItsWork
<1>1. Init => Timely /\ FailuresAreReal
  BY TimelyInit DEF Init, NoRecord, FailuresAreReal, FailureIsReal
<1>2. Protocol /\ Timely /\ FailuresAreReal /\ [Next]_vars => Timely' /\ FailuresAreReal'
  BY TimelyStep, FailureStep DEF Timely
<1>3. Timely /\ FailuresAreReal => TimelyInvocationKeepsItsWork
  BY DEF Timely, LeaseIsHeld, FailuresAreReal, TimelyInvocationKeepsItsWork,
     LiveInvocationKeepsClaim
<1>4. QED
  BY <1>1, <1>2, <1>3, ProtocolHolds, PTL DEF Spec

=============================================================================
