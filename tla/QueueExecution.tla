--------------------------- MODULE QueueExecution ---------------------------
(***************************************************************************)
(* One tenant queue message (and its duplicates) executed at least once by *)
(* Worker invocations under a leased, token-fenced idempotency claim.      *)
(*                                                                         *)
(* consumeTenantQueueMessage (multitenancy/runtime-boundaries.ts) is the   *)
(* invocation; DurableTenantStateStore (multitenancy/tenant-runtime-       *)
(* state.ts) with the rules of multitenancy/idempotency.ts is the store,   *)
(* a Durable Object whose operations are atomic transactions reached by    *)
(* calls that may be lost, or executed after the caller has given up.      *)
(*                                                                         *)
(* Time is relative: a lease is the number of ticks until lease_until      *)
(* (negative once it is past) and a request carries the age of the         *)
(* timestamp its sender read, so no clock grows without bound.             *)
(***************************************************************************)
EXTENDS Integers, FiniteSets, TLC

CONSTANTS
  Copy,               \* the queued message and its duplicates: one key
  Invocation,         \* identities of consumer invocations
  NoOne,              \* the token of an absent claim
  ContextOf,          \* the signed context (hash, revision) a copy carries
  Lease,              \* IDEMPOTENCY_LEASE_MS
  HeartbeatInterval,  \* a third of the lease in production
  ContextTTL,         \* ticks a signed tenant context stays valid
  MaxDelay,           \* bound: ticks a store call may be in flight
  MaxDeliveries,      \* max_retries + 1 of the queue consumer
  MaxFaults,          \* bound: crashes, lost calls and process failures
  TimelyTimers,       \* whether heartbeat timers fire on time
  ContextsExpire      \* whether time runs against the signed contexts

ASSUME ConstantsAssumption ==
  /\ NoOne \notin Invocation
  /\ Copy # {}
  /\ ContextOf \in [Copy -> Copy]
  /\ Lease \in Nat \ {0}
  /\ HeartbeatInterval \in Nat \ {0}
  /\ ContextTTL \in Nat
  /\ MaxDelay \in Nat
  /\ MaxDeliveries \in Nat \ {0}
  /\ MaxFaults \in Nat
  /\ TimelyTimers \in BOOLEAN
  /\ ContextsExpire \in BOOLEAN

VARIABLES
  rec,       \* the stored idempotency claim of the key
  copy,      \* where each copy of the message is
  tries,     \* deliveries of each copy so far
  delay,     \* ticks before a retried copy may be delivered again
  ttl,       \* ticks until the copy's signed context is no longer accepted
  pc,        \* the step each invocation is at
  msg,       \* the copy an invocation was started for
  result,    \* how options.process ended
  beat,      \* ticks since the heartbeat timer last fired
  hbErr,     \* heartbeatError
  net,       \* store calls in flight
  faults,    \* faults so far
  ended      \* history: how runs of options.process have ended

queue    == <<copy, tries, delay, ttl>>
worker   == <<pc, msg, result, beat, hbErr>>
vars     == <<rec, copy, tries, delay, ttl, pc, msg, result, beat, hbErr,
              net, faults, ended>>

-----------------------------------------------------------------------------
(* Values.                                                                 *)

Terminal   == {"succeeded", "failed_terminal"}
RecState   == {"none", "claimed"} \cup Terminal
Waiting    == {"claiming", "completing", "failing", "releasing"}
Step       == {"idle", "processing", "draining"} \cup Waiting
Outcome    == {"ok", "retryable", "terminal"}
HbError    == {"none", "conflict", "upstream"}
CopyState  == {"queued", "delivered", "acked", "rejected", "dead"}
Final      == {"acked", "rejected", "dead"}
Op         == {"claim", "renew", "succeed", "fail", "release"}
Request    == [op : Op, inv : Invocation, age : 0..MaxDelay, awaited : BOOLEAN]

NoRecord   == [state |-> "none", token |-> NoOne, lease |-> 0]

(* The store call an invocation is waiting for at each waiting step.       *)
CallOf(step) == CASE step = "claiming"   -> "claim"
                  [] step = "completing" -> "succeed"
                  [] step = "failing"    -> "fail"
                  [] step = "releasing"  -> "release"

Call(op, i) == [op |-> op, inv |-> i, age |-> 0, awaited |-> TRUE]

Beating(i)  == \E r \in net : r.op = "renew" /\ r.inv = i /\ r.awaited

(* A claim token is minted per claim call (createClaimToken): the identity *)
(* of an invocation stands for its token, so an identity is taken again    *)
(* only when neither the record nor a call in flight carries it.           *)
Fresh(i) == /\ pc[i] = "idle"
            /\ rec.token # i
            /\ \A r \in net : r.inv # i

Init ==
  /\ rec    = NoRecord
  /\ copy   = [c \in Copy |-> "queued"]
  /\ tries  = [c \in Copy |-> 0]
  /\ delay  = [c \in Copy |-> 0]
  /\ ttl    = [c \in Copy |-> ContextTTL]
  /\ pc     = [i \in Invocation |-> "idle"]
  /\ msg    = [i \in Invocation |-> CHOOSE c \in Copy : TRUE]
  /\ result = [i \in Invocation |-> "ok"]
  /\ beat   = [i \in Invocation |-> 0]
  /\ hbErr  = [i \in Invocation |-> "none"]
  /\ net    = {}
  /\ faults = 0
  /\ ended  = {}

-----------------------------------------------------------------------------
(* The queue (external): at-least-once delivery, retry and dead letters.   *)

Ack(c) == /\ copy' = [copy EXCEPT ![c] = "acked"]
          /\ UNCHANGED delay

RetryOnceTooOften(c, ticks) ==
  IF tries[c] <= MaxDeliveries
  THEN /\ copy'  = [copy EXCEPT ![c] = "queued"]
       /\ delay' = [delay EXCEPT ![c] = ticks]
  ELSE /\ copy'  = [copy EXCEPT ![c] = "dead"]
       /\ UNCHANGED delay

Retry(c, ticks) ==
  IF tries[c] < MaxDeliveries
  THEN /\ copy'  = [copy EXCEPT ![c] = "queued"]
       /\ delay' = [delay EXCEPT ![c] = ticks]
  ELSE /\ copy'  = [copy EXCEPT ![c] = "dead"]
       /\ UNCHANGED delay

Fault == faults < MaxFaults /\ faults' = faults + 1

Deliverable(c) == copy[c] = "queued" /\ delay[c] = 0

(* A delivery whose signed context is accepted reads the clock and sends   *)
(* its claim to the store.                                                 *)
Deliver(c, i) ==
  /\ Deliverable(c) /\ ttl[c] >= 0 /\ Fresh(i)
  /\ copy'   = [copy EXCEPT ![c] = "delivered"]
  /\ tries'  = [tries EXCEPT ![c] = @ + 1]
  /\ pc'     = [pc EXCEPT ![i] = "claiming"]
  /\ msg'    = [msg EXCEPT ![i] = c]
  /\ net'    = net \cup {Call("claim", i)}
  /\ UNCHANGED <<rec, delay, ttl, result, beat, hbErr, faults, ended>>

(* TENANT_CONTEXT_EXPIRED is not a retryable code: the delivery is         *)
(* acknowledged before anything was claimed.                               *)
RejectExpired(c) ==
  /\ Deliverable(c) /\ ttl[c] < 0
  /\ copy'  = [copy EXCEPT ![c] = "rejected"]
  /\ tries' = [tries EXCEPT ![c] = @ + 1]
  /\ UNCHANGED <<rec, delay, ttl, worker, net, faults, ended>>

(* The authority is unavailable while the context is validated: retried.   *)
ValidationOutage(c) ==
  /\ Deliverable(c) /\ Fault
  /\ tries' = [tries EXCEPT ![c] = @ + 1]
  /\ IF tries[c] + 1 < MaxDeliveries
     THEN UNCHANGED copy
     ELSE copy' = [copy EXCEPT ![c] = "dead"]
  /\ UNCHANGED <<rec, delay, ttl, worker, net, ended>>

-----------------------------------------------------------------------------
(* The store.                                                              *)

(* lease_until <= updated_at, for a caller whose timestamp is age old.     *)
Expired(age) == rec.state = "claimed" /\ rec.lease <= -age

(* updated_at of the caller lies before updated_at of the claim.           *)
Regresses(age) == age > Lease - rec.lease

SameContext(c) == ContextOf[msg[rec.token]] = ContextOf[c]

Claimable(r) == \/ rec.state = "none"
                \/ Expired(r.age) /\ SameContext(msg[r.inv])

Renewable(r) == /\ rec.state = "claimed" /\ rec.token = r.inv
                /\ ~Expired(r.age) /\ ~Regresses(r.age)

ClaimedBy(r) == [state |-> "claimed", token |-> r.inv, lease |-> Lease - r.age]

Completed(state) == [rec EXCEPT !.state = state, !.lease = 0]

AfterClaim(r)   == IF Claimable(r) THEN ClaimedBy(r) ELSE rec
AfterRenewUnextended(r) == rec

AfterRenew(r)   == IF Renewable(r) THEN [rec EXCEPT !.lease = Lease - r.age]
                                   ELSE rec
AfterCompleteUnfenced(r, state) ==
  IF rec.state # "none" THEN Completed(state) ELSE rec

AfterComplete(r, state) ==
  IF rec.state # "none" /\ rec.token = r.inv THEN Completed(state) ELSE rec
AfterReleaseUnfenced(r) == IF rec.state = "claimed" THEN NoRecord ELSE rec

AfterRelease(r) ==
  IF rec.state = "claimed" /\ rec.token = r.inv THEN NoRecord ELSE rec

AfterCall(r) == CASE r.op = "claim"   -> AfterClaim(r)
                  [] r.op = "renew"   -> AfterRenew(r)
                  [] r.op = "succeed" -> AfterComplete(r, "succeeded")
                  [] r.op = "fail"    -> AfterComplete(r, "failed_terminal")
                  [] r.op = "release" -> AfterRelease(r)

-----------------------------------------------------------------------------
(* The invocation: what it does with each answer.                          *)

Finish(i) == pc' = [pc EXCEPT ![i] = "idle"]

(* inProgressRetryDelaySeconds: come back once the lease is over.          *)
AckInProgress(c) == Ack(c)

RetryAtOnce(c) == Retry(c, 0)

RetryAfterLease(c) == Retry(c, IF rec.lease > 0 THEN rec.lease ELSE 0)

ClaimAnswered(r) ==
  LET i == r.inv
      c == msg[i]
  IN  \/ /\ Claimable(r)
         /\ pc'   = [pc EXCEPT ![i] = "processing"]
         /\ beat' = [beat EXCEPT ![i] = 0]
         /\ net'  = net \ {r}
         /\ UNCHANGED <<copy, delay>>
      \/ /\ ~Claimable(r) /\ SameContext(c) /\ rec.state = "claimed"
         /\ Finish(i) /\ RetryAfterLease(c)
         /\ net' = net \ {r}
         /\ UNCHANGED beat
      \/ /\ ~Claimable(r) /\ (~SameContext(c) \/ rec.state \in Terminal)
         /\ Finish(i) /\ Ack(c)
         /\ net' = net \ {r}
         /\ UNCHANGED beat

(* completeIdempotency answered: done, or IDEMPOTENCY_CONFLICT and         *)
(* IDEMPOTENCY_CLAIM_MISSING, neither of which is retryable, lead to an    *)
(* attempt to settle the claim as failed_terminal.                         *)
SucceedAnswered(r) ==
  LET i == r.inv
  IN  \/ /\ rec.state # "none" /\ rec.token = i
         /\ Finish(i) /\ Ack(msg[i])
         /\ net' = net \ {r}
      \/ /\ ~(rec.state # "none" /\ rec.token = i)
         /\ pc'  = [pc EXCEPT ![i] = "failing"]
         /\ net' = (net \ {r}) \cup {Call("fail", i)}
         /\ UNCHANGED <<copy, delay>>

(* Settling as failed_terminal: a conflict means a newer delivery owns the *)
(* key and this one is acknowledged; a missing claim is rethrown, and the  *)
(* unsettled message is delivered again.                                   *)
FailAnswered(r) ==
  LET c == msg[r.inv]
  IN  /\ Finish(r.inv)
      /\ net' = net \ {r}
      /\ IF rec.state = "none" THEN Retry(c, 0) ELSE Ack(c)

(* Releasing: a missing claim is no error; a newer claim is a conflict.    *)
ReleaseAnswered(r) ==
  LET c == msg[r.inv]
  IN  /\ Finish(r.inv)
      /\ net' = net \ {r}
      /\ IF rec.state # "none" /\ rec.token # r.inv THEN Ack(c) ELSE Retry(c, 0)

RenewAnswered(r) ==
  LET i == r.inv
      failure == IF rec.state = "none" \/ ( /\ rec.state = "claimed"
                                            /\ rec.token = i
                                            /\ ~Expired(r.age) )
                 THEN "upstream" ELSE "conflict"
  IN  /\ hbErr' = IF Renewable(r) THEN hbErr ELSE [hbErr EXCEPT ![i] = failure]
      /\ net' = net \ {r}

(* The store executes a call. Its answer reaches the invocation when it is *)
(* still waiting for it, and is dropped otherwise.                         *)
ExecuteAwaited(r) ==
  /\ r \in net /\ r.awaited
  /\ rec' = AfterCall(r)
  /\ \/ r.op = "claim"   /\ ClaimAnswered(r)   /\ UNCHANGED hbErr
     \/ r.op = "renew"   /\ RenewAnswered(r)   /\ UNCHANGED <<pc, beat, copy, delay>>
     \/ r.op = "succeed" /\ SucceedAnswered(r) /\ UNCHANGED <<beat, hbErr>>
     \/ r.op = "fail"    /\ FailAnswered(r)    /\ UNCHANGED <<beat, hbErr>>
     \/ r.op = "release" /\ ReleaseAnswered(r) /\ UNCHANGED <<beat, hbErr>>
  /\ UNCHANGED <<tries, ttl, msg, result, faults, ended>>

ExecuteAbandoned(r) ==
  /\ r \in net /\ ~r.awaited
  /\ rec' = AfterCall(r)
  /\ net' = net \ {r}
  /\ UNCHANGED <<queue, worker, faults, ended>>

LoseAbandoned(r) ==
  /\ r \in net /\ ~r.awaited
  /\ net' = net \ {r}
  /\ UNCHANGED <<rec, queue, worker, faults, ended>>

(* A call fails in transport, which the code reads as UPSTREAM_UNAVAILABLE.*)
(* The store may still execute it.                                         *)
Abandon(r) == net' = (net \ {r}) \cup {[r EXCEPT !.awaited = FALSE]}

TransportError(r) ==
  /\ r \in net /\ r.awaited /\ Fault
  /\ LET i == r.inv
         c == msg[i]
     IN  \/ /\ r.op = "claim"          \* nothing claimed: message.retry()
            /\ Finish(i) /\ Retry(c, 0) /\ Abandon(r)
            /\ UNCHANGED hbErr
         \/ /\ r.op = "renew"
            /\ hbErr' = [hbErr EXCEPT ![i] = "upstream"]
            /\ Abandon(r)
            /\ UNCHANGED <<pc, copy, delay>>
         \/ /\ r.op = "succeed"        \* retryable: release, then retry
            /\ pc'  = [pc EXCEPT ![i] = "releasing"]
            /\ net' = (net \ {r}) \cup {[r EXCEPT !.awaited = FALSE],
                                        Call("release", i)}
            /\ UNCHANGED <<copy, delay, hbErr>>
         \/ /\ r.op \in {"fail", "release"}   \* rethrown, message unsettled
            /\ Finish(i) /\ Retry(c, 0) /\ Abandon(r)
            /\ UNCHANGED hbErr
  /\ UNCHANGED <<rec, tries, ttl, msg, result, beat, ended>>

-----------------------------------------------------------------------------
(* The invocation: its own steps.                                          *)

(* The interval timer fires; a heartbeat still in flight is not doubled.   *)
Heartbeat(i) ==
  /\ pc[i] = "processing" /\ beat[i] = HeartbeatInterval
  /\ beat' = [beat EXCEPT ![i] = 0]
  /\ net'  = IF Beating(i) THEN net ELSE net \cup {Call("renew", i)}
  /\ UNCHANGED <<rec, queue, pc, msg, result, hbErr, faults, ended>>

(* options.process ends and the interval timer is cleared.                 *)
ProcessEnds(i, how) ==
  /\ pc[i] = "processing"
  /\ IF how = "retryable" THEN Fault ELSE UNCHANGED faults
  /\ pc'     = [pc EXCEPT ![i] = "draining"]
  /\ result' = [result EXCEPT ![i] = how]
  /\ ended'  = ended \cup {how}
  /\ UNCHANGED <<rec, queue, msg, beat, hbErr, net>>

(* The call that settles the claim: a failure of the process comes before  *)
(* a heartbeat error, which turns a success into a failure.                *)
SettlingRetryableAsSuccess(i) ==
  IF result[i] # "terminal" /\ hbErr[i] = "none" THEN "completing" ELSE "failing"

SettlingUpstreamAsFailure(i) ==
  IF result[i] = "ok" /\ hbErr[i] = "none" THEN "completing" ELSE "failing"

SettlingStep(i) ==
  CASE result[i] = "ok" /\ hbErr[i] = "none"     -> "completing"
    [] result[i] = "ok" /\ hbErr[i] = "upstream" -> "releasing"
    [] result[i] = "ok" /\ hbErr[i] = "conflict" -> "failing"
    [] result[i] = "retryable"                   -> "releasing"
    [] result[i] = "terminal"                    -> "failing"

(* Locals that no later step reads go back to their initial value.         *)
ForgetLocals(i) == /\ result' = [result EXCEPT ![i] = "ok"]
                   /\ beat'   = [beat EXCEPT ![i] = 0]
                   /\ hbErr'  = [hbErr EXCEPT ![i] = "none"]

Settle(i) ==
  /\ pc[i] = "draining" /\ ~Beating(i)
  /\ pc'  = [pc EXCEPT ![i] = SettlingStep(i)]
  /\ net' = net \cup {Call(CallOf(SettlingStep(i)), i)}
  /\ ForgetLocals(i)
  /\ UNCHANGED <<rec, queue, msg, faults, ended>>

(* The isolate dies: its calls are abandoned, the queue delivers again.    *)
Crash(i) ==
  /\ pc[i] # "idle" /\ Fault
  /\ Finish(i) /\ Retry(msg[i], 0) /\ ForgetLocals(i)
  /\ net' = {IF r.inv = i THEN [r EXCEPT !.awaited = FALSE] ELSE r : r \in net}
  /\ UNCHANGED <<rec, tries, ttl, msg, ended>>

-----------------------------------------------------------------------------
(* Time.                                                                   *)

Down(n, floor) == IF n > floor THEN n - 1 ELSE n

Tick ==
  /\ \A r \in net : r.age < MaxDelay
  /\ TimelyTimers => \A i \in Invocation :
                       pc[i] = "processing" => beat[i] < HeartbeatInterval
  /\ rec'   = IF rec.state = "claimed"
              THEN [rec EXCEPT !.lease = Down(@, -MaxDelay)] ELSE rec
  /\ delay' = [c \in Copy |-> Down(delay[c], 0)]
  /\ ttl'   = IF ContextsExpire
              THEN [c \in Copy |-> Down(ttl[c], -1)] ELSE ttl
  /\ beat'  = [i \in Invocation |->
                 IF pc[i] = "processing" /\ beat[i] < HeartbeatInterval
                 THEN beat[i] + 1 ELSE beat[i]]
  /\ net'   = {[r EXCEPT !.age = @ + 1] : r \in net}
  /\ UNCHANGED <<copy, tries, pc, msg, result, hbErr, faults, ended>>

-----------------------------------------------------------------------------

Next ==
  \/ \E c \in Copy : RejectExpired(c) \/ ValidationOutage(c)
  \/ \E c \in Copy, i \in Invocation : Deliver(c, i)
  \/ \E r \in net : \/ ExecuteAwaited(r) \/ ExecuteAbandoned(r)
                    \/ LoseAbandoned(r) \/ TransportError(r)
  \/ \E i \in Invocation : Heartbeat(i) \/ Settle(i) \/ Crash(i)
  \/ \E i \in Invocation, how \in Outcome : ProcessEnds(i, how)
  \/ Tick

Spec == Init /\ [][Next]_vars

(* Workers that are alive run, the store answers or fails, the queue       *)
(* delivers what it may deliver, processes end and time passes.            *)
Fairness ==
  /\ \A c \in Copy : /\ WF_vars(\E i \in Invocation : Deliver(c, i))
                     /\ WF_vars(RejectExpired(c))
  /\ \A i \in Invocation :
       /\ WF_vars(\E r \in net : r.inv = i /\ ExecuteAwaited(r))
       /\ WF_vars(\E r \in net : /\ r.inv = i
                                /\ (ExecuteAbandoned(r) \/ LoseAbandoned(r)))
       /\ WF_vars(Heartbeat(i))
       /\ WF_vars(Settle(i))
       /\ WF_vars(\E how \in {"ok", "terminal"} : ProcessEnds(i, how))
  /\ WF_vars(Tick)

FairSpec == Spec /\ Fairness

-----------------------------------------------------------------------------
(* Properties.                                                             *)

(* Every variable stays in its type: in particular a request never grows   *)
(* older than MaxDelay and the record's lease stays within -MaxDelay and   *)
(* Lease (idempotencyLeaseUntil).                                          *)
TypeOK ==
  /\ rec \in [state : RecState, token : Invocation \cup {NoOne},
              lease : -MaxDelay..Lease]
  /\ rec.state = "none" <=> rec.token = NoOne
  /\ copy \in [Copy -> CopyState]
  /\ tries \in [Copy -> 0..MaxDeliveries]
  /\ delay \in [Copy -> 0..Lease]
  /\ ttl \in [Copy -> -1..ContextTTL]
  /\ pc \in [Invocation -> Step]
  /\ msg \in [Invocation -> Copy]
  /\ result \in [Invocation -> Outcome]
  /\ beat \in [Invocation -> 0..HeartbeatInterval]
  /\ hbErr \in [Invocation -> HbError]
  /\ net \subseteq Request
  /\ faults \in 0..MaxFaults
  /\ ended \subseteq Outcome

Running(i) == pc[i] \in {"processing", "draining"}
Owns(i)    == rec.state = "claimed" /\ rec.token = i

(* A claim that has been settled keeps its outcome and its token for good, *)
(* although complete() never looks at the state it overwrites and its call *)
(* may execute after the caller gave up (DurableTenantStateStore.complete).*)
TerminalIsFinal == [][rec.state \in Terminal => rec' = rec]_vars

(* The claim of a running invocation is only ever lost to a reclaimer and  *)
(* only once its lease has run out: no abandoned release, late claim or    *)
(* stale settlement takes it away (claim_token fencing).                   *)
ClaimLostOnlyByExpiry ==
  [][\A i \in Invocation : Running(i) /\ Owns(i) /\ ~Owns(i)'
       => rec.lease <= 0 /\ rec'.state = "claimed"]_vars

(* When every copy has been acknowledged as handled the key is settled: a  *)
(* stale Worker that acknowledges on IDEMPOTENCY_CONFLICT never drops the  *)
(* last chance to run the message ("the newer delivery owns the retry").   *)
AllAckedIsSettled ==
  (\A c \in Copy : copy[c] = "acked") => rec.state \in Terminal

(* A key is recorded as succeeded only after a process run succeeded.      *)
SuccessIsReal == rec.state = "succeeded" => "ok" \in ended

(* With timers on time and one fault, a live invocation keeps its claim,   *)
(* so two never process the message at once: a third of the lease is often *)
(* enough a heartbeat to survive one lost renewal.                         *)
LiveInvocationKeepsClaim ==
  \A i \in Invocation : pc[i] = "processing" => Owns(i)

(* ... and a key is recorded as failed_terminal only after a process run   *)
(* failed for good, never because a heartbeat was refused.                 *)
FailureIsReal == rec.state = "failed_terminal" => "terminal" \in ended

(* With timers in time, no consumer that lives loses its claim, and what is*)
(* settled as failed did fail.                                             *)
TimelyInvocationKeepsItsWork == LiveInvocationKeepsClaim /\ FailureIsReal

(* One crash, lost call or retryable failure never uses up the deliveries  *)
(* of the queue: retries wait out the lease, and the key is settled.       *)
EventuallySettled == <>(rec.state \in Terminal)

-----------------------------------------------------------------------------
(* Instances for model checking: copies that share one tenant context or   *)
(* have one each, and the symmetry of the invocations.                     *)
SameContexts == LET shared == CHOOSE c \in Copy : TRUE IN [c \in Copy |-> shared]
OwnContexts  == [c \in Copy |-> c]
Invocations  == Permutations(Invocation)
=============================================================================
