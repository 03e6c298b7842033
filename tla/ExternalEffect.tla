--------------------------- MODULE ExternalEffect ---------------------------
(***************************************************************************)
(* The A0 external effect: one Slack reply that must be handed to its      *)
(* provider at most once although the queue delivers it at least once,     *)
(* and the reconciliation of a reply whose outcome was not observed.       *)
(*                                                                         *)
(* processCompanyAuthorityExternalEffect (multitenancy/company-authority-  *)
(* external-effect-outbox.ts) is an invocation, executeCompanyAuthority-   *)
(* ReplyOperation (index.ts) its provider_send, reconcileCompanyAuthority- *)
(* ReplyOperation the reconciler. They share five stores: the outbox       *)
(* record and the reconciliation job (multitenancy/tenant-runtime-         *)
(* state.ts), the runtime event claim of the Slack message                 *)
(* (runtime-event-claim.ts), the accounting ledger and Slack itself.       *)
(***************************************************************************)
EXTENDS Integers, FiniteSets

CONSTANTS
  Invocation,    \* runs of processCompanyAuthorityExternalEffect
  Mail,          \* the reconciliation message and its duplicates
  NoOne,         \* no owner
  Other,         \* the T0 delivery of the same Slack message
  MaxDeliveries, \* max_retries + 1 of the queue consumer
  MaxFaults      \* bound: crashes, failed calls and provider failures

ASSUME EffectAssumption ==
  /\ NoOne \notin Invocation /\ Other \notin Invocation /\ NoOne # Other
  /\ MaxDeliveries \in Nat \ {0}
  /\ MaxFaults \in Nat

VARIABLES
  outbox,   \* the durable record of the effect
  claim,    \* the runtime event claim of the Slack message
  ledger,   \* the accounting artifact of the operation
  posts,    \* replies in the Slack thread
  job,      \* the durable reconciliation job
  sent,     \* history: invocations that entered provider_send
  late,     \* outbox calls given up by their caller, not executed yet
  pc,       \* the step each invocation is at
  obs,      \* whether it saw the timestamp of its reply (observedTs)
  end,      \* how provider_send ended
  cap,      \* the recovery it captured
  at,       \* the step of each reconciliation delivery
  tries,    \* deliveries of each reconciliation message so far
  seen,     \* the settlement stage it read with the job
  held,     \* the outbox record it read
  faults    \* faults so far

world  == <<claim, ledger, posts>>
sender == <<sent, pc, obs, end, cap>>
recon  == <<at, tries, seen, held>>
vars   == <<outbox, claim, ledger, posts, job, sent, late, pc, obs, end, cap,
            at, tries, seen, held, faults>>

-----------------------------------------------------------------------------
(* Values.                                                                 *)

NoRecovery == [by |-> NoOne, observed |-> FALSE]
Recovery   == [by : Invocation, observed : BOOLEAN] \cup {NoRecovery}

Decided     == {"succeeded", "failed_terminal", "unknown"}
OutboxState == {"absent", "pending", "in_flight"} \cup Decided
Effect      == [state : OutboxState, token : Invocation \cup {NoOne},
                recovery : Recovery]

Record(state, i, recovery) == [state |-> state, token |-> i, recovery |-> recovery]
Pending   == Record("pending", NoOne, NoRecovery)
Flight(i) == Record("in_flight", i, NoRecovery)

Claim    == [status : {"none", "processing", "completed"},
             token : Invocation \cup {NoOne, Other},
             preserve : BOOLEAN, old : BOOLEAN]
NoClaim  == [status |-> "none", token |-> NoOne, preserve |-> FALSE, old |-> FALSE]

(* Settlement stages of a job in the order of settlementRank.              *)
Stage   == {"absent", "queued", "accounting_completed",
            "runtime_claim_completed", "settled"}
Rank(s) == CASE s = "absent" -> 0 [] s = "queued" -> 1
             [] s = "accounting_completed" -> 2
             [] s = "runtime_claim_completed" -> 3 [] s = "settled" -> 4

Calling  == {"claiming", "reading"}
Sending  == {"sending", "replying", "delivering", "completing", "recording",
             "deferring", "writing", "enqueueing", "dispatching"}
Ended    == {"acked", "retried", "refused", "crashed"}
Step     == {"idle"} \cup Calling \cup Sending \cup Ended
Result   == {"none", "observed", "unobserved", "thrown", "ineligible"}
MailStep == {"unsent", "queued", "reading", "verifying", "readback",
             "accounting", "mark_accounting", "claiming", "mark_claim",
             "mark_settled", "finishing", "acked", "dead"}
Working  == MailStep \ {"unsent", "queued", "acked", "dead"}

Init ==
  /\ outbox = Record("absent", NoOne, NoRecovery)
  /\ claim  = NoClaim
  /\ ledger = "none"
  /\ posts  = 0
  /\ job    = [stage |-> "absent", recovery |-> NoRecovery]
  /\ sent   = {}
  /\ late   = {}
  /\ pc     = [i \in Invocation |-> "idle"]
  /\ obs    = [i \in Invocation |-> FALSE]
  /\ end    = [i \in Invocation |-> "none"]
  /\ cap    = [i \in Invocation |-> NoRecovery]
  /\ at     = [m \in Mail |-> "unsent"]
  /\ tries  = [m \in Mail |-> 0]
  /\ seen   = [m \in Mail |-> "absent"]
  /\ held   = [m \in Mail |-> Record("absent", NoOne, NoRecovery)]
  /\ faults = 0

Fault == faults < MaxFaults /\ faults' = faults + 1

Goto(i, step) == pc' = [pc EXCEPT ![i] = step]

-----------------------------------------------------------------------------
(* The outbox store: what each transaction does to the record.             *)

(* assertSameEffect: the recovery, once stored, cannot change or vanish.   *)
SameEffect(rec) == outbox.recovery # NoRecovery => rec.recovery = outbox.recovery

(* assertClaimTokenOwner *)
OwnsToken(rec) == outbox.state \in {"in_flight", "unknown"}
                    => rec.token = outbox.token

(* assertValidTransition *)
NextStates(state) ==
  CASE state = "pending"   -> {"pending", "in_flight"}
    [] state = "in_flight" -> {"in_flight"} \cup Decided
    [] state = "unknown"   -> {"unknown", "succeeded"}
    [] OTHER               -> {state}

Writable(rec) == /\ outbox.state # "absent"
                 /\ SameEffect(rec) /\ OwnsToken(rec)
                 /\ rec.state \in NextStates(outbox.state)

AfterWrite(rec) == IF Writable(rec) THEN rec ELSE outbox

AfterClaimOverwriting(i) == IF SameEffect(Flight(i)) THEN Flight(i) ELSE outbox

AfterClaim(i) == IF outbox.state = "pending" /\ SameEffect(Flight(i))
                 THEN Flight(i) ELSE outbox

AfterLate(rec) == IF rec.state = "in_flight" THEN AfterClaim(rec.token)
                                             ELSE AfterWrite(rec)

(* A call that its caller has given up reaches the store, or never does.   *)
LateCall(rec) ==
  /\ rec \in late
  /\ late' = late \ {rec}
  /\ outbox' \in {AfterLate(rec), outbox}
  /\ UNCHANGED <<world, job, sender, recon, faults>>

-----------------------------------------------------------------------------
(* The invocation: begin and claim.                                        *)

Begun == IF outbox.state = "absent" THEN Pending ELSE outbox

(* A candidate carries no recovery: begin refuses it once one is stored.   *)
Begin(i) ==
  /\ pc[i] = "idle"
  /\ \/ /\ ~SameEffect(Pending)
        /\ Goto(i, "refused")
        /\ UNCHANGED <<outbox, faults>>
     \/ /\ SameEffect(Pending)
        /\ outbox' = Begun
        /\ Goto(i, "claiming")
        /\ UNCHANGED faults
     \/ /\ Fault
        /\ outbox' \in {Begun, outbox}
        /\ Goto(i, "retried")
  /\ UNCHANGED <<world, job, sent, late, obs, end, cap, recon>>

(* Only a pending record is claimed: an in_flight one is retried, whatever *)
(* its claim_expires_at says, and a decided one is acknowledged.           *)
NotClaimedAcked(i) == IF ~SameEffect(Flight(i)) THEN "refused" ELSE "acked"

NotClaimed(i) == IF ~SameEffect(Flight(i)) THEN "refused"
                 ELSE IF outbox.state = "in_flight" THEN "retried"
                 ELSE "acked"

ClaimOutbox(i) ==
  /\ pc[i] = "claiming"
  /\ \/ /\ outbox.state = "pending"
        /\ outbox' = AfterClaim(i)
        /\ sent' = sent \cup {i}
        /\ Goto(i, "sending")
        /\ UNCHANGED <<late, faults>>
     \/ /\ outbox.state # "pending"
        /\ Goto(i, NotClaimed(i))
        /\ UNCHANGED <<outbox, sent, late, faults>>
     \/ /\ Fault
        /\ \/ outbox' \in {AfterClaim(i), outbox} /\ UNCHANGED late
           \/ late' = late \cup {Flight(i)} /\ UNCHANGED outbox
        /\ Goto(i, "reading")
        /\ UNCHANGED sent
  /\ UNCHANGED <<world, job, obs, end, cap, recon>>

(* The readback after a claim that failed: an own claim goes ahead.        *)
AnyFlight(i) == outbox.state = "in_flight"

OwnFlight(i) == outbox.state = "in_flight" /\ outbox.token = i

ReadBack(i) ==
  /\ pc[i] = "reading"
  /\ \/ /\ OwnFlight(i)
        /\ sent' = sent \cup {i}
        /\ Goto(i, "sending")
        /\ UNCHANGED faults
     \/ /\ ~OwnFlight(i)
        /\ Goto(i, "retried")
        /\ UNCHANGED <<sent, faults>>
     \/ /\ Fault
        /\ Goto(i, "retried")
        /\ UNCHANGED sent
  /\ UNCHANGED <<outbox, world, job, late, obs, end, cap, recon>>

-----------------------------------------------------------------------------
(* The invocation: provider_send.                                          *)

(* claimRuntimeEvent: a preserved claim is never taken over.               *)
RuntimeClaimableOnceOld == claim.status # "completed" /\ (claim.status = "none" \/ claim.old)

RuntimeClaimable == \/ claim.status = "none"
                    \/ /\ claim.status = "processing"
                       /\ claim.old /\ ~claim.preserve

Processing(owner) == [status |-> "processing", token |-> owner,
                      preserve |-> owner # Other, old |-> FALSE]

(* completeRuntimeEvent *)
Completable(owner) == claim.status # "none" /\ claim.token = owner
CompletedClaim     == [claim EXCEPT !.status = "completed", !.preserve = FALSE,
                                    !.old = FALSE]

Returns(i, result) == Goto(i, "writing") /\ end' = [end EXCEPT ![i] = result]

(* Reply eligibility, then the runtime event claim with preserve set.      *)
ClaimEvent(i) ==
  /\ pc[i] = "sending"
  /\ \/ Returns(i, "ineligible") /\ UNCHANGED <<claim, faults>>
     \/ /\ RuntimeClaimable
        /\ claim' = Processing(i)
        /\ Goto(i, "replying")
        /\ UNCHANGED <<end, faults>>
     \/ ~RuntimeClaimable /\ Returns(i, "unobserved") /\ UNCHANGED <<claim, faults>>
     \/ /\ Fault /\ Returns(i, "thrown")
        /\ claim' \in {claim, IF RuntimeClaimable THEN Processing(i) ELSE claim}
  /\ UNCHANGED <<outbox, ledger, posts, job, sent, late, obs, cap, recon>>

(* The container writes the reply, or ends without one; a failure before   *)
(* the delivery is accounted for as not_attempted and rethrown.            *)
Compose(i) ==
  /\ pc[i] = "replying"
  /\ \/ Goto(i, "delivering") /\ UNCHANGED <<ledger, end, faults>>
     \/ Goto(i, "recording") /\ UNCHANGED <<ledger, end, faults>>
     \/ /\ Fault /\ Returns(i, "thrown")
        /\ ledger' \in {"none", "pending", "written"}
  /\ UNCHANGED <<outbox, claim, posts, job, sent, late, obs, cap, recon>>

(* chat.postMessage and its readback.                                      *)
Post(i) ==
  /\ pc[i] = "delivering"
  /\ \/ /\ posts' = posts + 1
        /\ obs' = [obs EXCEPT ![i] = TRUE]
        /\ Goto(i, "completing")
        /\ UNCHANGED faults
     \/ /\ Fault
        /\ \/ posts' \in {posts, posts + 1} /\ UNCHANGED obs
           \/ posts' = posts + 1 /\ obs' = [obs EXCEPT ![i] = TRUE]
        /\ Goto(i, "deferring")
  /\ UNCHANGED <<outbox, claim, ledger, job, sent, late, end, cap, recon>>

CompleteEvent(i) ==
  /\ pc[i] = "completing"
  /\ \/ /\ Completable(i)
        /\ claim' = CompletedClaim
        /\ Goto(i, "recording")
        /\ UNCHANGED faults
     \/ ~Completable(i) /\ Goto(i, "deferring") /\ UNCHANGED <<claim, faults>>
     \/ /\ Fault
        /\ claim' \in {claim, IF Completable(i) THEN CompletedClaim ELSE claim}
        /\ Goto(i, "deferring")
  /\ UNCHANGED <<outbox, ledger, posts, job, sent, late, obs, end, cap, recon>>

(* recordOperation: persist the artifact, write it out, mark it written.   *)
RecordOperation(i) ==
  /\ pc[i] = "recording"
  /\ \/ /\ ledger' = "written"
        /\ Returns(i, IF obs[i] THEN "observed" ELSE "unobserved")
        /\ UNCHANGED faults
     \/ /\ Fault /\ Returns(i, "thrown")
        /\ ledger' \in {"none", "pending", "written"}
  /\ UNCHANGED <<outbox, claim, posts, job, sent, late, obs, cap, recon>>

Captured(i) == [by |-> i, observed |-> obs[i]]

(* defer_unknown_accounting: persist the artifact and capture a recovery.  *)
Defer(i) ==
  /\ pc[i] = "deferring" /\ Returns(i, "thrown")
  /\ \/ /\ ledger' = "pending"
        /\ cap' = [cap EXCEPT ![i] = Captured(i)]
        /\ UNCHANGED faults
     \/ /\ Fault
        /\ ledger' \in {"none", "pending"}
        /\ UNCHANGED cap
  /\ UNCHANGED <<outbox, claim, posts, job, sent, late, obs, recon>>

-----------------------------------------------------------------------------
(* The invocation: recording the outcome.                                  *)

OutcomeTakenForSuccess(i) ==
  IF end[i] = "ineligible" THEN Record("failed_terminal", i, NoRecovery)
                           ELSE Record("succeeded", i, cap[i])

Outcome(i) ==
  CASE end[i] = "observed"   -> Record("succeeded", i, cap[i])
    [] end[i] = "ineligible" -> Record("failed_terminal", i, NoRecovery)
    [] OTHER                 -> Record("unknown", i, cap[i])

(* After a failed write an exception of provider_send returns at once,     *)
(* every other result still asks for a reconciliation.                     *)
AfterOutcome(i, written) ==
  IF /\ cap[i] # NoRecovery
     /\ IF written THEN Outcome(i).state = "unknown" ELSE end[i] # "thrown"
  THEN "enqueueing" ELSE "acked"

WriteOutcome(i) ==
  /\ pc[i] = "writing"
  /\ \/ /\ outbox' = AfterWrite(Outcome(i))
        /\ Goto(i, AfterOutcome(i, Writable(Outcome(i))))
        /\ UNCHANGED <<late, faults>>
     \/ /\ Fault
        /\ \/ outbox' \in {AfterWrite(Outcome(i)), outbox} /\ UNCHANGED late
           \/ late' = late \cup {Outcome(i)} /\ UNCHANGED outbox
        /\ Goto(i, AfterOutcome(i, FALSE))
  /\ UNCHANGED <<world, job, sent, obs, end, cap, recon>>

Enqueued(i) == IF job.stage = "absent"
               THEN [stage |-> "queued", recovery |-> cap[i]] ELSE job

Enqueue(i) ==
  /\ pc[i] = "enqueueing"
  /\ \/ /\ job' = Enqueued(i)
        /\ Goto(i, IF Enqueued(i).recovery = cap[i] THEN "dispatching" ELSE "acked")
        /\ UNCHANGED faults
     \/ /\ Fault
        /\ job' \in {Enqueued(i), job}
        /\ Goto(i, "acked")
  /\ UNCHANGED <<outbox, world, late, sent, obs, end, cap, recon>>

(* TECHKNIGHT_EVENTS.send: at least once, or an error that is swallowed.   *)
Dispatch(i) ==
  /\ pc[i] = "dispatching" /\ Goto(i, "acked")
  /\ \/ /\ \E copies \in (SUBSET Mail) \ {{}} :
             at' = [m \in Mail |-> IF m \in copies THEN "queued" ELSE at[m]]
        /\ UNCHANGED faults
     \/ Fault /\ UNCHANGED at
  /\ UNCHANGED <<outbox, world, job, late, sent, obs, end, cap, tries, seen, held>>

Crash(i) ==
  /\ pc[i] \in Calling \cup Sending /\ Fault
  /\ Goto(i, "crashed")
  /\ UNCHANGED <<outbox, world, job, late, sent, obs, end, cap, recon>>

-----------------------------------------------------------------------------
(* The T0 delivery of the same Slack message, and its 15-minute lease.     *)

OtherClaims ==
  /\ RuntimeClaimable
  /\ claim' = Processing(Other)
  /\ UNCHANGED <<outbox, ledger, posts, job, late, sender, recon, faults>>

OtherSettles ==
  /\ claim.status = "processing" /\ claim.token = Other
  /\ claim' \in {NoClaim, CompletedClaim}
  /\ UNCHANGED <<outbox, ledger, posts, job, late, sender, recon, faults>>

LeaseEnds ==
  /\ claim.status = "processing" /\ ~claim.old
  /\ claim' = [claim EXCEPT !.old = TRUE]
  /\ UNCHANGED <<outbox, ledger, posts, job, late, sender, recon, faults>>

-----------------------------------------------------------------------------
(* The reconciler: handleExternalEffectReconciliationQueueMessage.         *)

MailTo(m, step) == at' = [at EXCEPT ![m] = step]

(* message.retry(): again, until the deliveries are used up.               *)
AgainOnceTooOften(m) ==
  MailTo(m, IF tries[m] <= MaxDeliveries THEN "queued" ELSE "dead")

Again(m) == MailTo(m, IF tries[m] < MaxDeliveries THEN "queued" ELSE "dead")

(* A call fails or the isolate dies: the step happened or did not.         *)
Fails(m) == Fault /\ Again(m)

ReadJob(m) ==
  /\ at[m] = "queued"
  /\ tries' = [tries EXCEPT ![m] = @ + 1]
  /\ seen' = [seen EXCEPT ![m] = job.stage]
  /\ MailTo(m, "reading")
  /\ UNCHANGED <<outbox, world, job, late, sender, held, faults>>

(* The settled marker is itself evidence of an earlier provider readback.  *)
PartlySettled(m) == Rank(seen[m]) >= Rank("accounting_completed")

Settled(m) == seen[m] = "settled"

ReadOutbox(m) ==
  /\ at[m] = "reading"
  /\ held' = [held EXCEPT ![m] = outbox]
  /\ \/ /\ \/ outbox.recovery # job.recovery      \* IDEMPOTENCY_CONFLICT
           \/ outbox.recovery = NoRecovery
        /\ Again(m) /\ UNCHANGED faults
     \/ /\ outbox.recovery = job.recovery /\ outbox.recovery # NoRecovery
        /\ \/ outbox.state = "succeeded" /\ MailTo(m, "acked")
           \/ /\ outbox.state \notin {"succeeded", "unknown", "in_flight"}
              /\ Again(m)
           \/ /\ outbox.state \in {"unknown", "in_flight"}
              /\ MailTo(m, IF Settled(m) THEN "finishing" ELSE "verifying")
        /\ UNCHANGED faults
     \/ Fails(m)
  /\ UNCHANGED <<outbox, world, job, late, sender, tries, seen>>

(* verify_context: a recovery without a reply timestamp has no scope.      *)
Verify(m) ==
  /\ at[m] = "verifying"
  /\ \/ job.recovery.observed /\ MailTo(m, "readback") /\ UNCHANGED faults
     \/ ~job.recovery.observed /\ Again(m) /\ UNCHANGED faults
     \/ Fails(m)
  /\ UNCHANGED <<outbox, world, job, late, sender, tries, seen, held>>

(* provider_reconcile: read the thread; settle what is not settled yet.    *)
SettlesFromTheStart(m) == "accounting"

FirstSettling(m) ==
  IF Rank(seen[m]) < Rank("accounting_completed") THEN "accounting"
  ELSE IF Rank(seen[m]) < Rank("runtime_claim_completed") THEN "claiming"
  ELSE "mark_settled"

ProviderReadback(m) ==
  /\ at[m] = "readback"
  /\ \/ posts > 0 /\ MailTo(m, FirstSettling(m)) /\ UNCHANGED faults
     \/ posts = 0 /\ Again(m) /\ UNCHANGED faults
     \/ Fails(m)
  /\ UNCHANGED <<outbox, world, job, late, sender, tries, seen, held>>

(* settleTenantAccountingContinuation *)
SettleAccounting(m) ==
  /\ at[m] = "accounting"
  /\ \/ ledger' = "written" /\ MailTo(m, "mark_accounting") /\ UNCHANGED faults
     \/ ledger' \in {ledger, "written"} /\ Fails(m)
  /\ UNCHANGED <<outbox, claim, posts, job, late, sender, tries, seen, held>>

SettleClaim(m) ==
  /\ at[m] = "claiming"
  /\ LET owner == job.recovery.by
         completed == IF Completable(owner) THEN CompletedClaim ELSE claim
     IN  \/ /\ Completable(owner)
            /\ claim' = completed /\ MailTo(m, "mark_claim") /\ UNCHANGED faults
         \/ /\ ~Completable(owner)
            /\ Again(m) /\ UNCHANGED <<claim, faults>>
         \/ claim' \in {claim, completed} /\ Fails(m)
  /\ UNCHANGED <<outbox, ledger, posts, job, late, sender, tries, seen, held>>

(* mark_stage: a stage behind the stored one is EXTERNAL_EFFECT_STATE_-    *)
(* CONFLICT, which ends the attempt.                                       *)
Marked(stage) == [job EXCEPT !.stage = stage]

Mark(m, step, stage, next) ==
  /\ at[m] = step
  /\ \/ /\ Rank(job.stage) <= Rank(stage)
        /\ job' = Marked(stage) /\ MailTo(m, next) /\ UNCHANGED faults
     \/ /\ Rank(job.stage) > Rank(stage)
        /\ Again(m) /\ UNCHANGED <<job, faults>>
     \/ /\ job' \in {job, IF Rank(job.stage) <= Rank(stage) THEN Marked(stage)
                                                            ELSE job}
        /\ Fails(m)
  /\ UNCHANGED <<outbox, world, late, sender, tries, seen, held>>

MarkAccounting(m) == Mark(m, "mark_accounting", "accounting_completed", "claiming")
MarkClaim(m)      == Mark(m, "mark_claim", "runtime_claim_completed", "mark_settled")
MarkSettled(m)    == Mark(m, "mark_settled", "settled", "finishing")

(* The outbox record read before, as succeeded.                            *)
Confirmed(m) == [held[m] EXCEPT !.state = "succeeded"]

FinishOutbox(m) ==
  /\ at[m] = "finishing"
  /\ \/ /\ outbox' = AfterWrite(Confirmed(m))
        /\ IF Writable(Confirmed(m)) THEN MailTo(m, "acked") ELSE Again(m)
        /\ UNCHANGED <<late, faults>>
     \/ /\ \/ outbox' \in {AfterWrite(Confirmed(m)), outbox} /\ UNCHANGED late
           \/ late' = late \cup {Confirmed(m)} /\ UNCHANGED outbox
        /\ Fails(m)
  /\ UNCHANGED <<world, job, sender, tries, seen, held>>

Reconcile(m) == \/ ReadJob(m) \/ ReadOutbox(m) \/ Verify(m)
                \/ ProviderReadback(m) \/ SettleAccounting(m) \/ MarkAccounting(m)
                \/ SettleClaim(m) \/ MarkClaim(m) \/ MarkSettled(m)
                \/ FinishOutbox(m)

-----------------------------------------------------------------------------

Invoke(i) == \/ Begin(i) \/ ClaimOutbox(i) \/ ReadBack(i)
             \/ ClaimEvent(i) \/ Compose(i) \/ Post(i) \/ CompleteEvent(i)
             \/ RecordOperation(i) \/ Defer(i)
             \/ WriteOutcome(i) \/ Enqueue(i) \/ Dispatch(i) \/ Crash(i)

Next == \/ \E i \in Invocation : Invoke(i)
        \/ \E m \in Mail : Reconcile(m)
        \/ \E rec \in late : LateCall(rec)
        \/ OtherClaims \/ OtherSettles \/ LeaseEnds

Spec == Init /\ [][Next]_vars

(* The queue delivers a dispatched job and its reconciler runs.            *)
Fairness == \A m \in Mail : WF_vars(Reconcile(m))

FairSpec == Spec /\ Fairness

-----------------------------------------------------------------------------
(* Properties.                                                             *)

(* Every variable stays in its type: in particular records handed around   *)
(* by the sender, late calls and reconcilers stay records of the store.    *)
TypeOK ==
  /\ outbox \in Effect
  /\ claim \in Claim
  /\ ledger \in {"none", "pending", "written"}
  /\ posts \in Nat
  /\ job \in [stage : Stage, recovery : Recovery]
  /\ sent \subseteq Invocation
  /\ late \subseteq Effect
  /\ pc \in [Invocation -> Step]
  /\ obs \in [Invocation -> BOOLEAN]
  /\ end \in [Invocation -> Result]
  /\ cap \in [Invocation -> Recovery]
  /\ at \in [Mail -> MailStep]
  /\ tries \in [Mail -> 0..MaxDeliveries]
  /\ seen \in [Mail -> Stage]
  /\ held \in [Mail -> Effect]
  /\ faults \in 0..MaxFaults

(* However the queue redelivers and whichever calls are lost, executed     *)
(* late or read back, one invocation at most enters provider_send ("it is  *)
(* never converted into a blind Queue retry").                             *)
AtMostOneSend == \A i, j \in sent : i = j

(* An invocation that acknowledged its delivery, or had it refused as a    *)
(* conflict, never dropped an effect that nobody handed to the provider.   *)
AckedMeansSent ==
  (\E i \in Invocation : pc[i] \in {"acked", "refused"}) => sent # {}

(* A succeeded effect is complete in every store: the reply is in the      *)
(* thread once, its accounting is written and its event claim is completed *)
(* by the invocation that sent it, whichever of sender and reconciler, or  *)
(* of two reconcilers, got how far before failing.                         *)
SucceededIsComplete ==
  outbox.state = "succeeded" =>
    /\ posts = 1
    /\ ledger = "written"
    /\ claim.status = "completed" /\ claim.token = outbox.token

(* The outbox record never moves backwards, is never taken over and never  *)
(* loses the recovery that a queued job has to match.                      *)
OutboxIsMonotone ==
  [][/\ outbox'.state \in
          (IF outbox.state = "absent" THEN {"absent", "pending"}
                                      ELSE NextStates(outbox.state))
     /\ outbox.token # NoOne => outbox'.token = outbox.token
     /\ outbox.recovery # NoRecovery => outbox'.recovery = outbox.recovery]_vars

(* The runtime event claim of a sender is kept until it is completed, even *)
(* when its lease is long over: the T0 delivery of the same message never  *)
(* replies on top of an ambiguous effect (preserveUntilReconciled).        *)
PreservedClaimIsKept ==
  [][claim.token \in Invocation => claim'.token = claim.token]_vars

OnRecord == IF outbox.state \in Decided THEN outbox.state ELSE "open"

Promise == INSTANCE AtMostOnceEffect WITH
             Sender  <- Invocation,
             handed  <- sent,
             results <- posts,
             outcome <- OnRecord

(* The stores, the sender and the reconciler together implement the        *)
(* at-most-once effect: refinement of AtMostOnceEffect.                    *)
KeepsPromise == Promise!Spec

(* A reply whose timestamp was observed and whose job was dispatched ends  *)
(* up succeeded: duplicates of the job may collide on a settlement stage   *)
(* but never use up each other's deliveries.                               *)
EventuallyReconciled ==
  (job.recovery.observed /\ \E m \in Mail : at[m] = "queued")
    ~> outbox.state = "succeeded"

=============================================================================
