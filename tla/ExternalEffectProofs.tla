------------------------ MODULE ExternalEffectProofs ------------------------
(***************************************************************************)
(* Theorems about ExternalEffect, for any number of invocations, of        *)
(* reconciliation messages, of deliveries and of faults; and, at the end,  *)
(* what ExternalEffectMC checks of the two places where a reply must reach *)
(* Slack once, for every value of its constants.                           *)
(*                                                                         *)
(* Ownership is the inductive invariant under all of them: the claim token *)
(* in the outbox record names the one invocation that may have entered     *)
(* provider_send, and no call that is still under way, however late it is  *)
(* executed, can put another name there. Truth, further on, is inductive   *)
(* together with it: what the stores say happened did happen. It carries   *)
(* that a succeeded effect is complete in every store, and that            *)
(* ExternalEffect implements AtMostOnceEffect.                             *)
(***************************************************************************)
EXTENDS ExternalEffectMC, TLAPS

(* Whoever entered provider_send is the owner on record.                   *)
SentIsOwner ==
  \A i \in sent : /\ outbox.token = i
                  /\ outbox.state \notin {"absent", "pending"}
                  /\ pc[i] \in Sending \cup Ended

SendingIsSent == \A i \in Invocation : pc[i] \in Sending => i \in sent

UnclaimedIsBare ==
  outbox.state \in {"absent", "pending"}
    => outbox.token = NoOne /\ outbox.recovery = NoRecovery

(* An owner that has not entered provider_send has written nothing yet.    *)
ClaimedIsOwned ==
  outbox.state \notin {"absent", "pending"}
    => /\ outbox.token \in Invocation
       /\ outbox.token \notin sent => outbox = Flight(outbox.token)

(* A late call is a claim, or the outcome of the owner.                    *)
LateIsOwned ==
  \A r \in late : \/ r.token \in Invocation /\ r = Flight(r.token)
                  \/ r.token \in sent /\ r.state \in Decided

BegunIsStored ==
  \A i \in Invocation : pc[i] \in Calling => outbox.state # "absent"

(* The job is dispatched by the owner's last step.                         *)
MailFollowsSend ==
  \A m \in Mail : at[m] # "unsent" =>
    sent # {} /\ \A i \in Invocation : pc[i] \notin Sending

TriesLeft ==
  \A m \in Mail : /\ at[m] = "unsent" => tries[m] = 0
                  /\ at[m] = "queued" => tries[m] < MaxDeliveries

HeldIsOwned ==
  \A m \in Mail : at[m] \in Working \ {"reading"} => held[m].token \in sent

ClaimIsPreserved ==
  /\ claim.status = "none" => claim.token = NoOne
  /\ claim.token \in Invocation =>
       \/ claim.status = "completed"
       \/ claim.status = "processing" /\ claim.preserve

Ownership ==
  /\ TypeOK
  /\ SentIsOwner
  /\ SendingIsSent
  /\ UnclaimedIsBare
  /\ ClaimedIsOwned
  /\ LateIsOwned
  /\ BegunIsStored
  /\ MailFollowsSend
  /\ TriesLeft
  /\ HeldIsOwned
  /\ ClaimIsPreserved
  /\ AckedMeansSent

-----------------------------------------------------------------------------
(* Lemmas about the outbox store.                                          *)

(* A claim goes through exactly when the record is pending.                *)
LEMMA ClaimEffect ==
  ASSUME Ownership, NEW i \in Invocation
  PROVE  /\ Flight(i) \in Effect
         /\ outbox.state = "pending" => AfterClaim(i) = Flight(i)
         /\ outbox.state # "pending" => AfterClaim(i) = outbox
  BY DEF Ownership, UnclaimedIsBare, AfterClaim, SameEffect, Flight, Record,
         Effect, OutboxState, Recovery, NoRecovery

(* An outcome of the owner is stored under the owner's name.               *)
LEMMA WriteEffect ==
  ASSUME Ownership, NEW r \in Effect, r.token \in sent, r.state \in Decided
  PROVE  /\ AfterWrite(r) \in Effect
         /\ AfterWrite(r).token = outbox.token
         /\ outbox.state = "absent" => AfterWrite(r).state = "absent"
         /\ outbox.state # "absent" =>
              AfterWrite(r).state \in NextStates(outbox.state)
         /\ outbox.recovery # NoRecovery =>
              AfterWrite(r).recovery = outbox.recovery
         /\ outbox.state \notin {"absent", "pending"} =>
              AfterWrite(r).state \notin {"absent", "pending"}
  BY DEF Ownership, TypeOK, SentIsOwner, AfterWrite, Writable, SameEffect,
         NextStates, Decided, OutboxState, Effect

(* What an invocation writes carries its own token.                        *)
LEMMA OutcomeType ==
  ASSUME TypeOK, NEW i \in Invocation
  PROVE  /\ Outcome(i) \in Effect
         /\ Outcome(i).token = i
         /\ Outcome(i).state \in Decided
  BY DEF TypeOK, Outcome, Record, Effect, OutboxState, Decided, Recovery,
         NoRecovery, Result

-----------------------------------------------------------------------------
(* Ownership, the steps of the sender and of the reconciler.               *)

(* The steps from the runtime event claim to the end of an invocation,     *)
(* which leave outbox, sent and late alone.                                *)
SenderMoves(i) ==
  /\ pc[i] \in Calling \cup Sending
  /\ \E s \in Ended \cup Sending :
       Goto(i, s) /\ (s # "crashed" => pc[i] \in Sending)
  /\ UNCHANGED <<outbox, sent, late, recon>>

(* The steps of the reconciler before the last.                            *)
ReconcilerMoves(m) ==
  /\ at[m] \in Working \cup {"queued"}
  /\ \E s \in MailStep \ {"unsent"} :
       /\ MailTo(m, s)
       /\ s = "queued" => tries'[m] < MaxDeliveries
       /\ s \in Working \ {"reading"} => held'[m].token \in sent
  /\ \A n \in Mail \ {m} : tries'[n] = tries[n] /\ held'[n] = held[n]
  /\ UNCHANGED <<outbox, late, sender>>

OwnershipRest ==
  /\ SentIsOwner /\ SendingIsSent /\ UnclaimedIsBare /\ ClaimedIsOwned
  /\ LateIsOwned /\ BegunIsStored /\ MailFollowsSend /\ TriesLeft
  /\ HeldIsOwned /\ AckedMeansSent

LEMMA SenderKeepsOwnership ==
  ASSUME Ownership, NEW i \in Invocation, SenderMoves(i)
  PROVE  OwnershipRest'
<1>. USE DEF Ownership, TypeOK, SenderMoves, Goto, Calling, Sending, Ended, recon
<1>1. SentIsOwner' /\ SendingIsSent'
  BY DEF SentIsOwner, SendingIsSent
<1>2. UnclaimedIsBare' /\ ClaimedIsOwned' /\ LateIsOwned'
  BY DEF UnclaimedIsBare, ClaimedIsOwned, LateIsOwned
<1>3. BegunIsStored'
  BY DEF BegunIsStored
<1>4. MailFollowsSend'
  BY DEF MailFollowsSend
<1>5. TriesLeft' /\ HeldIsOwned'
  BY DEF TriesLeft, HeldIsOwned
<1>6. AckedMeansSent'
  BY DEF AckedMeansSent, SendingIsSent, BegunIsStored
<1>7. QED
  BY <1>1, <1>2, <1>3, <1>4, <1>5, <1>6 DEF OwnershipRest

LEMMA ReconcilerKeepsOwnership ==
  ASSUME Ownership, NEW m \in Mail, ReconcilerMoves(m)
  PROVE  OwnershipRest'
<1>. USE DEF Ownership, TypeOK, ReconcilerMoves, MailTo, MailStep, Working, sender
<1>1. SentIsOwner' /\ SendingIsSent' /\ UnclaimedIsBare' /\ ClaimedIsOwned'
      /\ LateIsOwned' /\ BegunIsStored' /\ AckedMeansSent'
  BY DEF SentIsOwner, SendingIsSent, UnclaimedIsBare, ClaimedIsOwned,
         LateIsOwned, BegunIsStored, AckedMeansSent
<1>2. MailFollowsSend'
  BY DEF MailFollowsSend
<1>3. TriesLeft'
  BY DEF TriesLeft
<1>4. HeldIsOwned'
  BY DEF HeldIsOwned
<1>5. QED
  BY <1>1, <1>2, <1>3, <1>4 DEF OwnershipRest

-----------------------------------------------------------------------------
(* Ownership, action by action.                                            *)

LEMMA BeginKeepsOwnership ==
  ASSUME Ownership, NEW i \in Invocation, Begin(i)
  PROVE  OwnershipRest'
<1>1. outbox' = outbox \/ (outbox.state = "absent" /\ outbox' = Pending)
  <2>1. outbox' = outbox \/ outbox' = Begun
    BY DEF Begin
  <2>2. QED
    BY <2>1 DEF Begun
<1>. USE DEF Ownership, TypeOK, Begin, Fault, Goto, Calling, Sending, Ended,
             recon, world
<1>2. Pending.state = "pending" /\ Pending.token = NoOne
      /\ Pending.recovery = NoRecovery
  BY DEF Pending, Record
<1>3. SentIsOwner' /\ SendingIsSent'
  BY <1>1 DEF SentIsOwner, SendingIsSent
<1>4. UnclaimedIsBare' /\ ClaimedIsOwned' /\ LateIsOwned'
  BY <1>1, <1>2 DEF UnclaimedIsBare, ClaimedIsOwned, LateIsOwned
<1>5. BegunIsStored'
  <2>1. outbox'.state # "absent" \/ (UNCHANGED outbox /\ pc'[i] \in Ended)
    BY <1>1, <1>2 DEF Begun
  <2>2. QED
    BY <1>1, <1>2, <2>1 DEF BegunIsStored
<1>6. MailFollowsSend' /\ TriesLeft' /\ HeldIsOwned'
  BY DEF MailFollowsSend, TriesLeft, HeldIsOwned
<1>7. AckedMeansSent'
  <2>1. SameEffect(Pending) \/ sent # {}
    BY <1>2, EffectAssumption
       DEF SameEffect, UnclaimedIsBare, ClaimedIsOwned, Flight, Record
  <2>2. QED
    BY <2>1 DEF AckedMeansSent
<1>8. QED
  BY <1>3, <1>4, <1>5, <1>6, <1>7 DEF OwnershipRest

LEMMA ClaimOutboxKeepsOwnership ==
  ASSUME Ownership, NEW i \in Invocation, ClaimOutbox(i)
  PROVE  OwnershipRest'
<1>1. Flight(i).state = "in_flight" /\ Flight(i).token = i
      /\ Flight(i).recovery = NoRecovery
  BY DEF Flight, Record
<1>2. \/ outbox' = outbox /\ sent' = sent
      \/ /\ outbox.state = "pending" /\ outbox' = Flight(i)
         /\ sent = {} /\ sent' \subseteq {i}
  <2>1. outbox.state = "pending" => sent = {}
    BY DEF Ownership, SentIsOwner
  <2>2. /\ outbox' = outbox \/ outbox' = AfterClaim(i)
        /\ sent' = sent \/ (outbox.state = "pending" /\ sent' = sent \cup {i}
                           /\ outbox' = AfterClaim(i))
    BY DEF ClaimOutbox
  <2>3. CASE outbox.state = "pending"
    BY <2>1, <2>2, <2>3, ClaimEffect
  <2>4. CASE outbox.state # "pending"
    BY <2>2, <2>4, ClaimEffect
  <2>5. QED
    BY <2>3, <2>4
<1>. USE DEF Ownership, TypeOK, ClaimOutbox, Fault, Goto, Calling, Sending,
             Ended, recon, world
<1>3. SentIsOwner' /\ SendingIsSent'
  <2>1. /\ pc' = [pc EXCEPT ![i] = pc'[i]]
        /\ pc'[i] \in {"sending", "reading"} \cup Ended
        /\ pc'[i] = "sending" <=> i \in sent'
    BY DEF NotClaimed, SentIsOwner
  <2>2. i \notin sent
    BY DEF SentIsOwner
  <2>3. SentIsOwner'
    BY <1>1, <1>2, <2>1, <2>2 DEF SentIsOwner
  <2>4. SendingIsSent'
    BY <1>2, <2>1, <2>2 DEF SendingIsSent
  <2>5. QED
    BY <2>3, <2>4
<1>4. UnclaimedIsBare' /\ ClaimedIsOwned'
  BY <1>1, <1>2 DEF UnclaimedIsBare, ClaimedIsOwned
<1>5. LateIsOwned' /\ BegunIsStored'
  <2>1. late' \subseteq late \cup {Flight(i)} /\ sent \subseteq sent'
    OBVIOUS
  <2>2. LateIsOwned'
    BY <1>1, <2>1 DEF LateIsOwned
  <2>3. BegunIsStored'
    BY <1>1, <1>2 DEF BegunIsStored
  <2>4. QED
    BY <2>2, <2>3
<1>6. MailFollowsSend'
  <2>1. /\ pc' = [pc EXCEPT ![i] = pc'[i]]
        /\ pc'[i] \in Sending => sent = {}
    BY DEF NotClaimed, SentIsOwner
  <2>2. sent \subseteq sent' /\ UNCHANGED at
    OBVIOUS
  <2>3. QED
    BY <2>1, <2>2 DEF MailFollowsSend
<1>7. TriesLeft' /\ HeldIsOwned'
  BY DEF TriesLeft, HeldIsOwned
<1>8. AckedMeansSent'
  <2>1. NotClaimed(i) \in {"refused", "acked"} /\ outbox.state # "pending"
          => sent # {}
    BY <1>1 DEF NotClaimed, SameEffect, UnclaimedIsBare, ClaimedIsOwned,
                BegunIsStored, Flight, Record
  <2>2. QED
    BY <2>1 DEF AckedMeansSent
<1>9. QED
  BY <1>3, <1>4, <1>5, <1>6, <1>7, <1>8 DEF OwnershipRest

LEMMA ReadBackKeepsOwnership ==
  ASSUME Ownership, NEW i \in Invocation, ReadBack(i)
  PROVE  OwnershipRest'
<1>. USE DEF Ownership, TypeOK, ReadBack, OwnFlight, Fault, Goto, Calling,
             Sending, Ended, recon, world
<1>1. i \notin sent
  BY DEF SentIsOwner
<1>2. SentIsOwner' /\ SendingIsSent'
  BY <1>1 DEF SentIsOwner, SendingIsSent
<1>3. UnclaimedIsBare' /\ ClaimedIsOwned' /\ LateIsOwned'
  BY DEF UnclaimedIsBare, ClaimedIsOwned, LateIsOwned
<1>4. BegunIsStored'
  BY DEF BegunIsStored
<1>5. MailFollowsSend'
  BY <1>1 DEF MailFollowsSend, SentIsOwner
<1>6. TriesLeft' /\ HeldIsOwned' /\ AckedMeansSent'
  BY DEF TriesLeft, HeldIsOwned, AckedMeansSent
<1>7. QED
  BY <1>2, <1>3, <1>4, <1>5, <1>6 DEF OwnershipRest

LEMMA WriteOutcomeKeepsOwnership ==
  ASSUME Ownership, NEW i \in Invocation, WriteOutcome(i)
  PROVE  OwnershipRest'
<1>. USE DEF Ownership, TypeOK, recon, world
<1>1. i \in sent /\ outbox.token = i /\ outbox.state \notin {"absent", "pending"}
  BY DEF WriteOutcome, SendingIsSent, SentIsOwner, Sending
<1>2. /\ outbox'.token = i
      /\ outbox'.state \notin {"absent", "pending"}
  BY <1>1, OutcomeType, WriteEffect DEF WriteOutcome
<1>3. late' \subseteq late \cup {Outcome(i)}
  BY DEF WriteOutcome
<1>4. /\ UNCHANGED <<sent, recon>>
      /\ pc[i] \in Sending
      /\ pc' = [pc EXCEPT ![i] = pc'[i]]
      /\ pc'[i] \in {"enqueueing", "acked"}
  BY DEF WriteOutcome, Goto, AfterOutcome, Sending
<1>5. SentIsOwner' /\ SendingIsSent'
  BY <1>1, <1>2, <1>4 DEF SentIsOwner, SendingIsSent, Sending, Ended
<1>6. UnclaimedIsBare' /\ ClaimedIsOwned'
  BY <1>1, <1>2, <1>4 DEF UnclaimedIsBare, ClaimedIsOwned
<1>7. LateIsOwned'
  BY <1>1, <1>3, <1>4, OutcomeType DEF LateIsOwned
<1>8. BegunIsStored'
  BY <1>2
  DEF BegunIsStored
<1>9. MailFollowsSend' /\ TriesLeft' /\ HeldIsOwned'
  BY <1>4 DEF MailFollowsSend, TriesLeft, HeldIsOwned
<1>10. AckedMeansSent'
  BY <1>1, <1>4 DEF AckedMeansSent
<1>11. QED
  BY <1>5, <1>6, <1>7, <1>8, <1>9, <1>10 DEF OwnershipRest

LEMMA DispatchKeepsOwnership ==
  ASSUME Ownership, NEW i \in Invocation, Dispatch(i)
  PROVE  OwnershipRest'
<1>. USE EffectAssumption DEF Ownership, TypeOK, recon, world
<1>1. /\ i \in sent
      /\ \A j \in Invocation \ {i} : pc[j] \notin Sending
      /\ \A m \in Mail : at[m] = "unsent" /\ tries[m] = 0
  BY DEF Dispatch, SendingIsSent, SentIsOwner, MailFollowsSend, TriesLeft,
         Sending
<1>2. /\ pc' = [pc EXCEPT ![i] = "acked"]
      /\ \A m \in Mail : at'[m] \in {"unsent", "queued"}
      /\ UNCHANGED <<outbox, sent, late, tries, held>>
  BY <1>1 DEF Dispatch, Goto
<1>3. SentIsOwner' /\ SendingIsSent'
  BY <1>2 DEF SentIsOwner, SendingIsSent, Ended, Sending
<1>4. UnclaimedIsBare' /\ ClaimedIsOwned' /\ LateIsOwned' /\ BegunIsStored'
  BY <1>2 DEF UnclaimedIsBare, ClaimedIsOwned, LateIsOwned, BegunIsStored,
              Calling
<1>5. MailFollowsSend'
  BY <1>1, <1>2 DEF MailFollowsSend, Sending
<1>6. TriesLeft' /\ HeldIsOwned'
  BY <1>1, <1>2 DEF TriesLeft, HeldIsOwned, Working, MailStep
<1>7. AckedMeansSent'
  BY <1>1, <1>2 DEF AckedMeansSent
<1>8. QED
  BY <1>3, <1>4, <1>5, <1>6, <1>7 DEF OwnershipRest

LEMMA FinishOutboxKeepsOwnership ==
  ASSUME Ownership, NEW m \in Mail, FinishOutbox(m)
  PROVE  OwnershipRest'
<1>. USE DEF Ownership, TypeOK, sender, world
<1>1. /\ Confirmed(m) \in Effect
      /\ Confirmed(m).state \in Decided
      /\ Confirmed(m).token \in sent
  BY DEF FinishOutbox, Confirmed, HeldIsOwned, Effect, OutboxState, Decided,
         Working, MailStep
<1>2. outbox.state \notin {"absent", "pending"} /\ outbox.token \in sent
  BY <1>1 DEF SentIsOwner
<1>3. /\ outbox'.token = outbox.token
      /\ outbox'.state \notin {"absent", "pending"}
  BY <1>1, <1>2, WriteEffect DEF FinishOutbox
<1>4. late' \subseteq late \cup {Confirmed(m)}
  BY DEF FinishOutbox
<1>5. /\ UNCHANGED <<sent, pc, tries, held>>
      /\ at' = [at EXCEPT ![m] = at'[m]]
      /\ at'[m] \in {"acked", "queued", "dead"}
      /\ at'[m] = "queued" => tries[m] < MaxDeliveries
      /\ at[m] # "unsent"
  BY DEF FinishOutbox, Fails, Again, MailTo
<1>6. SentIsOwner' /\ SendingIsSent'
  BY <1>3, <1>5 DEF SentIsOwner, SendingIsSent
<1>7. UnclaimedIsBare' /\ ClaimedIsOwned'
  BY <1>2, <1>3, <1>5 DEF UnclaimedIsBare, ClaimedIsOwned
<1>8. LateIsOwned' /\ BegunIsStored' /\ AckedMeansSent'
  BY <1>1, <1>3, <1>4, <1>5 DEF LateIsOwned, BegunIsStored, AckedMeansSent
<1>9. MailFollowsSend'
  BY <1>5 DEF MailFollowsSend
<1>10. TriesLeft' /\ HeldIsOwned'
  BY <1>5 DEF TriesLeft, HeldIsOwned, Working, MailStep
<1>11. QED
  BY <1>6, <1>7, <1>8, <1>9, <1>10 DEF OwnershipRest

LEMMA LateCallKeepsOwnership ==
  ASSUME Ownership, NEW r \in late, LateCall(r)
  PROVE  OwnershipRest'
<1>. USE DEF Ownership, TypeOK, sender, recon, LateCall
<1>1. outbox' = outbox => OwnershipRest'
  BY DEF OwnershipRest, SentIsOwner, SendingIsSent, UnclaimedIsBare,
         ClaimedIsOwned, LateIsOwned, BegunIsStored, MailFollowsSend,
         TriesLeft, HeldIsOwned, AckedMeansSent
<1>2. CASE outbox' # outbox /\ r.state = "in_flight"
  <2>1. r.token \in Invocation /\ outbox.state = "pending"
        /\ outbox' = Flight(r.token)
    BY <1>2, ClaimEffect DEF LateIsOwned, AfterLate, Decided
  <2>2. sent = {}
    BY <2>1 DEF SentIsOwner
  <2>3. Flight(r.token).state = "in_flight" /\ Flight(r.token).token = r.token
    BY DEF Flight, Record
  <2>4. QED
    BY <2>1, <2>2, <2>3
    DEF OwnershipRest, SentIsOwner, SendingIsSent, UnclaimedIsBare,
        ClaimedIsOwned, LateIsOwned, BegunIsStored, MailFollowsSend,
        TriesLeft, HeldIsOwned, AckedMeansSent
<1>3. CASE outbox' # outbox /\ r.state # "in_flight"
  <2>1. r \in Effect /\ r.token \in sent /\ r.state \in Decided
    BY <1>3 DEF LateIsOwned, Flight, Record
  <2>2. outbox.token \in sent /\ outbox.state \notin {"absent", "pending"}
    BY <2>1 DEF SentIsOwner
  <2>3. outbox'.token = outbox.token /\ outbox'.state \notin {"absent", "pending"}
    BY <1>3, <2>1, <2>2, WriteEffect DEF AfterLate
  <2>4. SentIsOwner' /\ SendingIsSent' /\ UnclaimedIsBare' /\ ClaimedIsOwned'
        /\ BegunIsStored'
    BY <2>2, <2>3 DEF SentIsOwner, SendingIsSent, UnclaimedIsBare,
                      ClaimedIsOwned, BegunIsStored
  <2>5. LateIsOwned' /\ MailFollowsSend' /\ TriesLeft' /\ HeldIsOwned'
        /\ AckedMeansSent'
    BY DEF LateIsOwned, MailFollowsSend, TriesLeft, HeldIsOwned,
           AckedMeansSent
  <2>6. QED
    BY <2>4, <2>5 DEF OwnershipRest
<1>4. QED
  BY <1>1, <1>2, <1>3

(* Every other step of the reconciler reads a record only to go on with a  *)
(* claimed one, and retries only while it has deliveries left.             *)
LEMMA ReconcilerStep ==
  ASSUME Ownership, NEW m \in Mail, Reconcile(m), ~FinishOutbox(m)
  PROVE  ReconcilerMoves(m)
<1>. USE DEF Ownership, TypeOK, ReconcilerMoves, MailTo, Again, Fails, MailStep,
             Working, sender, HeldIsOwned
<1>1. CASE ReadJob(m)
  BY <1>1 DEF ReadJob
<1>2. CASE ReadOutbox(m)
  <2>1. outbox.recovery # NoRecovery => outbox.token \in sent
    BY DEF UnclaimedIsBare, ClaimedIsOwned, Flight, Record
  <2>2. held' = [held EXCEPT ![m] = outbox]
    BY <1>2 DEF ReadOutbox
  <2>3. QED
    BY <1>2, <2>1, <2>2 DEF ReadOutbox
<1>3. CASE Verify(m)
  BY <1>3 DEF Verify
<1>4. CASE ProviderReadback(m)
  BY <1>4 DEF ProviderReadback, FirstSettling
<1>5. CASE SettleAccounting(m)
  BY <1>5 DEF SettleAccounting
<1>6. CASE SettleClaim(m)
  BY <1>6 DEF SettleClaim
<1>7. CASE MarkAccounting(m)
  BY <1>7 DEF MarkAccounting, Mark
<1>8. CASE MarkClaim(m)
  BY <1>8 DEF MarkClaim, Mark
<1>9. CASE MarkSettled(m)
  BY <1>9 DEF MarkSettled, Mark
<1>10. QED
  BY <1>1, <1>2, <1>3, <1>4, <1>5, <1>6, <1>7, <1>8, <1>9 DEF Reconcile

-----------------------------------------------------------------------------
(* Types, action by action.                                                *)

LEMMA NoClaimType == NoRecovery \in Recovery /\ NoClaim \in Claim
  BY DEF NoRecovery, Recovery, NoClaim, Claim

LEMMA ProcessingType ==
  ASSUME NEW owner \in Invocation \cup {Other}
  PROVE  /\ Processing(owner) \in Claim
         /\ Processing(owner).token = owner
         /\ Processing(owner).status = "processing"
         /\ owner # Other => Processing(owner).preserve
  BY DEF Processing, Claim

LEMMA CompletedType ==
  ASSUME TypeOK
  PROVE  /\ CompletedClaim \in Claim
         /\ CompletedClaim.token = claim.token
         /\ CompletedClaim.status = "completed"
  BY DEF TypeOK, CompletedClaim, Claim

LEMMA MarkedType ==
  ASSUME TypeOK, NEW stage \in Stage
  PROVE  /\ Marked(stage) \in [stage : Stage, recovery : Recovery]
         /\ Marked(stage).stage = stage
         /\ Marked(stage).recovery = job.recovery
  BY DEF TypeOK, Marked

(* The begin and claim of an invocation.                                   *)
LEMMA ClaimingType ==
  ASSUME Ownership, NEW i \in Invocation,
         Begin(i) \/ ClaimOutbox(i) \/ ReadBack(i)
  PROVE  TypeOK'
<1>. USE EffectAssumption DEF Ownership, TypeOK, Fault, Goto, Step, Calling, Sending,
             Ended, world, recon, sender
<1>1. CASE Begin(i)
  <2>1. outbox' \in Effect
    BY <1>1, NoClaimType
    DEF Begin, Begun, Pending, Record, Effect, OutboxState
  <2>2. QED
    BY <1>1, <2>1 DEF Begin
<1>2. CASE ClaimOutbox(i)
  <2>1. outbox' \in Effect /\ late' \subseteq Effect
    <3>1. /\ outbox' = outbox \/ outbox' = AfterClaim(i)
          /\ late' \subseteq late \cup {Flight(i)}
      BY <1>2 DEF ClaimOutbox
    <3>2. QED
      BY <3>1, ClaimEffect DEF AfterClaim
  <2>2. QED
    BY <1>2, <2>1 DEF ClaimOutbox, NotClaimed
<1>3. CASE ReadBack(i)
  BY <1>3 DEF ReadBack
<1>4. QED
  BY <1>1, <1>2, <1>3

(* provider_send.                                                          *)
LEMMA SendingType ==
  ASSUME Ownership, NEW i \in Invocation,
         \/ ClaimEvent(i) \/ Compose(i) \/ Post(i) \/ CompleteEvent(i)
         \/ RecordOperation(i) \/ Defer(i)
  PROVE  TypeOK'
<1>. USE EffectAssumption DEF Ownership, TypeOK, Fault, Goto, Step, Calling, Sending,
             Ended, Result, Returns, world, recon, sender
<1>1. CASE ClaimEvent(i)
  <2>1. claim' \in Claim
    <3>1. claim' = claim \/ claim' = Processing(i)
      BY <1>1 DEF ClaimEvent
    <3>2. QED
      BY <3>1, ProcessingType
  <2>2. QED
    BY <1>1, <2>1 DEF ClaimEvent
<1>2. CASE Compose(i)
  BY <1>2 DEF Compose
<1>3. CASE Post(i)
  <2>1. posts' \in {posts, posts + 1}
        /\ obs' \in {obs, [obs EXCEPT ![i] = TRUE]}
    BY <1>3 DEF Post
  <2>2. obs' \in [Invocation -> BOOLEAN]
    BY <2>1
  <2>3. posts' \in Nat /\ pc' \in [Invocation -> Step]
        /\ faults' \in 0..MaxFaults
    BY <1>3, <2>1 DEF Post
  <2>4. QED
    BY <1>3, <2>2, <2>3 DEF Post
<1>4. CASE CompleteEvent(i)
  <2>1. claim' \in Claim
    BY <1>4, CompletedType DEF CompleteEvent
  <2>2. QED
    BY <1>4, <2>1 DEF CompleteEvent
<1>5. CASE RecordOperation(i)
  BY <1>5 DEF RecordOperation
<1>6. CASE Defer(i)
  <2>1. Captured(i) \in Recovery
    BY DEF Captured, Recovery
  <2>2. QED
    BY <1>6, <2>1 DEF Defer
<1>7. QED
  BY <1>1, <1>2, <1>3, <1>4, <1>5, <1>6

LEMMA OutcomeGoto ==
  ASSUME NEW i \in Invocation, WriteOutcome(i)
  PROVE  /\ \E step \in {"acked", "enqueueing"} : Goto(i, step)
         /\ UNCHANGED faults \/ Fault
  BY DEF WriteOutcome, AfterOutcome, Goto

(* The outcome and the reconciliation job.                                 *)
LEMMA OutcomeStepType ==
  ASSUME Ownership, NEW i \in Invocation,
         WriteOutcome(i) \/ Enqueue(i) \/ Dispatch(i) \/ Crash(i)
  PROVE  TypeOK'
<1>. USE EffectAssumption DEF Ownership, TypeOK, Fault, Goto, Step, Calling, Sending,
             Ended, MailStep, world, recon, sender
<1>1. CASE WriteOutcome(i)
  <2>1. outbox' \in Effect /\ late' \subseteq Effect
    BY <1>1, OutcomeType DEF WriteOutcome, AfterWrite
  <2>2. \E step \in {"acked", "enqueueing"} : Goto(i, step)
    BY <1>1, OutcomeGoto
  <2>3. UNCHANGED faults \/ Fault
    BY <1>1, OutcomeGoto
  <2>4. UNCHANGED <<claim, ledger, posts, job, sent, obs, end, cap, at, tries,
                    seen, held>>
    BY <1>1 DEF WriteOutcome
  <2>5. QED
    BY <2>1, <2>2, <2>3, <2>4
<1>2. CASE Enqueue(i)
  <2>1. job' \in [stage : Stage, recovery : Recovery]
    BY <1>2 DEF Enqueue, Enqueued, Stage
  <2>2. QED
    BY <1>2, <2>1 DEF Enqueue
<1>3. CASE Dispatch(i)
  BY <1>3 DEF Dispatch
<1>4. CASE Crash(i)
  BY <1>4 DEF Crash
<1>5. QED
  BY <1>1, <1>2, <1>3, <1>4

(* The reconciler.                                                         *)
LEMMA ReconcilerType ==
  ASSUME Ownership, NEW m \in Mail, Reconcile(m)
  PROVE  TypeOK'
<1>. USE EffectAssumption DEF Ownership, TypeOK, Fault, Fails, Again, MailTo,
             MailStep, world, recon, sender
<1>1. CASE ReadJob(m)
  BY <1>1 DEF ReadJob, TriesLeft
<1>2. CASE ReadOutbox(m)
  BY <1>2 DEF ReadOutbox
<1>3. CASE Verify(m)
  BY <1>3 DEF Verify
<1>4. CASE ProviderReadback(m)
  BY <1>4 DEF ProviderReadback, FirstSettling
<1>5. CASE SettleAccounting(m)
  BY <1>5 DEF SettleAccounting
<1>6. CASE SettleClaim(m)
  <2>1. claim' \in Claim
    BY <1>6, CompletedType DEF SettleClaim
  <2>2. QED
    BY <1>6, <2>1 DEF SettleClaim
<1>7. ASSUME NEW step, NEW stage \in Stage, NEW next \in MailStep,
             Mark(m, step, stage, next)
      PROVE  TypeOK'
  <2>1. job' = job \/ job' = Marked(stage)
    BY <1>7 DEF Mark
  <2>2. job' \in [stage : Stage, recovery : Recovery]
    BY <2>1, MarkedType
  <2>3. QED
    BY <1>7, <2>2 DEF Mark
<1>8. CASE MarkAccounting(m) \/ MarkClaim(m) \/ MarkSettled(m)
  BY <1>7, <1>8 DEF MarkAccounting, MarkClaim, MarkSettled, Stage
<1>9. CASE FinishOutbox(m)
  <2>1. Confirmed(m) \in Effect
    BY DEF Confirmed, Effect, OutboxState, Decided
  <2>2. outbox' \in Effect /\ late' \subseteq Effect
    BY <1>9, <2>1 DEF FinishOutbox, AfterWrite
  <2>3. QED
    BY <1>9, <2>2 DEF FinishOutbox
<1>10. QED
  BY <1>1, <1>2, <1>3, <1>4, <1>5, <1>6, <1>8, <1>9 DEF Reconcile

(* The T0 delivery, the lease and late calls.                              *)
LEMMA SurroundingsType ==
  ASSUME Ownership,
         \/ \E r \in late : LateCall(r)
         \/ OtherClaims \/ OtherSettles \/ LeaseEnds
  PROVE  TypeOK'
<1>. USE EffectAssumption DEF Ownership, TypeOK, world, recon, sender
<1>1. ASSUME NEW r \in late, LateCall(r) PROVE TypeOK'
  <2>1. AfterLate(r) \in Effect
    BY ClaimEffect DEF AfterLate, AfterClaim, AfterWrite, LateIsOwned, Decided
  <2>2. QED
    BY <1>1, <2>1 DEF LateCall
<1>2. CASE OtherClaims
  BY <1>2, ProcessingType DEF OtherClaims
<1>3. CASE OtherSettles
  <2>1. claim' \in Claim
    BY <1>3, CompletedType, NoClaimType DEF OtherSettles
  <2>2. QED
    BY <1>3, <2>1 DEF OtherSettles
<1>4. CASE LeaseEnds
  <2>1. claim' \in Claim
    BY <1>4 DEF LeaseEnds, Claim
  <2>2. QED
    BY <1>4, <2>1 DEF LeaseEnds
<1>5. QED
  BY <1>1, <1>2, <1>3, <1>4

-----------------------------------------------------------------------------
(* The runtime event claim.                                                *)

(* No step takes the claim of a sender over, not even past its lease.      *)
LEMMA ClaimStep ==
  ASSUME Ownership, [Next]_vars
  PROVE  /\ ClaimIsPreserved'
         /\ claim.token \in Invocation => claim'.token = claim.token
<1>. USE EffectAssumption, ProcessingType, CompletedType
<1>1. NoClaim.status = "none" /\ NoClaim.token = NoOne
  BY DEF NoClaim
<1>2. ASSUME \/ UNCHANGED claim
             \/ claim' = CompletedClaim /\ claim.status # "none"
             \/ \E owner \in Invocation \cup {Other} :
                  RuntimeClaimable /\ claim' = Processing(owner)
             \/ claim' = NoClaim /\ claim.token = Other
             \/ LeaseEnds
      PROVE  /\ ClaimIsPreserved'
             /\ claim.token \in Invocation => claim'.token = claim.token
  <2>1. CASE UNCHANGED claim
    BY <2>1 DEF Ownership, ClaimIsPreserved
  <2>2. CASE claim' = CompletedClaim /\ claim.status # "none"
    BY <2>2 DEF Ownership, TypeOK, ClaimIsPreserved
  <2>3. CASE \E owner \in Invocation \cup {Other} :
               RuntimeClaimable /\ claim' = Processing(owner)
    BY <2>3 DEF Ownership, ClaimIsPreserved, RuntimeClaimable
  <2>4. CASE claim' = NoClaim /\ claim.token = Other
    BY <1>1, <2>4 DEF ClaimIsPreserved
  <2>5. CASE LeaseEnds
    <3>1. /\ claim'.status = claim.status
          /\ claim'.token = claim.token
          /\ claim'.preserve = claim.preserve
      BY <2>5 DEF Ownership, TypeOK, Claim, LeaseEnds
    <3>2. QED
      BY <3>1 DEF Ownership, ClaimIsPreserved
  <2>6. QED
    BY <1>2, <2>1, <2>2, <2>3, <2>4, <2>5
<1>3. ASSUME NEW i \in Invocation, Invoke(i)
      PROVE  \/ UNCHANGED claim
             \/ claim' = CompletedClaim /\ claim.status # "none"
             \/ RuntimeClaimable /\ claim' = Processing(i)
  <2>1. CASE ClaimEvent(i)
    BY <2>1 DEF ClaimEvent
  <2>2. CASE CompleteEvent(i)
    BY <2>2 DEF CompleteEvent, Completable
  <2>3. CASE ~ClaimEvent(i) /\ ~CompleteEvent(i)
    BY <1>3, <2>3 DEF Invoke, Begin, ClaimOutbox, ReadBack, Compose, Post,
      RecordOperation, Defer, WriteOutcome, Enqueue, Dispatch, Crash, world
  <2>4. QED
    BY <2>1, <2>2, <2>3
<1>4. ASSUME NEW m \in Mail, Reconcile(m)
      PROVE  \/ UNCHANGED claim
             \/ claim' = CompletedClaim /\ claim.status # "none"
  <2>1. CASE SettleClaim(m)
    BY <2>1 DEF SettleClaim, Completable
  <2>2. CASE ~SettleClaim(m)
    BY <1>4, <2>2 DEF Reconcile, ReadJob, ReadOutbox, Verify,
      ProviderReadback, SettleAccounting, MarkAccounting, MarkClaim,
      MarkSettled, Mark, FinishOutbox, world
  <2>3. QED
    BY <2>1, <2>2
<1>5. CASE \E r \in late : LateCall(r)
  BY <1>2, <1>5 DEF LateCall, world
<1>6. CASE OtherClaims
  BY <1>2, <1>6 DEF OtherClaims
<1>7. CASE OtherSettles
  BY <1>2, <1>7 DEF OtherSettles
<1>8. CASE UNCHANGED vars
  BY <1>2, <1>8 DEF vars
<1>9. QED
  BY <1>2, <1>3, <1>4, <1>5, <1>6, <1>7, <1>8 DEF Next

-----------------------------------------------------------------------------
(* Ownership is inductive.                                                 *)

LEMMA OwnershipInit == Init => Ownership
  BY EffectAssumption, NoClaimType
  DEF Init, Ownership, TypeOK, SentIsOwner, SendingIsSent, UnclaimedIsBare,
      ClaimedIsOwned, LateIsOwned, BegunIsStored, MailFollowsSend, TriesLeft,
      HeldIsOwned, ClaimIsPreserved, AckedMeansSent, Record, Effect,
      OutboxState, Recovery, NoRecovery, NoClaim, Stage, Step, Calling,
      Sending, Ended, Result, MailStep, Working

LEMMA OwnershipNext == Ownership /\ [Next]_vars => Ownership'
<1>. SUFFICES ASSUME Ownership, [Next]_vars PROVE Ownership'
  OBVIOUS
<1>1. ASSUME TypeOK', OwnershipRest' PROVE Ownership'
  BY <1>1, ClaimStep DEF Ownership, OwnershipRest
<1>2. ASSUME NEW i \in Invocation, Invoke(i) PROVE Ownership'
  <2>1. CASE Begin(i) \/ ClaimOutbox(i) \/ ReadBack(i)
    BY <1>1, <2>1, ClaimingType, BeginKeepsOwnership,
       ClaimOutboxKeepsOwnership, ReadBackKeepsOwnership
  <2>2. CASE \/ ClaimEvent(i) \/ Compose(i) \/ Post(i) \/ CompleteEvent(i)
             \/ RecordOperation(i) \/ Defer(i)
    <3>1. SenderMoves(i)
      BY <2>2 DEF ClaimEvent, Compose, Post, CompleteEvent, RecordOperation,
                  Defer, Returns, SenderMoves, Goto, Sending
    <3>2. QED
      BY <1>1, <2>2, <3>1, SendingType, SenderKeepsOwnership
  <2>3. CASE WriteOutcome(i)
    BY <1>1, <2>3, OutcomeStepType, WriteOutcomeKeepsOwnership
  <2>4. CASE Enqueue(i) \/ Crash(i)
    <3>1. SenderMoves(i)
      BY <2>4 DEF Enqueue, Crash, SenderMoves, Goto, Sending, Ended
    <3>2. QED
      BY <1>1, <2>4, <3>1, OutcomeStepType, SenderKeepsOwnership
  <2>5. CASE Dispatch(i)
    BY <1>1, <2>5, OutcomeStepType, DispatchKeepsOwnership
  <2>6. QED
    BY <1>2, <2>1, <2>2, <2>3, <2>4, <2>5 DEF Invoke
<1>3. ASSUME NEW m \in Mail, Reconcile(m) PROVE Ownership'
  <2>1. CASE FinishOutbox(m)
    BY <1>1, <1>3, <2>1, ReconcilerType, FinishOutboxKeepsOwnership
  <2>2. ASSUME ~FinishOutbox(m) PROVE ReconcilerMoves(m)
    BY <1>3, <2>2, ReconcilerStep
  <2>3. QED
    BY <1>1, <1>3, <2>1, <2>2, ReconcilerType, ReconcilerKeepsOwnership
<1>4. ASSUME NEW r \in late, LateCall(r) PROVE Ownership'
  BY <1>1, <1>4, SurroundingsType, LateCallKeepsOwnership
<1>5. CASE OtherClaims \/ OtherSettles \/ LeaseEnds \/ UNCHANGED vars
  <2>1. OwnershipRest'
    BY <1>5 DEF OtherClaims, OtherSettles, LeaseEnds, vars, sender, recon,
      Ownership, OwnershipRest, SentIsOwner, SendingIsSent, UnclaimedIsBare,
      ClaimedIsOwned, LateIsOwned, BegunIsStored, MailFollowsSend, TriesLeft,
      HeldIsOwned, AckedMeansSent
  <2>2. TypeOK'
    <3>1. CASE UNCHANGED vars
      BY <3>1 DEF vars, Ownership, TypeOK
    <3>2. QED
      BY <1>5, <3>1, SurroundingsType
  <2>3. QED
    BY <1>1, <2>1, <2>2
<1>6. QED
  BY <1>2, <1>3, <1>4, <1>5 DEF Next

LEMMA OwnershipInvariant == Spec => []Ownership
  BY OwnershipInit, OwnershipNext, PTL DEF Spec

-----------------------------------------------------------------------------
(* What follows from ownership.                                            *)

(* Every variable of the outbox, its invocations and its reconcilers stays *)
(* in its type.                                                            *)
THEOREM TypeCorrect == Spec => []TypeOK
  BY OwnershipInvariant, PTL DEF Ownership

(* processCompanyAuthorityExternalEffect enters provider_send once at most *)
(* over all its deliveries: however many there are, however many of their  *)
(* calls are lost, and however late a lost claim is executed.              *)
THEOREM SendsAtMostOnce == Spec => []AtMostOneSend
<1>1. Ownership => AtMostOneSend
  BY DEF Ownership, SentIsOwner, AtMostOneSend
<1>2. QED
  BY <1>1, OwnershipInvariant, PTL

(* A delivery is acknowledged or refused only after the effect was handed  *)
(* to provider_send: no effect is dropped unsent.                          *)
THEOREM AcksOnlySent == Spec => []AckedMeansSent
  BY OwnershipInvariant, PTL DEF Ownership

(* A claim with preserveUntilReconciled outlives its lease: until it is    *)
(* completed nobody else gets it.                                          *)
THEOREM PreservesClaim == Spec => PreservedClaimIsKept
<1>1. Ownership /\ [Next]_vars
        => [claim.token \in Invocation => claim'.token = claim.token]_vars
  BY ClaimStep
<1>2. QED
  BY <1>1, OwnershipInvariant, PTL DEF Spec, PreservedClaimIsKept

(* The three ways a step changes the outbox record.                        *)
LEMMA OutboxStep ==
  ASSUME Ownership, [Next]_vars
  PROVE  \/ UNCHANGED outbox
         \/ outbox.state = "absent" /\ outbox' = Pending
         \/ /\ outbox.state = "pending"
            /\ \E i \in Invocation : outbox' = Flight(i)
         \/ \E r \in Effect : /\ r.token \in sent /\ r.state \in Decided
                              /\ outbox' = AfterWrite(r)
<1>. DEFINE Goal == \/ UNCHANGED outbox
                    \/ outbox.state = "absent" /\ outbox' = Pending
                    \/ /\ outbox.state = "pending"
                       /\ \E i \in Invocation : outbox' = Flight(i)
                    \/ \E r \in Effect : /\ r.token \in sent /\ r.state \in Decided
                                         /\ outbox' = AfterWrite(r)
<1>1. ASSUME NEW i \in Invocation, Invoke(i) PROVE Goal
  <2>1. CASE Begin(i)
    <3>1. outbox' = outbox \/ outbox' = Begun
      BY <2>1 DEF Begin
    <3>2. QED
      BY <3>1 DEF Begun
  <2>2. CASE ClaimOutbox(i)
    <3>1. outbox' = outbox \/ outbox' = AfterClaim(i)
      BY <2>2 DEF ClaimOutbox
    <3>2. QED
      BY <3>1, ClaimEffect
  <2>3. CASE WriteOutcome(i)
    <3>1. i \in sent
      BY <2>3 DEF WriteOutcome, Ownership, SendingIsSent, Sending
    <3>2. outbox' = outbox \/ outbox' = AfterWrite(Outcome(i))
      BY <2>3 DEF WriteOutcome
    <3>3. QED
      BY <3>1, <3>2, OutcomeType DEF Ownership
  <2>4. CASE ~Begin(i) /\ ~ClaimOutbox(i) /\ ~WriteOutcome(i)
    BY <1>1, <2>4 DEF Invoke, ReadBack, ClaimEvent, Compose, Post,
      CompleteEvent, RecordOperation, Defer, Enqueue, Dispatch, Crash
  <2>5. QED
    BY <2>1, <2>2, <2>3, <2>4
<1>2. ASSUME NEW m \in Mail, Reconcile(m) PROVE Goal
  <2>1. CASE FinishOutbox(m)
    <3>1. /\ Confirmed(m) \in Effect
          /\ Confirmed(m).state \in Decided
          /\ Confirmed(m).token \in sent
      BY <2>1 DEF FinishOutbox, Ownership, TypeOK, Confirmed, HeldIsOwned,
                  Effect, OutboxState, Decided, Working, MailStep
    <3>2. outbox' = outbox \/ outbox' = AfterWrite(Confirmed(m))
      BY <2>1 DEF FinishOutbox
    <3>3. QED
      BY <3>1, <3>2
  <2>2. CASE ~FinishOutbox(m)
    BY <1>2, <2>2, ReconcilerStep DEF ReconcilerMoves
  <2>3. QED
    BY <2>1, <2>2
<1>3. ASSUME NEW r \in late, LateCall(r) PROVE Goal
  <2>1. outbox' = outbox \/ outbox' = AfterLate(r)
    BY <1>3 DEF LateCall
  <2>2. CASE r.state = "in_flight"
    <3>1. r.token \in Invocation
      BY <2>2 DEF Ownership, LateIsOwned, Decided
    <3>2. QED
      BY <2>1, <2>2, <3>1, ClaimEffect DEF AfterLate
  <2>3. CASE r.state # "in_flight"
    <3>1. r \in Effect /\ r.token \in sent /\ r.state \in Decided
      BY <2>3 DEF Ownership, TypeOK, LateIsOwned, Flight, Record
    <3>2. QED
      BY <2>1, <2>3, <3>1 DEF AfterLate
  <2>4. QED
    BY <2>2, <2>3
<1>4. CASE OtherClaims \/ OtherSettles \/ LeaseEnds \/ UNCHANGED vars
  BY <1>4 DEF OtherClaims, OtherSettles, LeaseEnds, vars
<1>5. QED
  BY <1>1, <1>2, <1>3, <1>4 DEF Next

(* Whatever order claims, outcomes and reconciliations reach the outbox    *)
(* in, now or late, its record only moves forward, keeps its owner and     *)
(* keeps its recovery.                                                     *)
THEOREM MovesForward == Spec => OutboxIsMonotone
<1>. DEFINE Forward ==
       /\ outbox'.state \in (IF outbox.state = "absent" THEN {"absent", "pending"}
                                                        ELSE NextStates(outbox.state))
       /\ outbox.token # NoOne => outbox'.token = outbox.token
       /\ outbox.recovery # NoRecovery => outbox'.recovery = outbox.recovery
<1>1. Ownership /\ [Next]_vars => [Forward]_vars
  <2>. SUFFICES ASSUME Ownership, [Next]_vars PROVE Forward
    OBVIOUS
  <2>1. CASE UNCHANGED outbox
    BY <2>1 DEF Ownership, TypeOK, Effect, OutboxState, Decided, NextStates
  <2>2. CASE outbox.state = "absent" /\ outbox' = Pending
    BY <2>2 DEF Ownership, UnclaimedIsBare, Pending, Record
  <2>3. CASE outbox.state = "pending" /\ \E i \in Invocation : outbox' = Flight(i)
    BY <2>3 DEF Ownership, UnclaimedIsBare, Flight, Record, NextStates
  <2>4. CASE \E r \in Effect : /\ r.token \in sent /\ r.state \in Decided
                               /\ outbox' = AfterWrite(r)
    BY <2>4, WriteEffect
  <2>5. QED
    BY <2>1, <2>2, <2>3, <2>4, OutboxStep
<1>2. QED
  BY <1>1, OwnershipInvariant, PTL DEF Spec, OutboxIsMonotone

-----------------------------------------------------------------------------
(* Truth: what the stores say happened did happen. It is inductive         *)
(* together with Ownership.                                                *)

Undecided == Sending \ {"enqueueing", "dispatching"}

Accounted   == posts = 1 /\ ledger = "written"
Complete(i) == Accounted /\ claim.status = "completed" /\ claim.token = i

RecordIsTrue(r) == /\ r.state = "succeeded" => Complete(r.token)
                   /\ r.state = "failed_terminal" => posts = 0

(* What the sender knows at each of its steps.                             *)
SenderKnows(i) ==
  /\ pc[i] \in Undecided => outbox = Flight(i)
  /\ pc[i] \in {"sending", "replying", "delivering"} => posts = 0 /\ ~obs[i]
  /\ pc[i] = "completing" => obs[i]
  /\ pc[i] = "recording" =>
       IF obs[i] THEN claim.status = "completed" /\ claim.token = i
                 ELSE posts = 0
  /\ pc[i] = "writing" => /\ end[i] = "observed" => Complete(i)
                          /\ end[i] = "ineligible" => posts = 0
  /\ pc[i] \in {"enqueueing", "dispatching"} => cap[i] # NoRecovery
  /\ pc[i] = "dispatching" => job.stage # "absent"

SenderIsTrue == \A i \in Invocation : SenderKnows(i)

PostsAreOne == /\ posts \in {0, 1}
               /\ posts = 1 => sent # {}
               /\ \A i \in Invocation : obs[i] => posts = 1

OwnRecovery == \A i \in Invocation : cap[i] = NoRecovery \/ cap[i].by = i

(* Outcomes are written, now or late, after provider_send is over.         *)
LateIsTrue ==
  \A r \in late : r.state \in Decided =>
    RecordIsTrue(r) /\ pc[r.token] \notin Undecided

StageIsTrue(stage) ==
  /\ stage \in {"accounting_completed", "runtime_claim_completed", "settled"}
       => Accounted
  /\ stage \in {"runtime_claim_completed", "settled"}
       => Complete(job.recovery.by)

JobIsTrue ==
  /\ StageIsTrue(job.stage)
  /\ job.stage # "absent" => job.recovery.by \in sent
  /\ (\E i \in Invocation : pc[i] \in Sending)
       => job.stage \in {"absent", "queued"}

ReconcilerIsTrue ==
  \A m \in Mail :
    /\ at[m] = "unsent" => seen[m] = "absent"
    /\ at[m] # "unsent" => job.stage # "absent"
    /\ StageIsTrue(seen[m])
    /\ at[m] = "accounting" => posts = 1
    /\ at[m] \in {"mark_accounting", "claiming"} => Accounted
    /\ at[m] \in {"mark_claim", "mark_settled", "finishing"}
         => Complete(job.recovery.by)

Truth ==
  /\ SenderIsTrue
  /\ PostsAreOne
  /\ OwnRecovery
  /\ RecordIsTrue(outbox)
  /\ LateIsTrue
  /\ JobIsTrue
  /\ ReconcilerIsTrue

-----------------------------------------------------------------------------
(* Lemmas.                                                                 *)

(* Until the outcome is written nothing else knows of the effect.          *)
LEMMA NothingElseYet ==
  ASSUME Ownership, Truth, NEW i \in Invocation, pc[i] \in Undecided
  PROVE  /\ i \in sent
         /\ outbox = Flight(i)
         /\ \A j \in Invocation : pc[j] \in Sending => j = i
         /\ \A r \in late : r.state \notin Decided
         /\ job.stage \in {"absent", "queued"}
         /\ \A m \in Mail : at[m] = "unsent" /\ seen[m] = "absent"
<1>1. pc[i] \in Sending
  BY DEF Undecided
<1>2. i \in sent /\ outbox = Flight(i)
  BY <1>1 DEF Ownership, SendingIsSent, Truth, SenderIsTrue, SenderKnows
<1>3. \A j \in Invocation : j \in sent => j = i
  BY <1>2 DEF Ownership, SentIsOwner
<1>4. \A r \in late : r.state \notin Decided
  BY <1>2, <1>3 DEF Ownership, TypeOK, LateIsOwned, Truth, LateIsTrue, Flight,
                    Record, Decided
<1>5. \A m \in Mail : at[m] = "unsent" /\ seen[m] = "absent"
  BY <1>1 DEF Ownership, MailFollowsSend, Truth, ReconcilerIsTrue
<1>6. QED
  BY <1>1, <1>2, <1>3, <1>4, <1>5 DEF Ownership, SendingIsSent, Truth,
     JobIsTrue

(* Once handed over, the effect has one sender and no other may send.      *)
LEMMA OneSender ==
  ASSUME Ownership, NEW i \in sent
  PROVE  /\ \A j \in sent : j = i
         /\ \A j \in Invocation : pc[j] \in Sending => j = i
  BY DEF Ownership, SentIsOwner, SendingIsSent

(* The steps outside provider_send keep what has been settled.             *)
WorldKeeps == /\ posts' = posts
              /\ ledger = "written" => ledger' = "written"
              /\ claim.status = "completed" =>
                   claim'.status = "completed" /\ claim'.token = claim.token

LEMMA SettledStays ==
  ASSUME WorldKeeps
  PROVE  /\ Accounted => Accounted'
         /\ \A i : Complete(i) => Complete(i)'
         /\ \A r : RecordIsTrue(r) => RecordIsTrue(r)'
  BY DEF WorldKeeps, Accounted, Complete, RecordIsTrue

LEMMA OutcomeIsTrue ==
  ASSUME Ownership, Truth, NEW i \in Invocation, pc[i] = "writing"
  PROVE  RecordIsTrue(Outcome(i))
  BY DEF Truth, SenderIsTrue, SenderKnows, RecordIsTrue, Outcome, Record

-----------------------------------------------------------------------------
(* Truth, action by action.                                                *)

(* The steps of provider_send only touch the world and the sender.         *)
LEMMA ProviderKeepsTruth ==
  ASSUME Ownership, Truth, NEW i \in Invocation, pc[i] \in Undecided,
         UNCHANGED <<outbox, job, late, sent, at, tries, seen, held>>,
         \E step \in Undecided : Goto(i, step),
         PostsAreOne', OwnRecovery',
         pc'[i] \in {"replying", "delivering"} => posts' = 0 /\ ~obs'[i],
         pc'[i] = "completing" => obs'[i],
         pc'[i] = "recording" =>
           IF obs'[i] THEN claim'.status = "completed" /\ claim'.token = i
                      ELSE posts' = 0,
         pc'[i] = "writing" => /\ end'[i] = "observed" => Complete(i)'
                               /\ end'[i] = "ineligible" => posts' = 0,
         pc'[i] # "sending"
  PROVE  Truth'
<1>. USE NothingElseYet
<1>1. \A j \in Invocation \ {i} : pc'[j] = pc[j] /\ pc[j] \notin Sending
  BY DEF Ownership, TypeOK, Goto
<1>2. pc'[i] \in Undecided
  BY DEF Ownership, TypeOK, Goto
<1>3. SenderIsTrue'
  <2>1. \A j \in Invocation \ {i} : pc'[j] \notin Sending
    BY <1>1
  <2>2. Flight(i)' = Flight(i)
    BY DEF Flight, Record
  <2>3. QED
    BY <1>2, <2>1, <2>2 DEF SenderIsTrue, SenderKnows, Undecided, Sending
<1>4. RecordIsTrue(outbox)'
  BY DEF RecordIsTrue, Flight, Record
<1>5. LateIsTrue'
  BY DEF LateIsTrue
<1>6. JobIsTrue'
  BY DEF Truth, JobIsTrue, StageIsTrue
<1>7. ReconcilerIsTrue'
  BY DEF ReconcilerIsTrue, StageIsTrue
<1>8. QED
  BY <1>3, <1>4, <1>5, <1>6, <1>7 DEF Truth

LEMMA SendKeepsTruth ==
  ASSUME Ownership, Truth, NEW i \in Invocation,
         \/ ClaimEvent(i) \/ Compose(i) \/ Post(i) \/ CompleteEvent(i)
         \/ RecordOperation(i) \/ Defer(i)
  PROVE  Truth'
<1>. USE DEF Undecided, Sending, Goto, Returns, recon
<1>1. CASE ClaimEvent(i)
  BY <1>1, ProviderKeepsTruth
  DEF ClaimEvent, Ownership, TypeOK, Truth, SenderIsTrue, SenderKnows,
  PostsAreOne,
      OwnRecovery
<1>2. CASE Compose(i)
  BY <1>2, ProviderKeepsTruth
  DEF Compose, Ownership, TypeOK, Truth, SenderIsTrue, SenderKnows,
  PostsAreOne,
      OwnRecovery
<1>3. CASE Post(i)
  BY <1>3, ProviderKeepsTruth, NothingElseYet
  DEF Post, Ownership, TypeOK, Truth, SenderIsTrue, SenderKnows, PostsAreOne,
  OwnRecovery
<1>4. CASE CompleteEvent(i)
  BY <1>4, ProviderKeepsTruth, CompletedType
  DEF CompleteEvent, Completable, Ownership, TypeOK, Truth, SenderIsTrue,
  SenderKnows,
      PostsAreOne, OwnRecovery
<1>5. CASE RecordOperation(i)
  BY <1>5, ProviderKeepsTruth
  DEF RecordOperation, Ownership, TypeOK, Truth, SenderIsTrue, SenderKnows,
  PostsAreOne,
      OwnRecovery, Complete, Accounted
<1>6. CASE Defer(i)
  <2>1. OwnRecovery'
    <3>1. Captured(i).by = i
      BY DEF Captured
    <3>2. QED
      BY <1>6, <3>1 DEF Defer, Ownership, TypeOK, Truth, OwnRecovery
  <2>2. PostsAreOne'
    BY <1>6 DEF Defer, Truth, PostsAreOne
  <2>3. pc' = [pc EXCEPT ![i] = "writing"] /\ end'[i] = "thrown"
        /\ pc[i] = "deferring"
    BY <1>6 DEF Defer, Ownership, TypeOK
  <2>4. UNCHANGED <<outbox, job, late, sent, at, tries, seen, held>>
    BY <1>6 DEF Defer
  <2>5. QED
    BY <2>1, <2>2, <2>3, <2>4, ProviderKeepsTruth DEF Ownership, TypeOK
<1>7. QED
  BY <1>1, <1>2, <1>3, <1>4, <1>5, <1>6

(* Begin, claim and readback, before the effect is handed over.            *)
LEMMA ClaimingKeepsTruth ==
  ASSUME Ownership, Truth, NEW i \in Invocation,
         Begin(i) \/ ClaimOutbox(i) \/ ReadBack(i)
  PROVE  Truth'
<1>1. /\ UNCHANGED <<world, job, obs, end, cap, recon>>
      /\ \E step \in Step \ (Undecided \ {"sending"}) :
           Goto(i, step) /\ step \notin {"enqueueing", "dispatching"}
  BY DEF Begin, ClaimOutbox, ReadBack, NotClaimed, Goto, Step, Undecided,
     Calling,
         Sending, Ended
<1>2. i \notin sent /\ pc[i] \notin Sending
  BY DEF Begin, ClaimOutbox, ReadBack, Ownership, SentIsOwner, Sending, Ended
<1>3. /\ sent' = sent \/ sent' = sent \cup {i}
      /\ late' \subseteq late \cup {Flight(i)}
      /\ pc'[i] = "sending" =>
           outbox' = Flight(i) /\ outbox.token \notin sent
  <2>1. CASE Begin(i)
    BY <2>1 DEF Begin, Goto, Ownership, TypeOK, sender
  <2>2. CASE ClaimOutbox(i)
    <3>1. pc'[i] = "sending" => outbox' = AfterClaim(i) /\ outbox.state = "pending"
      BY <2>2 DEF ClaimOutbox, Goto, NotClaimed, Ownership, TypeOK
    <3>2. QED
      BY <2>2, <3>1, ClaimEffect, EffectAssumption
      DEF ClaimOutbox, Ownership, TypeOK, UnclaimedIsBare
  <2>3. CASE ReadBack(i)
    <3>1. pc'[i] = "sending" => OwnFlight(i)
      BY <2>3 DEF ReadBack, Goto, Ownership, TypeOK
    <3>2. OwnFlight(i) => outbox = Flight(i) /\ outbox.token = i
      BY <1>2 DEF OwnFlight, Ownership, ClaimedIsOwned
    <3>3. QED
      BY <1>2, <2>3, <3>1, <3>2 DEF ReadBack
  <2>4. QED
    BY <2>1, <2>2, <2>3
<1>4. pc'[i] = "sending" => /\ sent = {}
                            /\ posts = 0 /\ ~obs[i]
                            /\ job.stage = "absent"
  <2>1. outbox.token \notin sent => sent = {}
    BY DEF Ownership, SentIsOwner
  <2>2. QED
    BY <1>3, <2>1 DEF Truth, PostsAreOne, JobIsTrue
<1>5. \/ UNCHANGED outbox
      \/ /\ outbox.state \in {"absent", "pending"}
         /\ outbox'.state \in {"pending", "in_flight"}
  <2>1. \/ outbox' = outbox \/ outbox' = Begun \/ outbox' = AfterClaim(i)
    BY DEF Begin, ClaimOutbox, ReadBack
  <2>2. Pending.state = "pending" /\ Flight(i).state = "in_flight"
    BY DEF Pending, Flight, Record
  <2>3. Begun = outbox \/ (outbox.state = "absent" /\ Begun = Pending)
    BY DEF Begun
  <2>4. QED
    BY <2>1, <2>2, <2>3, ClaimEffect
<1>6. \A j \in Invocation \ {i} : pc'[j] = pc[j]
  BY <1>1 DEF Goto, Ownership, TypeOK
<1>7. pc'[i] \notin Sending \/ pc'[i] = "sending"
  BY <1>1 DEF Goto, Ownership, TypeOK, Undecided, Sending
<1>8. SenderIsTrue'
  <2>1. ASSUME NEW j \in Invocation \ {i}
        PROVE  SenderKnows(j)'
    <3>1. pc[j] \in Undecided => outbox' = Flight(j)
      BY <1>5 DEF Truth, SenderIsTrue, SenderKnows, Flight, Record
    <3>2. QED
      BY <1>1, <1>6, <3>1
      DEF Truth, SenderIsTrue, SenderKnows, Complete, Accounted, world,
          Flight, Record, NoRecovery
  <2>2. SenderKnows(i)'
    <3>1. Flight(i)' = Flight(i)
      BY DEF Flight, Record
    <3>2. pc'[i] = "sending" =>
            outbox' = Flight(i) /\ posts' = 0 /\ ~obs'[i]
      BY <1>1, <1>3, <1>4 DEF world
    <3>3. QED
      BY <1>7, <3>1, <3>2 DEF SenderKnows, Undecided, Sending
  <2>3. QED
    BY <2>1, <2>2 DEF SenderIsTrue, SenderKnows
<1>9. PostsAreOne' /\ OwnRecovery'
  BY <1>1, <1>3 DEF Truth, PostsAreOne, OwnRecovery, world, NoRecovery
<1>10. RecordIsTrue(outbox)'
  BY <1>1, <1>5 DEF Truth, RecordIsTrue, Complete, Accounted, world
<1>11. LateIsTrue'
  <2>1. \A r \in late' : r.state \in Decided => r \in late
    BY <1>3 DEF Flight, Record, Decided
  <2>2. \A r \in late : r.state \in Decided => r.token \in sent
    BY DEF Ownership, LateIsOwned, Flight, Record, Decided
  <2>3. WorldKeeps
    BY <1>1 DEF WorldKeeps, world
  <2>4. \A r \in late : r.state \in Decided => pc'[r.token] = pc[r.token]
    BY <1>2, <1>6, <2>2 DEF Ownership, TypeOK
  <2>5. \A r \in late : r.state \in Decided => RecordIsTrue(r)'
    BY <2>3, SettledStays DEF Truth, LateIsTrue
  <2>6. QED
    BY <2>1, <2>4, <2>5 DEF Truth, LateIsTrue, Undecided
<1>12. JobIsTrue'
  BY <1>1, <1>3, <1>4, <1>6, <1>7
  DEF Truth, JobIsTrue, StageIsTrue, Complete, Accounted, world
<1>13. ReconcilerIsTrue'
  BY <1>1 DEF Truth, ReconcilerIsTrue, StageIsTrue, Complete, Accounted,
              world, recon
<1>14. QED
  BY <1>8, <1>9, <1>10, <1>11, <1>12, <1>13 DEF Truth

(* Writing the outcome, enqueueing, dispatching, and a crash.              *)
LEMMA OutcomeKeepsTruth ==
  ASSUME Ownership, Truth, NEW i \in Invocation,
         WriteOutcome(i) \/ Enqueue(i) \/ Dispatch(i) \/ Crash(i)
  PROVE  Truth'
<1>1. UNCHANGED <<world, sent, obs, end, cap, seen>> /\ WorldKeeps
  BY DEF WriteOutcome, Enqueue, Dispatch, Crash, recon, world, WorldKeeps
<1>2. PostsAreOne' /\ OwnRecovery'
  BY <1>1 DEF Truth, PostsAreOne, OwnRecovery, world, NoRecovery
<1>3. \A j \in Invocation \ {i} : pc'[j] = pc[j]
  BY DEF WriteOutcome, Enqueue, Dispatch, Crash, Goto, Ownership, TypeOK
<1>4. /\ \A r : RecordIsTrue(r) => RecordIsTrue(r)'
      /\ \A stage : job' = job => StageIsTrue(stage)' = StageIsTrue(stage)
  BY <1>1, SettledStays DEF StageIsTrue, Complete, Accounted, world
<1>5. CASE Crash(i)
  <2>1. UNCHANGED <<outbox, job, late, recon>> /\ pc'[i] = "crashed"
    BY <1>5 DEF Crash, Goto, Ownership, TypeOK
  <2>2. SenderIsTrue'
    BY <1>1, <1>3, <2>1
    DEF Truth, SenderIsTrue, SenderKnows, Undecided, Sending, Complete,
        Accounted, world, Flight, Record, NoRecovery
  <2>3. LateIsTrue'
    <3>1. \A r \in late : r.state \in Decided => RecordIsTrue(r)'
      BY <1>4 DEF Truth, LateIsTrue
    <3>2. \A r \in late : r.state \in Decided => r.token \in Invocation
      BY DEF Ownership, TypeOK, LateIsOwned
    <3>3. QED
      BY <1>3, <2>1, <3>1, <3>2 DEF Truth, LateIsTrue, Undecided, Sending
  <2>4. RecordIsTrue(outbox)'
    BY <1>1, <2>1 DEF Truth, RecordIsTrue, Complete, Accounted, world
  <2>5. JobIsTrue'
    BY <1>1, <1>3, <2>1
    DEF Truth, JobIsTrue, StageIsTrue, Complete, Accounted, world, Sending
  <2>6. ReconcilerIsTrue'
    BY <1>1, <2>1
    DEF Truth, ReconcilerIsTrue, StageIsTrue, Complete, Accounted, world,
    recon
  <2>7. QED
    BY <1>2, <2>2, <2>3, <2>4, <2>5, <2>6 DEF Truth
<1>6. CASE WriteOutcome(i)
  <2>1. /\ pc[i] = "writing"
        /\ UNCHANGED <<job, recon>>
        /\ outbox' = outbox \/ outbox' = AfterWrite(Outcome(i))
        /\ late' \subseteq late \cup {Outcome(i)}
    BY <1>6 DEF WriteOutcome
  <2>2. \E step \in {"acked", "enqueueing"} : Goto(i, step)
    BY <1>6, OutcomeGoto
  <2>3. pc'[i] = "enqueueing" => cap[i] # NoRecovery
    BY <1>6 DEF WriteOutcome, AfterOutcome, Goto, Ownership, TypeOK
  <2>4. /\ i \in sent /\ \A j \in Invocation : pc[j] \in Sending => j = i
        /\ \A r \in late : r.state \notin Decided
        /\ job.stage \in {"absent", "queued"}
    BY <2>1, NothingElseYet DEF Undecided, Sending
  <2>5. RecordIsTrue(Outcome(i))
    BY <2>1, OutcomeIsTrue
  <2>6. Outcome(i).token = i
    BY OutcomeType DEF Ownership
  <2>7. SenderIsTrue'
    <3>1. pc'[i] \in {"acked", "enqueueing"}
      BY <2>2 DEF Goto, Ownership, TypeOK
    <3>2. SenderKnows(i)'
      BY <1>1, <2>3, <3>1 DEF SenderKnows, Undecided, Sending, NoRecovery
    <3>3. \A j \in Invocation \ {i} : SenderKnows(j)'
      BY <1>3, <2>4 DEF SenderKnows, Undecided, Sending
    <3>4. QED
      BY <3>2, <3>3 DEF SenderIsTrue
  <2>8. RecordIsTrue(outbox)'
    <3>1. outbox' = outbox \/ outbox' = Outcome(i)
      BY <2>1 DEF AfterWrite
    <3>2. CASE outbox' = outbox
      BY <1>1, <3>2 DEF Truth, RecordIsTrue, Complete, Accounted, world
    <3>3. CASE outbox' = Outcome(i)
      BY <1>1, <2>5, <3>3
      DEF RecordIsTrue, Complete, Accounted, world
    <3>4. QED
      BY <3>1, <3>2, <3>3
  <2>9. LateIsTrue'
    <3>1. \A r \in late' : r.state \in Decided => r = Outcome(i)
      BY <2>1, <2>4
    <3>2. pc'[i] \notin Undecided
      BY <2>2 DEF Goto, Ownership, TypeOK, Undecided, Sending
    <3>3. \A r : r = Outcome(i) => RecordIsTrue(r)'
      BY <1>4, <2>5
    <3>4. QED
      BY <2>6, <3>1, <3>2, <3>3 DEF LateIsTrue, Undecided
  <2>10. JobIsTrue'
    BY <1>1, <2>1, <2>4
    DEF Truth, JobIsTrue, StageIsTrue, Complete, Accounted, world
  <2>11. ReconcilerIsTrue'
    BY <1>1, <2>1
    DEF Truth, ReconcilerIsTrue, StageIsTrue, Complete, Accounted, world,
    recon
  <2>12. QED
    BY <1>2, <2>7, <2>8, <2>9, <2>10, <2>11 DEF Truth
<1>7. CASE Enqueue(i) \/ Dispatch(i)
  <2>1. /\ pc[i] \in {"enqueueing", "dispatching"}
        /\ UNCHANGED <<outbox, late>>
        /\ pc'[i] \in {"dispatching", "acked"}
    BY <1>7 DEF Enqueue, Dispatch, Goto, Ownership, TypeOK
  <2>2. /\ i \in sent /\ cap[i] # NoRecovery /\ cap[i].by = i
        /\ \A j \in Invocation : pc[j] \in Sending => j = i
        /\ \A m \in Mail : at[m] = "unsent" /\ seen[m] = "absent"
        /\ job.stage \in {"absent", "queued"}
    BY <2>1, OneSender
    DEF Ownership, SendingIsSent, MailFollowsSend, Truth, SenderIsTrue,
        SenderKnows, OwnRecovery, JobIsTrue, ReconcilerIsTrue, Sending
  <2>3. /\ job'.stage \in {"absent", "queued"}
        /\ job'.stage # "absent" => job'.recovery.by \in sent
        /\ pc'[i] = "dispatching" => job'.stage # "absent"
        /\ (\E m \in Mail : at'[m] # "unsent") => job'.stage # "absent"
    <3>1. CASE Enqueue(i)
      BY <2>1, <2>2, <3>1
      DEF Enqueue, Enqueued, Goto, Ownership, TypeOK, Truth, JobIsTrue, recon
    <3>2. CASE Dispatch(i)
      BY <2>2, <3>2
      DEF Dispatch, Goto, Ownership, TypeOK, Truth, JobIsTrue, SenderIsTrue,
          SenderKnows
    <3>3. QED
      BY <1>7, <3>1, <3>2
  <2>4. SenderIsTrue'
    <3>1. SenderKnows(i)'
      BY <1>1, <2>1, <2>2, <2>3 DEF SenderKnows, Undecided, Sending,
         NoRecovery
    <3>2. \A j \in Invocation \ {i} : SenderKnows(j)'
      BY <1>3, <2>2 DEF SenderKnows, Undecided, Sending
    <3>3. QED
      BY <3>1, <3>2 DEF SenderIsTrue
  <2>5. RecordIsTrue(outbox)'
    BY <1>1, <2>1 DEF Truth, RecordIsTrue, Complete, Accounted, world
  <2>6. LateIsTrue'
    <3>1. \A r \in late : r.state \in Decided => RecordIsTrue(r)'
      BY <1>4 DEF Truth, LateIsTrue
    <3>2. \A r \in late : r.state \in Decided => r.token = i
      BY <2>2, OneSender DEF Ownership, LateIsOwned, Flight, Record, Decided
    <3>3. QED
      BY <2>1, <3>1, <3>2 DEF LateIsTrue, Undecided, Sending
  <2>7. JobIsTrue'
    BY <1>1, <2>3 DEF JobIsTrue, StageIsTrue
  <2>8. ReconcilerIsTrue'
    <3>1. \A m \in Mail : at'[m] \in {"unsent", "queued"}
      BY <1>7, <2>2 DEF Enqueue, Dispatch, Ownership, TypeOK, recon
    <3>2. QED
      BY <1>1, <2>2, <2>3, <3>1 DEF ReconcilerIsTrue, StageIsTrue
  <2>9. QED
    BY <1>2, <2>4, <2>5, <2>6, <2>7, <2>8 DEF Truth
<1>8. QED
  BY <1>5, <1>6, <1>7

(* What the reconciler knows after a step: it goes on to a settlement step *)
(* only with evidence that everything before it is settled.                *)
LEMMA ReconcilerTurn ==
  ASSUME Ownership, Truth, NEW m \in Mail, Reconcile(m), ~FinishOutbox(m)
  PROVE  /\ StageIsTrue(seen'[m])
         /\ at'[m] = "accounting" => posts' = 1
         /\ at'[m] \in {"mark_accounting", "claiming"} => Accounted'
         /\ at'[m] \in {"mark_claim", "mark_settled", "finishing"}
              => Complete(job.recovery.by)'
<1>. DEFINE Goal == /\ StageIsTrue(seen'[m])
                    /\ at'[m] = "accounting" => posts' = 1
                    /\ at'[m] \in {"mark_accounting", "claiming"} => Accounted'
                    /\ at'[m] \in {"mark_claim", "mark_settled", "finishing"}
                         => Complete(job.recovery.by)'
<1>. USE DEF Ownership, TypeOK, MailTo, Again, Fails, MailStep
<1>1. /\ StageIsTrue(seen[m])
      /\ posts = 0 \/ posts = 1
  BY DEF Truth, ReconcilerIsTrue, PostsAreOne
<1>2. CASE ReadJob(m)
  BY <1>2 DEF ReadJob, Truth, JobIsTrue
<1>3. CASE ReadOutbox(m)
  <2>1. Settled(m) => Complete(job.recovery.by)
    BY <1>1 DEF Settled, StageIsTrue
  <2>2. UNCHANGED <<world, job, seen>>
    BY <1>3 DEF ReadOutbox
  <2>3. at'[m] \in {"acked", "queued", "dead", "verifying"}
        \/ (at'[m] = "finishing" /\ Settled(m))
    BY <1>3 DEF ReadOutbox
  <2>4. QED
    BY <1>1, <2>1, <2>2, <2>3 DEF world, Complete, Accounted
<1>4. CASE Verify(m)
  BY <1>1, <1>4 DEF Verify
<1>5. CASE ProviderReadback(m)
  <2>1. /\ UNCHANGED <<world, job, seen>>
        /\ \/ at'[m] \in {"queued", "dead"}
           \/ posts = 1 /\ at'[m] = FirstSettling(m)
    BY <1>1, <1>5 DEF ProviderReadback, FirstSettling
  <2>2. /\ FirstSettling(m) \in {"accounting", "claiming", "mark_settled"}
        /\ FirstSettling(m) = "claiming" => Accounted
        /\ FirstSettling(m) = "mark_settled" => Complete(job.recovery.by)
    BY <1>1 DEF FirstSettling, Rank, StageIsTrue, Stage
  <2>3. QED
    BY <1>1, <2>1, <2>2 DEF world, Complete, Accounted
<1>6. CASE SettleAccounting(m)
  BY <1>1, <1>6 DEF SettleAccounting, Truth, ReconcilerIsTrue, Accounted
<1>7. CASE SettleClaim(m)
  BY <1>1, <1>7, CompletedType
  DEF SettleClaim, Truth, ReconcilerIsTrue, Complete, Accounted, Completable
<1>8. ASSUME NEW step, NEW stage,
             NEW next \in {"claiming", "mark_settled", "finishing"},
             Mark(m, step, stage, next),
             next = "claiming" => Accounted,
             next # "claiming" => Complete(job.recovery.by)
      PROVE  Goal
  <2>1. /\ UNCHANGED <<world, seen>>
        /\ at'[m] \in {"queued", "dead", next}
    BY <1>8 DEF Mark
  <2>2. job'.recovery = job.recovery
    BY <1>8 DEF Mark, Marked
  <2>3. QED
    BY <1>1, <1>8, <2>1, <2>2 DEF world, Complete, Accounted
<1>9. CASE MarkAccounting(m)
  <2>1. Accounted
    BY <1>9 DEF MarkAccounting, Mark, Truth, ReconcilerIsTrue
  <2>2. QED
    BY <1>8, <1>9, <2>1 DEF MarkAccounting
<1>10. CASE MarkClaim(m)
  <2>1. Complete(job.recovery.by)
    BY <1>10 DEF MarkClaim, Mark, Truth, ReconcilerIsTrue
  <2>2. QED
    BY <1>8, <1>10, <2>1 DEF MarkClaim
<1>11. CASE MarkSettled(m)
  <2>1. Complete(job.recovery.by)
    BY <1>11 DEF MarkSettled, Mark, Truth, ReconcilerIsTrue
  <2>2. QED
    BY <1>8, <1>11, <2>1 DEF MarkSettled
<1>12. QED
  BY <1>2, <1>3, <1>4, <1>5, <1>6, <1>7, <1>9, <1>10, <1>11 DEF Reconcile

(* The reconciler: no sender is left, and what it finds settled stays so.  *)
LEMMA ReconcilerKeepsTruth ==
  ASSUME Ownership, Truth, NEW m \in Mail, Reconcile(m)
  PROVE  Truth'
<1>1. /\ at[m] # "unsent"
      /\ sent # {} /\ \A i \in Invocation : pc[i] \notin Sending
      /\ job.stage # "absent" /\ job.recovery.by \in sent
  <2>1. at[m] # "unsent"
    BY DEF Reconcile, ReadJob, ReadOutbox, Verify, ProviderReadback,
      SettleAccounting, MarkAccounting, SettleClaim, MarkClaim, MarkSettled,
      Mark, FinishOutbox
  <2>2. QED
    BY <2>1 DEF Ownership, MailFollowsSend, Truth, ReconcilerIsTrue, JobIsTrue
<1>2. /\ UNCHANGED <<posts, sender>>
      /\ \A n \in Mail \ {m} : at'[n] = at[n] /\ seen'[n] = seen[n]
      /\ at'[m] # "unsent"
  <2>1. ASSUME NEW step, NEW stage, NEW next \in MailStep \ {"unsent"},
               Mark(m, step, stage, next)
        PROVE  /\ UNCHANGED <<posts, sender>>
               /\ \A n \in Mail \ {m} : at'[n] = at[n] /\ seen'[n] = seen[n]
               /\ at'[m] # "unsent"
    BY <2>1 DEF Mark, MailTo, Again, Fails, MailStep, Ownership, TypeOK, world
  <2>2. CASE MarkAccounting(m) \/ MarkClaim(m) \/ MarkSettled(m)
    BY <2>1, <2>2 DEF MarkAccounting, MarkClaim, MarkSettled, MailStep
  <2>3. CASE ReadJob(m) \/ ReadOutbox(m) \/ Verify(m)
    BY <2>3 DEF ReadJob, ReadOutbox, Verify, MailTo, Again, Fails, Ownership,
                TypeOK, world
  <2>4. CASE \/ ProviderReadback(m) \/ SettleAccounting(m) \/ SettleClaim(m)
             \/ FinishOutbox(m)
    BY <2>4 DEF ProviderReadback, SettleAccounting, SettleClaim, FinishOutbox,
                FirstSettling, MailTo, Again, Fails, Ownership, TypeOK, world
  <2>5. QED
    BY <2>2, <2>3, <2>4 DEF Reconcile
<1>3. WorldKeeps
  <2>1. claim' = claim \/ claim' = CompletedClaim
    BY DEF Reconcile, ReadJob, ReadOutbox, Verify, ProviderReadback,
      SettleAccounting, MarkAccounting, SettleClaim, MarkClaim, MarkSettled,
      Mark, FinishOutbox, world
  <2>2. ledger' = ledger \/ ledger' = "written"
    BY DEF Reconcile, ReadJob, ReadOutbox, Verify, ProviderReadback,
      SettleAccounting, MarkAccounting, SettleClaim, MarkClaim, MarkSettled,
      Mark, FinishOutbox, world
  <2>3. QED
    BY <1>2, <2>1, <2>2, CompletedType DEF WorldKeeps, Ownership
<1>4. SenderIsTrue' /\ PostsAreOne' /\ OwnRecovery'
  BY <1>1, <1>2
  DEF sender, SenderIsTrue, SenderKnows, Undecided, Sending, PostsAreOne,
      OwnRecovery, Truth, NoRecovery
<1>5. /\ \A stage : StageIsTrue(stage) /\ job'.recovery = job.recovery
           => StageIsTrue(stage)'
      /\ \A r : RecordIsTrue(r) => RecordIsTrue(r)'
      /\ Accounted => Accounted'
      /\ \A i : Complete(i) => Complete(i)'
  BY <1>3, SettledStays DEF StageIsTrue
<1>6. /\ job'.recovery = job.recovery
      /\ job'.stage # "absent"
      /\ StageIsTrue(job'.stage)
  <2>1. ASSUME NEW stage \in {"accounting_completed", "runtime_claim_completed",
                              "settled"},
               NEW step, NEW next,
               Mark(m, step, stage, next), StageIsTrue(stage)
        PROVE  /\ job'.recovery = job.recovery
               /\ job'.stage # "absent"
               /\ StageIsTrue(job'.stage)
    <3>1. job' = job \/ job' = Marked(stage)
      BY <2>1 DEF Mark
    <3>2. QED
      BY <1>1, <2>1, <3>1, MarkedType DEF Ownership, Truth, JobIsTrue, Stage
  <2>2. CASE MarkAccounting(m)
    <3>1. StageIsTrue("accounting_completed")
      BY <2>2 DEF MarkAccounting, Mark, Truth, ReconcilerIsTrue, StageIsTrue
    <3>2. QED
      BY <2>1, <2>2, <3>1 DEF MarkAccounting
  <2>3. CASE MarkClaim(m)
    <3>1. StageIsTrue("runtime_claim_completed")
      BY <2>3 DEF MarkClaim, Mark, Truth, ReconcilerIsTrue, StageIsTrue,
         Complete
    <3>2. QED
      BY <2>1, <2>3, <3>1 DEF MarkClaim
  <2>4. CASE MarkSettled(m)
    <3>1. StageIsTrue("settled")
      BY <2>4 DEF MarkSettled, Mark, Truth, ReconcilerIsTrue, StageIsTrue,
         Complete
    <3>2. QED
      BY <2>1, <2>4, <3>1 DEF MarkSettled
  <2>5. CASE UNCHANGED job
    BY <1>1, <2>5 DEF Truth, JobIsTrue
  <2>6. QED
    BY <2>2, <2>3, <2>4, <2>5
    DEF Reconcile, ReadJob, ReadOutbox, Verify, ProviderReadback,
      SettleAccounting, SettleClaim, FinishOutbox
<1>7. JobIsTrue'
  <2>1. StageIsTrue(job.stage)'
    BY <1>3, <1>6, SettledStays DEF StageIsTrue
  <2>2. QED
    BY <1>1, <1>2, <1>6, <2>1 DEF JobIsTrue, sender
<1>8. CASE FinishOutbox(m)
  <2>1. Confirmed(m).state = "succeeded" /\ Confirmed(m).token = job.recovery.by
    <3>1. held[m].token \in sent
      BY <1>8 DEF FinishOutbox, Ownership, HeldIsOwned, Working, MailStep
    <3>2. held[m].token = job.recovery.by
      BY <1>1, <3>1, OneSender
    <3>3. QED
      BY <3>2 DEF Confirmed, Ownership, TypeOK, Effect
  <2>2. RecordIsTrue(Confirmed(m))
    BY <1>8, <2>1 DEF FinishOutbox, Truth, ReconcilerIsTrue, RecordIsTrue
  <2>3. /\ outbox' = outbox \/ outbox' = Confirmed(m)
        /\ late' \subseteq late \cup {Confirmed(m)}
        /\ UNCHANGED <<world, job>>
    BY <1>8 DEF FinishOutbox, AfterWrite
  <2>4. RecordIsTrue(outbox)'
    BY <2>2, <2>3 DEF Truth, RecordIsTrue, Complete, Accounted, world
  <2>5. LateIsTrue'
    <3>1. \A r \in late' : r.state \in Decided => RecordIsTrue(r)
      BY <2>2, <2>3 DEF Truth, LateIsTrue
    <3>2. \A r \in late' : r.state \in Decided => r.token \in Invocation
      <4>1. job.recovery.by \in Invocation
        BY <1>1 DEF Ownership, TypeOK
      <4>2. QED
        BY <2>1, <2>3, <4>1 DEF Ownership, TypeOK, LateIsOwned
    <3>3. QED
      BY <1>1, <1>2, <1>5, <3>1, <3>2
      DEF LateIsTrue, sender, Undecided, Sending
  <2>6. at'[m] \in {"queued", "acked", "dead"} /\ UNCHANGED seen
    <3>1. /\ UNCHANGED seen
          /\ \E step \in {"queued", "acked", "dead"} : MailTo(m, step)
      BY <1>8 DEF FinishOutbox, Again, Fails, MailTo
    <3>2. QED
      BY <3>1 DEF MailTo, Ownership, TypeOK
  <2>7. ReconcilerIsTrue'
    <3>1. \A n \in Mail : at'[n] = at[n] \/ at'[n] \in {"queued", "acked", "dead"}
      BY <1>2, <2>6
    <3>2. \A n \in Mail : at[n] = "unsent" <=> at'[n] = "unsent"
      BY <1>1, <1>2
    <3>3. \A n \in Mail : StageIsTrue(seen[n])'
      BY <1>5, <2>3, <2>6 DEF Truth, ReconcilerIsTrue
    <3>4. QED
      BY <2>3, <2>6, <3>1, <3>2, <3>3
      DEF Truth, ReconcilerIsTrue, Complete, Accounted, world
  <2>8. QED
    BY <1>4, <1>7, <2>4, <2>5, <2>7 DEF Truth
<1>9. CASE ~FinishOutbox(m)
  <2>1. UNCHANGED <<outbox, late>>
    BY <1>9, ReconcilerStep DEF ReconcilerMoves
  <2>2. RecordIsTrue(outbox)'
    BY <1>3, <2>1, SettledStays DEF Truth, RecordIsTrue
  <2>3. LateIsTrue'
    <3>1. \A r \in late : r.state \in Decided => RecordIsTrue(r)'
      BY <1>5 DEF Truth, LateIsTrue
    <3>2. UNCHANGED <<late, pc>>
      BY <1>2, <2>1 DEF sender
    <3>3. QED
      BY <3>1, <3>2 DEF Truth, LateIsTrue, Undecided
  <2>4. /\ StageIsTrue(seen'[m])
        /\ at'[m] = "accounting" => posts' = 1
        /\ at'[m] \in {"mark_accounting", "claiming"} => Accounted'
        /\ at'[m] \in {"mark_claim", "mark_settled", "finishing"}
             => Complete(job.recovery.by)'
    BY <1>9, ReconcilerTurn
  <2>5. ReconcilerIsTrue'
    <3>1. \A n \in Mail \ {m} :
            /\ StageIsTrue(seen[n]) => StageIsTrue(seen[n])'
            /\ Complete(job.recovery.by) => Complete(job.recovery.by)'
      BY <1>2, <1>5, <1>6
    <3>2. QED
      BY <1>2, <1>5, <1>6, <2>4, <3>1
      DEF Truth, ReconcilerIsTrue, StageIsTrue
  <2>6. QED
    BY <1>4, <1>7, <2>2, <2>3, <2>5 DEF Truth
<1>10. QED
  BY <1>8, <1>9

(* A call executed after its caller gave up.                               *)
LEMMA LateCallKeepsTruth ==
  ASSUME Ownership, Truth, NEW r \in late, LateCall(r)
  PROVE  Truth'
<1>1. /\ UNCHANGED <<world, job, sender, recon>> /\ WorldKeeps
      /\ late' \subseteq late
  BY DEF LateCall, WorldKeeps, world
<1>2. /\ \A i \in Invocation : pc[i] \in Undecided => outbox' = outbox
      /\ RecordIsTrue(outbox')
  <2>1. CASE outbox' = outbox
    BY <2>1 DEF Truth
  <2>2. CASE outbox' # outbox /\ r.state = "in_flight"
    <3>1. r.token \in Invocation /\ outbox.state = "pending"
          /\ outbox' = Flight(r.token)
      BY <2>2, ClaimEffect DEF LateCall, AfterLate, Ownership, LateIsOwned,
         Decided
    <3>2. \A i \in Invocation : pc[i] \notin Undecided
      BY <3>1 DEF Truth, SenderIsTrue, SenderKnows, Flight, Record
    <3>3. QED
      BY <3>1, <3>2 DEF RecordIsTrue, Flight, Record
  <2>3. CASE outbox' # outbox /\ r.state # "in_flight"
    <3>1. outbox' = r /\ r.state \in Decided /\ r.token \in sent
      BY <2>3 DEF LateCall, AfterLate, AfterWrite, Ownership, LateIsOwned,
                  Flight, Record
    <3>2. \A i \in Invocation : pc[i] \in Sending => i = r.token
      BY <3>1, OneSender
    <3>3. QED
      BY <3>1, <3>2 DEF Truth, LateIsTrue, Undecided
  <2>4. QED
    BY <2>1, <2>2, <2>3
<1>3. SenderIsTrue' /\ PostsAreOne' /\ OwnRecovery'
  BY <1>1, <1>2
  DEF Truth, SenderIsTrue, SenderKnows, PostsAreOne, OwnRecovery, Complete,
      Accounted, world, sender, Flight, Record, NoRecovery
<1>4. RecordIsTrue(outbox)'
  BY <1>1, <1>2 DEF RecordIsTrue, Complete, Accounted, world
<1>5. LateIsTrue'
  <2>1. \A q \in late : q.state \in Decided => RecordIsTrue(q)'
    BY <1>1, SettledStays DEF Truth, LateIsTrue
  <2>2. UNCHANGED pc
    BY <1>1 DEF sender
  <2>3. QED
    BY <1>1, <2>1, <2>2 DEF Truth, LateIsTrue, Undecided
<1>6. JobIsTrue' /\ ReconcilerIsTrue'
  BY <1>1
  DEF Truth, JobIsTrue, ReconcilerIsTrue, StageIsTrue, Complete, Accounted,
      world, sender, recon
<1>7. QED
  BY <1>3, <1>4, <1>5, <1>6 DEF Truth

(* The T0 delivery and the end of a lease never touch a completed claim.   *)
LEMMA SurroundingsKeepTruth ==
  ASSUME Ownership, Truth,
         OtherClaims \/ OtherSettles \/ LeaseEnds \/ UNCHANGED vars
  PROVE  Truth'
<1>1. /\ UNCHANGED <<outbox, ledger, posts, job, late, sender, recon>>
      /\ claim.status = "completed" => UNCHANGED claim
  BY DEF OtherClaims, OtherSettles, LeaseEnds, vars, sender, recon,
         RuntimeClaimable
<1>2. WorldKeeps
  BY <1>1 DEF WorldKeeps
<1>3. SenderIsTrue' /\ PostsAreOne' /\ OwnRecovery'
  BY <1>1, <1>2, SettledStays
  DEF Truth, SenderIsTrue, SenderKnows, PostsAreOne, OwnRecovery, sender,
      Flight, Record, NoRecovery, WorldKeeps
<1>4. RecordIsTrue(outbox)'
  BY <1>1, <1>2, SettledStays DEF Truth, RecordIsTrue
<1>5. LateIsTrue'
  <2>1. \A q \in late : q.state \in Decided => RecordIsTrue(q)'
    BY <1>2, SettledStays DEF Truth, LateIsTrue
  <2>2. UNCHANGED pc
    BY <1>1 DEF sender
  <2>3. QED
    BY <1>1, <2>1, <2>2 DEF Truth, LateIsTrue, Undecided
<1>6. JobIsTrue' /\ ReconcilerIsTrue'
  BY <1>1, <1>2, SettledStays
  DEF Truth, JobIsTrue, ReconcilerIsTrue, StageIsTrue, sender, recon
<1>7. QED
  BY <1>3, <1>4, <1>5, <1>6 DEF Truth

-----------------------------------------------------------------------------
(* Truth is inductive together with ownership.                             *)

LEMMA TruthInit == Init => Truth
  BY EffectAssumption
  DEF Init, Truth, SenderIsTrue, SenderKnows, PostsAreOne, OwnRecovery,
      RecordIsTrue, LateIsTrue, JobIsTrue, ReconcilerIsTrue, StageIsTrue,
      Undecided, Sending, Record

LEMMA TruthNext == Ownership /\ Truth /\ [Next]_vars => Truth'
<1>. SUFFICES ASSUME Ownership, Truth, [Next]_vars PROVE Truth'
  OBVIOUS
<1>1. ASSUME NEW i \in Invocation, Invoke(i) PROVE Truth'
  BY <1>1, ClaimingKeepsTruth, SendKeepsTruth, OutcomeKeepsTruth DEF Invoke
<1>2. ASSUME NEW m \in Mail, Reconcile(m) PROVE Truth'
  BY <1>2, ReconcilerKeepsTruth
<1>3. ASSUME NEW r \in late, LateCall(r) PROVE Truth'
  BY <1>3, LateCallKeepsTruth
<1>4. QED
  BY <1>1, <1>2, <1>3, SurroundingsKeepTruth DEF Next

LEMMA TruthInvariant == Spec => [](Ownership /\ Truth)
<1>1. Init => Ownership /\ Truth
  BY OwnershipInit, TruthInit
<1>2. Ownership /\ Truth /\ [Next]_vars => (Ownership /\ Truth)'
  BY OwnershipNext, TruthNext
<1>3. QED
  BY <1>1, <1>2, PTL DEF Spec

-----------------------------------------------------------------------------
(* What follows from truth.                                                *)

(* Whoever records the effect as succeeded, its sender, a reconciler or a  *)
(* late call of either, the reply is in the thread exactly once, its       *)
(* accounting is written and its event claim is completed.                 *)
THEOREM SuccessIsComplete == Spec => []SucceededIsComplete
<1>1. Truth => SucceededIsComplete
  BY DEF Truth, RecordIsTrue, Complete, Accounted, SucceededIsComplete
<1>2. QED
  BY <1>1, TruthInvariant, PTL

(* What is on record changes only as the promise allows.                   *)
LEMMA RecordStep ==
  ASSUME Ownership, Truth, Truth', [Next]_vars, UNCHANGED <<sent, posts>>
  PROVE  Promise!Next \/ UNCHANGED <<sent, posts, OnRecord>>
<1>1. CASE UNCHANGED outbox
  BY <1>1 DEF OnRecord
<1>2. CASE outbox.state = "absent" /\ outbox' = Pending
  BY <1>2 DEF OnRecord, Pending, Record, Decided
<1>3. CASE outbox.state = "pending" /\ \E i \in Invocation : outbox' = Flight(i)
  BY <1>3 DEF OnRecord, Flight, Record, Decided
<1>4. CASE \E r \in Effect : /\ r.token \in sent /\ r.state \in Decided
                             /\ outbox' = AfterWrite(r)
  <2>1. PICK r \in Effect : /\ r.token \in sent /\ r.state \in Decided
                            /\ outbox' = AfterWrite(r)
    BY <1>4
  <2>2. CASE outbox' # r
    BY <1>1, <2>1, <2>2 DEF AfterWrite
  <2>3. CASE outbox' = r /\ ~UNCHANGED outbox
    <3>1. /\ outbox.state \in OutboxState
          /\ r.state \in NextStates(outbox.state)
      BY <2>1, <2>3 DEF AfterWrite, Writable, Ownership, TypeOK, Effect
    <3>2. /\ outbox'.state = "succeeded" => posts = 1
          /\ outbox'.state = "failed_terminal" => posts = 0
      BY DEF Truth, RecordIsTrue, Complete, Accounted
    <3>3. sent # {} /\ OnRecord' = r.state
      BY <2>1, <2>3 DEF OnRecord
    <3>4. \/ outbox.state = "in_flight" /\ OnRecord = "open"
          \/ outbox.state = "unknown" /\ OnRecord = "unknown"
             /\ r.state \in {"unknown", "succeeded"}
          \/ outbox.state = r.state /\ OnRecord = r.state
      BY <2>1, <3>1 DEF NextStates, OutboxState, Decided, OnRecord
    <3>5. r.state \in {"succeeded", "failed_terminal", "unknown"}
      BY <2>1 DEF Decided
    <3>6. QED
      BY <2>3, <3>2, <3>3, <3>4, <3>5 DEF Promise!Next, Promise!Decide,
         OnRecord
  <2>4. QED
    BY <1>1, <2>2, <2>3
<1>5. QED
  BY <1>1, <1>2, <1>3, <1>4, OutboxStep

LEMMA PromiseStep ==
  ASSUME Ownership, Truth, Truth', [Next]_vars
  PROVE  Promise!Next \/ UNCHANGED <<sent, posts, OnRecord>>
<1>1. ASSUME NEW i \in Invocation, ClaimOutbox(i) \/ ReadBack(i), sent' # sent
      PROVE  Promise!HandOver
  <2>1. /\ sent' = sent \cup {i} /\ UNCHANGED posts
        /\ outbox.state \in {"pending", "in_flight"}
        /\ outbox' = outbox \/ outbox' = AfterClaim(i)
        /\ pc[i] \in Calling
    BY <1>1 DEF ClaimOutbox, ReadBack, OwnFlight, world, Calling
  <2>2. outbox.state = "in_flight" => outbox.token = i /\ outbox' = outbox
    BY <1>1 DEF ClaimOutbox, ReadBack, OwnFlight
  <2>3. sent = {}
    <3>1. i \notin sent
      BY <2>1 DEF Ownership, SentIsOwner, Calling, Sending, Ended
    <3>2. QED
      BY <2>1, <2>2, <3>1 DEF Ownership, SentIsOwner
  <2>4. outbox'.state \in {"pending", "in_flight"}
    <3>1. Flight(i).state = "in_flight"
      BY DEF Flight, Record
    <3>2. QED
      BY <2>1, <2>2, <3>1, ClaimEffect
  <2>5. OnRecord = "open" /\ OnRecord' = "open"
    BY <2>1, <2>4 DEF OnRecord, Decided
  <2>6. QED
    BY <2>1, <2>3, <2>5 DEF Promise!HandOver, OnRecord
<1>2. ASSUME NEW i \in Invocation, Post(i), posts' # posts
      PROVE  Promise!Take
  <2>1. posts = 0 /\ outbox = Flight(i) /\ i \in sent
    BY <1>2, NothingElseYet
    DEF Post, Truth, SenderIsTrue, SenderKnows, Undecided, Sending
  <2>2. posts' = 1 /\ UNCHANGED <<sent, outbox>>
    BY <1>2, <2>1 DEF Post
  <2>3. OnRecord = "open" /\ OnRecord' = "open"
    BY <2>1, <2>2 DEF OnRecord, Flight, Record, Decided
  <2>4. QED
    BY <2>1, <2>2, <2>3 DEF Promise!Take, OnRecord
<1>3. ASSUME NEW i \in Invocation, Invoke(i)
      PROVE  \/ UNCHANGED <<sent, posts>>
             \/ (ClaimOutbox(i) \/ ReadBack(i)) /\ sent' # sent
             \/ Post(i) /\ posts' # posts
  BY <1>3 DEF Invoke, Begin, ClaimOutbox, ReadBack, ClaimEvent, Compose, Post,
    CompleteEvent, RecordOperation, Defer, WriteOutcome, Enqueue, Dispatch,
    Crash, world
<1>4. ASSUME NEW m \in Mail, Reconcile(m) PROVE UNCHANGED <<sent, posts>>
  BY <1>4 DEF Reconcile, ReadJob, ReadOutbox, Verify, ProviderReadback,
    SettleAccounting, MarkAccounting, SettleClaim, MarkClaim, MarkSettled,
    Mark, FinishOutbox, sender, world
<1>5. ASSUME NEW r \in late, LateCall(r) PROVE UNCHANGED <<sent, posts>>
  BY <1>5 DEF LateCall, world, sender
<1>6. CASE OtherClaims \/ OtherSettles \/ LeaseEnds \/ UNCHANGED vars
  BY <1>6, RecordStep DEF OtherClaims, OtherSettles, LeaseEnds, vars, sender
<1>7. QED
  BY <1>1, <1>2, <1>3, <1>4, <1>5, <1>6, RecordStep DEF Next, Promise!Next

(* The outbox, its senders, its reconcilers and everything late implement  *)
(* the at-most-once effect: handed over once at most, with one result at   *)
(* most, and recorded as what it was.                                      *)
THEOREM ImplementsPromise == Spec => KeepsPromise
<1>1. Init => Promise!Init
  BY DEF Init, Promise!Init, OnRecord, Record, Decided
<1>2. Ownership /\ Truth /\ Truth' /\ [Next]_vars
        => [Promise!Next]_<<sent, posts, OnRecord>>
  BY PromiseStep
<1>3. QED
  BY <1>1, <1>2, TruthInvariant, PTL
  DEF Spec, KeepsPromise, Promise!Spec, OnRecord

-----------------------------------------------------------------------------
(* The callback of a development job, for any number of handlers, of       *)
(* payloads and of claims: it is truthful, it never turns back, no handler *)
(* answers completed for one that is not, and it implements                *)
(* CallbackPromise.                                                        *)
(*                                                                         *)
(* The inductive invariant is CallbackTruth. The handlers that deliver     *)
(* work under fences of their own (FencesAreOwn), so the delivery's claim  *)
(* has one owner, and what its owner tells is what happened to the post    *)
(* (PostsAreOwned, ToldIsTrue). Handlers that account all continue the one *)
(* outcome on record (HandlersAgree), which is why the batch they book is  *)
(* one batch (BookAgrees).                                                 *)

(* Nothing is no payload, and there are claims to make.                    *)
CallbackConstants == Nothing \notin Payload /\ MaxFence \in Nat

(* Before its outcome is on record a handler works under a fence of its    *)
(* own; after it, whoever comes continues.                                 *)
Delivering == {"own", "send", "settle", "unown", "free", "record"}
Accounting == {"account", "write", "book", "complete"}

FencesAreOwn ==
  \A h, k \in Handler : handler[h].pc \in Delivering =>
    /\ handler[h].fence <= callback.fence
    /\ handler[k].pc \in Delivering /\ handler[k].fence = handler[h].fence => h = k

Holds(h) == delivery.state = "claimed" /\ delivery.fence = handler[h].fence

PostsAreOwned ==
  /\ delivery.state = "none" => messages <= forgotten
  /\ messages <= 1 + forgotten
  /\ \A h \in Handler : /\ Callback!At(h, "send") => Holds(h) /\ messages <= forgotten
                        /\ Callback!At(h, "settle") => Holds(h) /\ messages > 0

(* What the handlers tell is what happened to the delivery.                *)
ToldIsTrue ==
  \A h \in Handler : Callback!At(h, "record") =>
    /\ handler[h].told \in Callback!Told
    /\ handler[h].told = "delivered" =>
         messages > 0 /\ delivery.state = "succeeded" /\ delivery.fence = handler[h].fence

RecordIsWhole ==
  /\ callback.payload = Nothing <=> callback.status = "none"
  /\ callback.told = "open" <=> callback.status \in {"none", "delivery_pending"}
  /\ callback.told = "delivered" =>
       messages > 0 /\ delivery.state = "succeeded" /\ delivery.fence = callback.fence

HandlersAgree ==
  \A h \in Handler :
    /\ ~Callback!At(h, "idle") => handler[h].payload \in Payload /\ handler[h].answer = "none"
    /\ handler[h].pc \in Accounting =>
         /\ callback.status \in {"accounting_pending", "completed"}
         /\ handler[h].payload = callback.payload /\ handler[h].told = callback.told

IsAccounted == book.state = "written" /\ book.batch.payload = callback.payload
                                      /\ book.batch.told = callback.told

BookAgrees ==
  /\ book.state # "none" /\ book.batch.told # "unknown" =>
       /\ callback.status \in {"accounting_pending", "completed"}
       /\ book.batch.payload = callback.payload /\ book.batch.told = callback.told
  /\ \A h \in Handler : Callback!At(h, "complete") => IsAccounted
  /\ callback.status = "completed" => IsAccounted

CallbackTruth ==
  /\ Callback!TypeOK
  /\ FencesAreOwn
  /\ PostsAreOwned
  /\ ToldIsTrue
  /\ RecordIsWhole
  /\ HandlersAgree
  /\ BookAgrees

-----------------------------------------------------------------------------
(* How a handler moves.                                                    *)

HandlerType == [pc : Callback!Step, payload : Payload \cup {Nothing}, fence : Callback!Fence,
                told : Callback!Told \cup {"open"}, answer : Callback!Answer]

OthersStay(h) == \A k \in Handler : k # h => handler'[k] = handler[k]

(* A handler that moves on keeps all but its step.                         *)
LEMMA GotoMoves ==
  ASSUME Callback!TypeOK, NEW h \in Handler, NEW step \in Callback!Step, Callback!Goto(h, step)
  PROVE  /\ handler' \in [Handler -> HandlerType] /\ OthersStay(h)
         /\ handler'[h].pc = step
         /\ handler'[h].payload = handler[h].payload /\ handler'[h].fence = handler[h].fence
         /\ handler'[h].told = handler[h].told /\ handler'[h].answer = handler[h].answer
  BY DEF Callback!TypeOK, Callback!Goto, HandlerType, OthersStay

(* A handler that tells an outcome keeps its payload and its fence.        *)
LEMMA TellMoves ==
  ASSUME Callback!TypeOK, NEW h \in Handler, NEW told \in Callback!Told, Callback!Tell(h, told)
  PROVE  /\ handler' \in [Handler -> HandlerType] /\ OthersStay(h)
         /\ handler'[h].pc = "record" /\ handler'[h].told = told
         /\ handler'[h].payload = handler[h].payload /\ handler'[h].fence = handler[h].fence
         /\ handler'[h].answer = handler[h].answer
  BY DEF Callback!TypeOK, Callback!Tell, HandlerType, OthersStay, Callback!Step

(* A handler that answers is idle, and nobody else moves.                  *)
LEMMA ReplyMoves ==
  ASSUME CallbackConstants, Callback!TypeOK, NEW h \in Handler, NEW answer \in Callback!Answer,
         Callback!Reply(h, answer)
  PROVE  /\ handler' \in [Handler -> HandlerType] /\ OthersStay(h)
         /\ handler'[h].pc = "idle" /\ handler'[h].answer = answer
  BY DEF Callback!TypeOK, Callback!Reply, Callback!Idle, HandlerType, OthersStay, Callback!Step, Callback!Fence,
     CallbackConstants

(* The types, field by field.                                              *)
LEMMA CallbackTypes ==
  ASSUME CallbackConstants, Callback!TypeOK
  PROVE  /\ callback.status \in {"none", "delivery_pending", "accounting_pending", "completed"}
         /\ callback.payload \in Payload \cup {Nothing} /\ callback.told \in Callback!Told \cup {"open"}
         /\ callback.fence \in Nat /\ callback.leased \in BOOLEAN
         /\ delivery.state \in {"none", "claimed", "succeeded"} /\ delivery.fence \in Nat
         /\ book.state \in {"none", "claimed", "written"}
         /\ book.state = "none" => book = Callback!NoEntry
         /\ book.state # "none" => book.batch \in Callback!Batch
         /\ messages \in Nat /\ forgotten \in Nat
         /\ \A h \in Handler : handler[h] \in HandlerType
  BY DEF CallbackConstants, Callback!TypeOK, Callback!Callback, Callback!Delivery, Callback!Ledger,
     Callback!NoEntry, Callback!Fence, HandlerType

(* A handler that ends leaves everything to the others.                    *)
LEMMA EndKeepsCallbackTruth ==
  ASSUME CallbackConstants, CallbackTruth, NEW h \in Handler, NEW answer \in Callback!Answer,
         Callback!Reply(h, answer),
         UNCHANGED <<callback, delivery, book, messages, forgotten>>
  PROVE  CallbackTruth'
<1>. USE DEF CallbackTruth
<1>a. /\ handler' \in [Handler -> HandlerType] /\ OthersStay(h)
      /\ handler'[h].pc = "idle"
  BY ReplyMoves
<1>1. Callback!TypeOK'
  BY <1>a DEF Callback!TypeOK, HandlerType
<1>2. FencesAreOwn'
  BY <1>a DEF FencesAreOwn, Delivering, OthersStay
<1>3. PostsAreOwned'
  BY <1>a DEF PostsAreOwned, Holds, Callback!At, OthersStay
<1>4. ToldIsTrue'
  BY <1>a DEF ToldIsTrue, Callback!At, OthersStay
<1>5. RecordIsWhole'
  BY DEF RecordIsWhole
<1>6. HandlersAgree'
  BY <1>a DEF HandlersAgree, Accounting, Callback!At, OthersStay
<1>7. BookAgrees'
  BY <1>a DEF BookAgrees, IsAccounted, Callback!At, OthersStay
<1>8. QED
  BY <1>1, <1>2, <1>3, <1>4, <1>5, <1>6, <1>7

(* A request begins: its handler holds nothing yet.                        *)
LEMMA ReceiveKeepsCallbackTruth ==
  ASSUME CallbackConstants, CallbackTruth, NEW h \in Handler, NEW p \in Payload, Callback!Receive(h, p)
  PROVE  CallbackTruth'
<1>. USE DEF CallbackTruth
<1>a. /\ handler' \in [Handler -> HandlerType] /\ OthersStay(h)
      /\ handler'[h].pc = "claim" /\ handler'[h].payload = p /\ handler'[h].answer = "none"
      /\ UNCHANGED <<callback, delivery, book, messages, forgotten>>
  <2>. DEFINE begun == [Callback!Idle EXCEPT !.pc = "claim", !.payload = p]
  <2>1. begun \in HandlerType /\ begun.pc = "claim" /\ begun.payload = p /\ begun.answer = "none"
    <3>1. Callback!Idle \in HandlerType /\ Callback!Idle.answer = "none"
      BY DEF Callback!Idle, HandlerType, Callback!Step, Callback!Answer, Callback!Fence, CallbackConstants
    <3>2. QED
      BY <3>1 DEF HandlerType, Callback!Step
  <2>2. handler' = [handler EXCEPT ![h] = begun] /\ handler \in [Handler -> HandlerType]
        /\ UNCHANGED <<callback, delivery, book, messages, forgotten>>
    BY DEF Callback!Receive, Callback!TypeOK, HandlerType
  <2>. HIDE DEF begun
  <2>3. QED
    BY <2>1, <2>2 DEF OthersStay
<1>1. Callback!TypeOK'
  BY <1>a DEF Callback!TypeOK, HandlerType
<1>2. FencesAreOwn'
  BY <1>a DEF FencesAreOwn, Delivering, OthersStay
<1>3. PostsAreOwned'
  BY <1>a DEF PostsAreOwned, Holds, Callback!At, OthersStay
<1>4. ToldIsTrue'
  BY <1>a DEF ToldIsTrue, Callback!At, OthersStay
<1>5. RecordIsWhole'
  BY <1>a DEF RecordIsWhole
<1>6. HandlersAgree'
  BY <1>a DEF HandlersAgree, Accounting, Callback!At, OthersStay
<1>7. BookAgrees'
  BY <1>a DEF BookAgrees, IsAccounted, Callback!At, OthersStay
<1>8. QED
  BY <1>1, <1>2, <1>3, <1>4, <1>5, <1>6, <1>7

(* A callback is claimed with a fence that nobody has, or resumed with the *)
(* outcome that is on record.                                              *)
LEMMA ClaimKeepsCallbackTruth ==
  ASSUME CallbackConstants, CallbackTruth, NEW h \in Handler, Callback!Claim(h)
  PROVE  CallbackTruth'
<1>. USE DEF CallbackTruth
<1>. DEFINE p == handler[h].payload
<1>a. /\ Callback!At(h, "claim") /\ UNCHANGED <<delivery, book, messages, forgotten>>
      /\ p \in Payload /\ handler[h].answer = "none" /\ p # Nothing
  BY DEF Callback!Claim, HandlersAgree, Callback!At, CallbackConstants
<1>1. ASSUME NEW answer \in Callback!Answer, Callback!Reply(h, answer), UNCHANGED callback
      PROVE  CallbackTruth'
  BY <1>a, <1>1, EndKeepsCallbackTruth
<1>2. CASE /\ callback.payload = p /\ callback.status = "accounting_pending"
           /\ Callback!Resume(h) /\ UNCHANGED callback
  <2>a. /\ handler' \in [Handler -> HandlerType] /\ OthersStay(h)
        /\ handler'[h].pc = "account" /\ handler'[h].told = callback.told
        /\ handler'[h].payload = p /\ handler'[h].answer = "none"
    <3>1. callback.told \in Callback!Told \cup {"open"} /\ callback.fence \in Callback!Fence
      BY DEF Callback!TypeOK, Callback!Callback
    <3>2. handler \in [Handler -> HandlerType]
      BY DEF Callback!TypeOK, HandlerType
    <3>3. QED
      BY <1>a, <1>2, <3>1, <3>2 DEF Callback!Resume, HandlerType, OthersStay, Callback!Step
  <2>1. Callback!TypeOK'
    BY <1>a, <1>2, <2>a DEF Callback!TypeOK, HandlerType
  <2>2. FencesAreOwn'
    BY <1>2, <2>a DEF FencesAreOwn, Delivering, OthersStay
  <2>3. PostsAreOwned'
    BY <1>a, <2>a DEF PostsAreOwned, Holds, Callback!At, OthersStay
  <2>4. ToldIsTrue'
    BY <1>a, <2>a DEF ToldIsTrue, Callback!At, OthersStay
  <2>5. RecordIsWhole'
    BY <1>a, <1>2 DEF RecordIsWhole
  <2>6. HandlersAgree'
    BY <1>a, <1>2, <2>a DEF HandlersAgree, Accounting, Callback!At, OthersStay
  <2>7. BookAgrees'
    BY <1>a, <1>2, <2>a DEF BookAgrees, IsAccounted, Callback!At, OthersStay
  <2>8. QED
    BY <2>1, <2>2, <2>3, <2>4, <2>5, <2>6, <2>7
<1>3. CASE /\ Callback!Claimable(p) /\ callback.fence < MaxFence /\ callback' = Callback!Claimed(p)
           /\ handler' = [handler EXCEPT ![h].pc = "own", ![h].fence = callback'.fence]
  <2>a. /\ callback'.status = "delivery_pending" /\ callback'.payload = p
        /\ callback'.told = "open" /\ callback'.fence = callback.fence + 1
        /\ callback.fence \in Nat /\ callback' \in Callback!Callback
    BY <1>3, <1>a, CallbackTypes DEF Callback!Claimed, Callback!Callback, Callback!Fence, CallbackConstants
  <2>b. /\ handler' \in [Handler -> HandlerType] /\ OthersStay(h)
        /\ handler'[h].pc = "own" /\ handler'[h].fence = callback.fence + 1
        /\ handler'[h].payload = p /\ handler'[h].answer = "none"
    <3>1. callback'.fence \in Callback!Fence /\ handler \in [Handler -> HandlerType]
      BY <2>a DEF Callback!TypeOK, HandlerType, Callback!Callback
    <3>2. QED
      BY <1>a, <1>3, <2>a, <3>1 DEF HandlerType, OthersStay, Callback!Step
  <2>c. callback.status \in {"none", "delivery_pending"}
    BY <1>3 DEF Callback!Claimable
  <2>1. Callback!TypeOK'
    BY <1>a, <2>a, <2>b DEF Callback!TypeOK, HandlerType
  <2>2. FencesAreOwn'
    <3>1. \A k \in Handler : handler[k].fence \in Nat
      BY CallbackTypes DEF HandlerType, Callback!Fence, CallbackConstants
    <3>2. QED
      BY <2>a, <2>b, <3>1 DEF FencesAreOwn, Delivering, OthersStay
  <2>3. PostsAreOwned'
    BY <1>a, <2>b DEF PostsAreOwned, Holds, Callback!At, OthersStay
  <2>4. ToldIsTrue'
    BY <1>a, <2>b DEF ToldIsTrue, Callback!At, OthersStay
  <2>5. RecordIsWhole'
    BY <1>a, <2>a DEF RecordIsWhole
  <2>6. HandlersAgree'
    BY <1>a, <2>a, <2>b, <2>c DEF HandlersAgree, Accounting, Callback!At, OthersStay
  <2>7. BookAgrees'
    BY <1>a, <2>a, <2>b, <2>c DEF BookAgrees, IsAccounted, Callback!At, OthersStay, HandlersAgree, Accounting
  <2>8. QED
    BY <2>1, <2>2, <2>3, <2>4, <2>5, <2>6, <2>7
<1>4. QED
  BY <1>1, <1>2, <1>3 DEF Callback!Claim, Callback!Answer

(* The delivery is claimed by its handler, or by nobody, or lost.          *)
LEMMA OwnKeepsCallbackTruth ==
  ASSUME CallbackConstants, CallbackTruth, NEW h \in Handler, Callback!Own(h)
  PROVE  CallbackTruth'
<1>. USE DEF CallbackTruth
<1>a. Callback!At(h, "own") /\ UNCHANGED <<callback, book, messages, forgotten>>
  BY DEF Callback!Own
<1>b. \/ Callback!Goto(h, "send") /\ delivery'.state = "claimed"
      \/ Callback!Tell(h, "failed") /\ delivery' = delivery
      \/ Callback!Tell(h, "failed") /\ delivery'.state = "claimed"
  BY DEF Callback!Own
<1>c. \/ delivery' = delivery
      \/ /\ delivery.state = "none" /\ delivery'.state = "claimed"
         /\ delivery'.fence = handler[h].fence
  BY DEF Callback!Own, Callback!Available
<1>d. /\ handler' \in [Handler -> HandlerType] /\ OthersStay(h)
      /\ handler'[h].pc \in {"send", "record"}
      /\ handler'[h].pc = "record" => handler'[h].told = "failed"
      /\ handler'[h].pc = "send" => delivery'.state = "claimed" /\ delivery.state = "none"
      /\ handler'[h].payload = handler[h].payload /\ handler'[h].fence = handler[h].fence
      /\ handler'[h].answer = handler[h].answer
  <2>1. CASE Callback!Goto(h, "send")
    <3>1. delivery.state = "none" /\ delivery'.state = "claimed"
      <4>1. ~Callback!Tell(h, "failed")
        BY <2>1, GotoMoves, TellMoves DEF Callback!Step, Callback!Told
      <4>2. QED
        BY <4>1 DEF Callback!Own, Callback!Available
    <3>2. QED
      BY <2>1, <3>1, GotoMoves DEF Callback!Step
  <2>2. CASE Callback!Tell(h, "failed")
    BY <2>2, TellMoves DEF Callback!Told
  <2>3. QED
    BY <1>b, <2>1, <2>2
<1>1. Callback!TypeOK'
  <2>1. delivery' \in Callback!Delivery
    BY CallbackTypes DEF Callback!Own, Callback!Delivery, Callback!TypeOK, HandlerType
  <2>2. QED
    BY <1>a, <1>d, <2>1 DEF Callback!TypeOK, HandlerType
<1>2. FencesAreOwn'
  BY <1>a, <1>d DEF FencesAreOwn, Delivering, Callback!At, OthersStay
<1>3. PostsAreOwned'
  BY <1>a, <1>c, <1>d DEF PostsAreOwned, Holds, Callback!At, OthersStay
<1>4. ToldIsTrue'
  BY <1>a, <1>c, <1>d DEF ToldIsTrue, Callback!At, OthersStay, Callback!Told
<1>5. RecordIsWhole'
  BY <1>a, <1>c DEF RecordIsWhole
<1>6. HandlersAgree'
  BY <1>a, <1>d DEF HandlersAgree, Accounting, Callback!At, OthersStay
<1>7. BookAgrees'
  BY <1>a, <1>d DEF BookAgrees, IsAccounted, Callback!At, OthersStay
<1>8. QED
  BY <1>1, <1>2, <1>3, <1>4, <1>5, <1>6, <1>7

(* A handler sent elsewhere claimed no delivery.                           *)
LEMMA OwnElsewhereKeepsCallbackTruth ==
  ASSUME CallbackConstants, CallbackTruth, NEW h \in Handler, Callback!OwnElsewhere(h)
  PROVE  CallbackTruth'
<1>. USE DEF CallbackTruth
<1>a. Callback!At(h, "own") /\ UNCHANGED <<callback, delivery, book, messages, forgotten>>
  BY DEF Callback!OwnElsewhere
<1>b. /\ handler' \in [Handler -> HandlerType] /\ OthersStay(h) /\ handler'[h].pc = "free"
      /\ handler'[h].payload = handler[h].payload /\ handler'[h].fence = handler[h].fence
      /\ handler'[h].answer = handler[h].answer
  BY GotoMoves DEF Callback!OwnElsewhere, Callback!Step
<1>1. Callback!TypeOK'
  BY <1>a, <1>b DEF Callback!TypeOK, HandlerType
<1>2. FencesAreOwn'
  BY <1>a, <1>b DEF FencesAreOwn, Delivering, Callback!At, OthersStay
<1>3. PostsAreOwned'
  BY <1>a, <1>b DEF PostsAreOwned, Holds, Callback!At, OthersStay
<1>4. ToldIsTrue'
  BY <1>a, <1>b DEF ToldIsTrue, Callback!At, OthersStay
<1>5. RecordIsWhole'
  BY <1>a DEF RecordIsWhole
<1>6. HandlersAgree'
  BY <1>a, <1>b DEF HandlersAgree, Accounting, Callback!At, OthersStay
<1>7. BookAgrees'
  BY <1>a, <1>b DEF BookAgrees, IsAccounted, Callback!At, OthersStay
<1>8. QED
  BY <1>1, <1>2, <1>3, <1>4, <1>5, <1>6, <1>7

(* The one that sends holds the delivery, and nothing was posted since it  *)
(* was last given up.                                                      *)
LEMMA SendKeepsCallbackTruth ==
  ASSUME CallbackConstants, CallbackTruth, NEW h \in Handler, Callback!Send(h)
  PROVE  CallbackTruth'
<1>. USE DEF CallbackTruth
<1>a. /\ Callback!At(h, "send") /\ UNCHANGED <<callback, delivery, book, forgotten>>
      /\ messages' \in {messages, messages + 1} /\ messages \in Nat /\ forgotten \in Nat
      /\ Holds(h) /\ messages <= forgotten
  BY CallbackTypes DEF Callback!Send, PostsAreOwned
<1>b. /\ handler' \in [Handler -> HandlerType] /\ OthersStay(h)
      /\ handler'[h].pc \in {"settle", "unown"}
      /\ handler'[h].pc = "settle" => messages' = messages + 1
      /\ handler'[h].payload = handler[h].payload /\ handler'[h].fence = handler[h].fence
      /\ handler'[h].answer = handler[h].answer
  BY GotoMoves DEF Callback!Send, Callback!Unsure, Callback!Step
<1>1. Callback!TypeOK'
  BY <1>a, <1>b DEF Callback!TypeOK, HandlerType
<1>2. FencesAreOwn'
  BY <1>a, <1>b DEF FencesAreOwn, Delivering, Callback!At, OthersStay
<1>3. PostsAreOwned'
  BY <1>a, <1>b DEF PostsAreOwned, Holds, Callback!At, OthersStay, FencesAreOwn, Delivering
<1>4. ToldIsTrue'
  BY <1>a, <1>b DEF ToldIsTrue, Callback!At, OthersStay
<1>5. RecordIsWhole'
  BY <1>a DEF RecordIsWhole
<1>6. HandlersAgree'
  BY <1>a, <1>b DEF HandlersAgree, Accounting, Callback!At, OthersStay
<1>7. BookAgrees'
  BY <1>a, <1>b DEF BookAgrees, IsAccounted, Callback!At, OthersStay
<1>8. QED
  BY <1>1, <1>2, <1>3, <1>4, <1>5, <1>6, <1>7

(* A delivery is settled by the handler that posted it.                    *)
LEMMA SettleKeepsCallbackTruth ==
  ASSUME CallbackConstants, CallbackTruth, NEW h \in Handler, Callback!Settle(h)
  PROVE  CallbackTruth'
<1>. USE DEF CallbackTruth
<1>a. /\ Callback!At(h, "settle") /\ UNCHANGED <<callback, book, messages, forgotten>>
      /\ Holds(h) /\ messages > 0
  BY DEF Callback!Settle, PostsAreOwned
<1>b. /\ delivery'.fence = delivery.fence /\ delivery'.state \in {"claimed", "succeeded"}
      /\ delivery' \in Callback!Delivery
  BY <1>a DEF Callback!Settle, Holds, Callback!TypeOK, Callback!Delivery
<1>c. /\ handler' \in [Handler -> HandlerType] /\ OthersStay(h)
      /\ handler'[h].pc \in {"record", "unown"}
      /\ handler'[h].pc = "record" =>
           handler'[h].told = "delivered" /\ delivery'.state = "succeeded"
      /\ handler'[h].payload = handler[h].payload /\ handler'[h].fence = handler[h].fence
      /\ handler'[h].answer = handler[h].answer
  <2>1. CASE Callback!Goto(h, "unown")
    BY <2>1, GotoMoves DEF Callback!Step
  <2>2. CASE Callback!Tell(h, "delivered")
    <3>1. ~Callback!Goto(h, "unown")
      BY <2>2, GotoMoves, TellMoves DEF Callback!Step, Callback!Told
    <3>2. delivery' = [delivery EXCEPT !.state = "succeeded"] /\ delivery \in Callback!Delivery
      BY <3>1 DEF Callback!Settle, Callback!Unsure, Callback!TypeOK
    <3>3. QED
      BY <2>2, <3>2, TellMoves DEF Callback!Told, Callback!Delivery
  <2>3. QED
    BY <2>1, <2>2 DEF Callback!Settle, Callback!Unsure
<1>1. Callback!TypeOK'
  BY <1>a, <1>b, <1>c DEF Callback!TypeOK, HandlerType
<1>2. FencesAreOwn'
  BY <1>a, <1>c DEF FencesAreOwn, Delivering, Callback!At, OthersStay
<1>3. PostsAreOwned'
  BY <1>a, <1>b, <1>c DEF PostsAreOwned, Holds, Callback!At, OthersStay, FencesAreOwn, Delivering
<1>4. ToldIsTrue'
  BY <1>a, <1>b, <1>c DEF ToldIsTrue, Callback!At, OthersStay, Holds, Callback!Told
<1>5. RecordIsWhole'
  BY <1>a, <1>b DEF RecordIsWhole, Holds
<1>6. HandlersAgree'
  BY <1>a, <1>c DEF HandlersAgree, Accounting, Callback!At, OthersStay
<1>7. BookAgrees'
  BY <1>a, <1>c DEF BookAgrees, IsAccounted, Callback!At, OthersStay
<1>8. QED
  BY <1>1, <1>2, <1>3, <1>4, <1>5, <1>6, <1>7

(* A handler gives up only the claim of its own fence.                     *)
LEMMA UnownKeepsCallbackTruth ==
  ASSUME CallbackConstants, CallbackTruth, NEW h \in Handler, Callback!Unown(h)
  PROVE  CallbackTruth'
<1>. USE DEF CallbackTruth
<1>a. /\ Callback!At(h, "unown") /\ UNCHANGED <<callback, book, messages>>
      /\ messages \in Nat /\ forgotten \in Nat
  BY CallbackTypes DEF Callback!Unown
<1>b. \/ delivery' = delivery /\ forgotten' = forgotten
      \/ Holds(h) /\ delivery' = Callback!NoDelivery /\ forgotten' = forgotten + 1
  BY DEF Callback!Unown, Holds
<1>c. /\ handler' \in [Handler -> HandlerType] /\ OthersStay(h)
      /\ handler'[h].pc = "record" /\ handler'[h].told = "failed"
      /\ handler'[h].payload = handler[h].payload /\ handler'[h].fence = handler[h].fence
      /\ handler'[h].answer = handler[h].answer
  BY TellMoves DEF Callback!Unown, Callback!Told
<1>1. Callback!TypeOK'
  BY <1>a, <1>b, <1>c DEF Callback!TypeOK, HandlerType, Callback!NoDelivery, Callback!Delivery, Callback!Fence,
     CallbackConstants
<1>2. FencesAreOwn'
  BY <1>a, <1>c DEF FencesAreOwn, Delivering, Callback!At, OthersStay
<1>3. PostsAreOwned'
  BY <1>a, <1>b, <1>c DEF PostsAreOwned, Holds, Callback!At, OthersStay, FencesAreOwn, Delivering,
     Callback!NoDelivery
<1>4. ToldIsTrue'
  BY <1>a, <1>b, <1>c DEF ToldIsTrue, Callback!At, OthersStay, Holds, Callback!Told
<1>5. RecordIsWhole'
  BY <1>a, <1>b DEF RecordIsWhole, Holds
<1>6. HandlersAgree'
  BY <1>a, <1>c DEF HandlersAgree, Accounting, Callback!At, OthersStay
<1>7. BookAgrees'
  BY <1>a, <1>c DEF BookAgrees, IsAccounted, Callback!At, OthersStay
<1>8. QED
  BY <1>1, <1>2, <1>3, <1>4, <1>5, <1>6, <1>7

(* A lease given back changes no outcome.                                  *)
LEMMA FreeKeepsCallbackTruth ==
  ASSUME CallbackConstants, CallbackTruth, NEW h \in Handler, Callback!Free(h)
  PROVE  CallbackTruth'
<1>. USE DEF CallbackTruth
<1>a. /\ Callback!At(h, "free") /\ UNCHANGED <<delivery, book, messages, forgotten>>
      /\ callback'.status = callback.status /\ callback'.payload = callback.payload
      /\ callback'.told = callback.told /\ callback'.fence = callback.fence
      /\ callback' \in Callback!Callback
  BY DEF Callback!Free, Callback!TypeOK, Callback!Callback
<1>b. /\ handler' \in [Handler -> HandlerType] /\ OthersStay(h) /\ handler'[h].pc = "idle"
  BY ReplyMoves DEF Callback!Free, Callback!Answer
<1>1. Callback!TypeOK'
  BY <1>a, <1>b DEF Callback!TypeOK, HandlerType
<1>2. FencesAreOwn'
  BY <1>a, <1>b DEF FencesAreOwn, Delivering, OthersStay
<1>3. PostsAreOwned'
  BY <1>a, <1>b DEF PostsAreOwned, Holds, Callback!At, OthersStay
<1>4. ToldIsTrue'
  BY <1>a, <1>b DEF ToldIsTrue, Callback!At, OthersStay
<1>5. RecordIsWhole'
  BY <1>a DEF RecordIsWhole
<1>6. HandlersAgree'
  BY <1>a, <1>b DEF HandlersAgree, Accounting, Callback!At, OthersStay
<1>7. BookAgrees'
  BY <1>a, <1>b DEF BookAgrees, IsAccounted, Callback!At, OthersStay
<1>8. QED
  BY <1>1, <1>2, <1>3, <1>4, <1>5, <1>6, <1>7

(* The outcome is recorded by the handler of the fence, or it is on record *)
(* as this handler would tell it.                                          *)
LEMMA RecordKeepsCallbackTruth ==
  ASSUME CallbackConstants, CallbackTruth, NEW h \in Handler, Callback!Record(h)
  PROVE  CallbackTruth'
<1>. USE DEF CallbackTruth
<1>a. /\ Callback!At(h, "record") /\ UNCHANGED <<delivery, book, messages, forgotten>>
      /\ handler[h].told \in Callback!Told /\ handler[h].fence <= callback.fence
  BY DEF Callback!Record, ToldIsTrue, FencesAreOwn, Delivering, Callback!At
<1>1. CASE Callback!Reply(h, "error") /\ UNCHANGED callback
  BY <1>a, <1>1, EndKeepsCallbackTruth DEF Callback!Answer
<1>2. CASE /\ Callback!Goto(h, "account") /\ UNCHANGED callback /\ Callback!Owns(h)
           /\ callback.told = handler[h].told
  <2>b. /\ handler' \in [Handler -> HandlerType] /\ OthersStay(h)
        /\ handler'[h].pc = "account" /\ handler'[h].told = handler[h].told
        /\ handler'[h].payload = handler[h].payload /\ handler'[h].fence = handler[h].fence
        /\ handler'[h].answer = handler[h].answer
    BY <1>2, GotoMoves DEF Callback!Step
  <2>c. callback.status \in {"accounting_pending", "completed"}
    BY <1>a, <1>2, CallbackTypes DEF RecordIsWhole, Callback!Told
  <2>1. Callback!TypeOK'
    BY <1>a, <1>2, <2>b DEF Callback!TypeOK, HandlerType
  <2>2. FencesAreOwn'
    BY <1>2, <2>b DEF FencesAreOwn, Delivering, OthersStay
  <2>3. PostsAreOwned'
    BY <1>a, <2>b DEF PostsAreOwned, Holds, Callback!At, OthersStay
  <2>4. ToldIsTrue'
    BY <1>a, <2>b DEF ToldIsTrue, Callback!At, OthersStay
  <2>5. RecordIsWhole'
    BY <1>a, <1>2 DEF RecordIsWhole
  <2>6. HandlersAgree'
    BY <1>a, <1>2, <2>b, <2>c DEF HandlersAgree, Accounting, Callback!At, OthersStay, Callback!Owns
  <2>7. BookAgrees'
    BY <1>a, <1>2, <2>b DEF BookAgrees, IsAccounted, Callback!At, OthersStay
  <2>8. QED
    BY <2>1, <2>2, <2>3, <2>4, <2>5, <2>6, <2>7
<1>3. CASE Callback!Owns(h) /\ callback.status = "delivery_pending"
  <2>a. /\ callback'.status = "accounting_pending" /\ callback'.told = handler[h].told
        /\ callback'.payload = callback.payload /\ callback'.fence = handler[h].fence
        /\ callback' \in Callback!Callback
    BY <1>a, <1>3 DEF Callback!Record, Callback!TypeOK, Callback!Callback
  <2>b. /\ handler' \in [Handler -> HandlerType] /\ OthersStay(h)
        /\ handler'[h].pc = "account" /\ handler'[h].told = handler[h].told
        /\ handler'[h].payload = handler[h].payload /\ handler'[h].fence = handler[h].fence
        /\ handler'[h].answer = handler[h].answer
    BY <1>3, GotoMoves DEF Callback!Record, Callback!Step
  <2>c. /\ handler[h].payload = callback.payload /\ handler[h].fence = callback.fence
        /\ callback.payload # Nothing
    BY <1>3 DEF Callback!Owns, RecordIsWhole
  <2>1. Callback!TypeOK'
    BY <1>a, <2>a, <2>b DEF Callback!TypeOK, HandlerType
  <2>2. FencesAreOwn'
    BY <2>a, <2>b, <2>c DEF FencesAreOwn, Delivering, OthersStay
  <2>3. PostsAreOwned'
    BY <1>a, <2>b DEF PostsAreOwned, Holds, Callback!At, OthersStay
  <2>4. ToldIsTrue'
    BY <1>a, <2>b DEF ToldIsTrue, Callback!At, OthersStay
  <2>5. RecordIsWhole'
    BY <1>a, <2>a, <2>c DEF RecordIsWhole, ToldIsTrue, Callback!Told
  <2>6. HandlersAgree'
    BY <1>a, <1>3, <2>a, <2>b, <2>c DEF HandlersAgree, Accounting, Callback!At, OthersStay
  <2>7. BookAgrees'
    BY <1>a, <1>3, <2>a, <2>b, <2>c DEF BookAgrees, HandlersAgree, Accounting, IsAccounted, Callback!At,
       OthersStay
  <2>8. QED
    BY <2>1, <2>2, <2>3, <2>4, <2>5, <2>6, <2>7
<1>4. QED
  BY <1>1, <1>2, <1>3 DEF Callback!Record, Callback!Refuse

-----------------------------------------------------------------------------
(* Accounting. What one handler writes another may book, for both tell the *)
(* outcome on record.                                                      *)

(* A step of a handler that accounts: the callback and the thread rest.    *)
LEMMA AccountingKeepsCallbackTruth ==
  ASSUME CallbackConstants, CallbackTruth, NEW h \in Handler, handler[h].pc \in Accounting,
         NEW step \in Accounting, Callback!Goto(h, step), book' \in Callback!Ledger,
         UNCHANGED <<callback, delivery, messages, forgotten>>,
         book' = book \/ (book.state # "written" /\ book'.state # "none"
                              /\ book'.batch = Callback!BatchOf(h)),
         step = "complete" => book'.state = "written" /\ book'.batch = Callback!BatchOf(h)
  PROVE  CallbackTruth'
<1>. USE DEF CallbackTruth
<1>a. /\ handler' \in [Handler -> HandlerType] /\ OthersStay(h)
      /\ handler'[h].pc = step /\ handler'[h].told = handler[h].told
      /\ handler'[h].payload = handler[h].payload /\ handler'[h].fence = handler[h].fence
      /\ handler'[h].answer = handler[h].answer
  BY GotoMoves DEF Callback!Step, Accounting
<1>b. /\ callback.status \in {"accounting_pending", "completed"}
      /\ handler[h].payload = callback.payload /\ handler[h].told = callback.told
  BY DEF HandlersAgree
<1>c. Callback!BatchOf(h).payload = callback.payload /\ Callback!BatchOf(h).told = callback.told
  BY <1>b DEF Callback!BatchOf
<1>1. Callback!TypeOK'
  BY <1>a DEF Callback!TypeOK, HandlerType
<1>2. FencesAreOwn'
  BY <1>a DEF FencesAreOwn, Delivering, Accounting, OthersStay
<1>3. PostsAreOwned'
  BY <1>a DEF PostsAreOwned, Holds, Callback!At, OthersStay, Accounting
<1>4. ToldIsTrue'
  BY <1>a DEF ToldIsTrue, Callback!At, OthersStay, Accounting
<1>5. RecordIsWhole'
  BY DEF RecordIsWhole
<1>6. HandlersAgree'
  BY <1>a, <1>b DEF HandlersAgree, Accounting, Callback!At, OthersStay
<1>7. BookAgrees'
  BY <1>a, <1>b, <1>c DEF BookAgrees, IsAccounted, Callback!At, OthersStay
<1>8. QED
  BY <1>1, <1>2, <1>3, <1>4, <1>5, <1>6, <1>7

(* A handler that accounts has a batch.                                    *)
LEMMA BatchType ==
  ASSUME CallbackConstants, CallbackTruth, NEW h \in Handler, handler[h].pc \in Accounting
  PROVE  Callback!BatchOf(h) \in Callback!Batch
  BY DEF CallbackTruth, HandlersAgree, RecordIsWhole, Accounting, Callback!At, Callback!BatchOf, Callback!Batch,
     Callback!TypeOK, Callback!Callback

(* What a handler books is the outcome on record.                          *)
LEMMA LedgerStepKeepsCallbackTruth ==
  ASSUME CallbackConstants, CallbackTruth, NEW h \in Handler,
         Callback!Account(h) \/ Callback!Write(h) \/ Callback!Book(h)
  PROVE  CallbackTruth'
<1>. USE DEF CallbackTruth
<1>a. handler[h].pc \in Accounting /\ UNCHANGED <<callback, delivery, messages, forgotten>>
  BY DEF Callback!Account, Callback!Write, Callback!Book, Callback!At, Accounting
<1>b. Callback!BatchOf(h) \in Callback!Batch /\ book \in Callback!Ledger
  BY <1>a, BatchType DEF Callback!TypeOK
<1>1. CASE Callback!Reply(h, "error") /\ UNCHANGED book
  BY <1>a, <1>1, EndKeepsCallbackTruth DEF Callback!Answer
<1>2. CASE book = Callback!NoEntry /\ book' = [state |-> "claimed", batch |-> Callback!BatchOf(h)]
           /\ Callback!Goto(h, "write")
  <2>1. book' \in Callback!Ledger /\ book'.state = "claimed" /\ book'.batch = Callback!BatchOf(h)
    BY <1>2, <1>b DEF Callback!Ledger
  <2>2. book.state # "written"
    BY <1>2 DEF Callback!NoEntry
  <2>3. QED
    BY <1>a, <1>2, <2>1, <2>2, AccountingKeepsCallbackTruth DEF Accounting
<1>3. CASE book' = book /\ (Callback!Goto(h, "write") \/ Callback!Goto(h, "book"))
  BY <1>a, <1>b, <1>3, AccountingKeepsCallbackTruth DEF Accounting
<1>4. CASE book = [state |-> "written", batch |-> Callback!BatchOf(h)] /\ UNCHANGED book
           /\ Callback!Goto(h, "complete")
  BY <1>a, <1>b, <1>4, AccountingKeepsCallbackTruth DEF Accounting
<1>5. CASE book = [state |-> "claimed", batch |-> Callback!BatchOf(h)]
           /\ book' = [book EXCEPT !.state = "written"] /\ Callback!Goto(h, "complete")
  <2>1. /\ book.state = "claimed" /\ book'.state = "written"
        /\ book'.batch = Callback!BatchOf(h)
    BY <1>5
  <2>2. book' \in Callback!Ledger
    BY <1>5, <1>b DEF Callback!Ledger
  <2>3. QED
    BY <1>a, <1>5, <2>1, <2>2, AccountingKeepsCallbackTruth DEF Accounting
<1>6. QED
  BY <1>1, <1>2, <1>3, <1>4, <1>5 DEF Callback!Account, Callback!Write, Callback!Book, Callback!Refuse

(* A callback is completed after its batch was written.                    *)
LEMMA CompleteKeepsCallbackTruth ==
  ASSUME CallbackConstants, CallbackTruth, NEW h \in Handler, Callback!Complete(h)
  PROVE  CallbackTruth'
<1>. USE DEF CallbackTruth
<1>a. Callback!At(h, "complete") /\ UNCHANGED <<delivery, book, messages, forgotten>>
  BY DEF Callback!Complete
<1>1. CASE Callback!Reply(h, "error") /\ UNCHANGED callback
  BY <1>a, <1>1, EndKeepsCallbackTruth DEF Callback!Answer
<1>2. CASE /\ callback' = [callback EXCEPT !.status = "completed"]
           /\ Callback!Reply(h, "completed")
  <2>a. /\ callback'.status = "completed" /\ callback'.payload = callback.payload
        /\ callback'.told = callback.told /\ callback'.fence = callback.fence
        /\ callback' \in Callback!Callback
    BY <1>2 DEF Callback!TypeOK, Callback!Callback
  <2>b. /\ handler' \in [Handler -> HandlerType] /\ OthersStay(h) /\ handler'[h].pc = "idle"
    BY <1>2, ReplyMoves DEF Callback!Answer
  <2>c. callback.status \in {"accounting_pending", "completed"} /\ IsAccounted
    BY <1>a DEF HandlersAgree, Accounting, Callback!At, BookAgrees
  <2>1. Callback!TypeOK'
    BY <1>a, <2>a, <2>b DEF Callback!TypeOK, HandlerType
  <2>2. FencesAreOwn'
    BY <2>a, <2>b DEF FencesAreOwn, Delivering, OthersStay
  <2>3. PostsAreOwned'
    BY <1>a, <2>b DEF PostsAreOwned, Holds, Callback!At, OthersStay
  <2>4. ToldIsTrue'
    BY <1>a, <2>b DEF ToldIsTrue, Callback!At, OthersStay
  <2>5. RecordIsWhole'
    BY <1>a, <2>a, <2>c DEF RecordIsWhole
  <2>6. HandlersAgree'
    BY <2>a, <2>b DEF HandlersAgree, Accounting, Callback!At, OthersStay
  <2>7. BookAgrees'
    BY <1>a, <2>a, <2>b, <2>c DEF BookAgrees, IsAccounted, Callback!At, OthersStay
  <2>8. QED
    BY <2>1, <2>2, <2>3, <2>4, <2>5, <2>6, <2>7
<1>3. QED
  BY <1>1, <1>2 DEF Callback!Complete, Callback!Refuse

-----------------------------------------------------------------------------
(* The outbox gives up, and the lease runs out.                            *)

(* The outbox books its own batch only where none is.                      *)
LEMMA GiveUpKeepsCallbackTruth ==
  ASSUME CallbackConstants, CallbackTruth, Callback!GiveUp
  PROVE  CallbackTruth'
<1>. USE DEF CallbackTruth
<1>a. UNCHANGED <<callback, delivery, messages, forgotten, handler>>
  BY DEF Callback!GiveUp
<1>b. book' \in Callback!Ledger /\ book'.batch.told = "unknown" /\ book.state # "written"
  <2>1. CASE book = Callback!NoEntry /\ \E p \in Payload :
               book' = [state |-> "claimed", batch |-> [payload |-> p, told |-> "unknown"]]
    BY <2>1 DEF Callback!Ledger, Callback!Batch, Callback!NoEntry
  <2>2. CASE Callback!GivenUp /\ book.state = "claimed" /\ book' = [book EXCEPT !.state = "written"]
    <3>1. book \in [state : {"claimed", "written"}, batch : Callback!Batch]
      BY <2>2 DEF Callback!TypeOK, Callback!Ledger
    <3>2. QED
      BY <2>2, <3>1 DEF Callback!GivenUp, Callback!Ledger
  <2>3. QED
    BY <2>1, <2>2 DEF Callback!GiveUp
<1>1. Callback!TypeOK'
  BY <1>a, <1>b DEF Callback!TypeOK
<1>2. FencesAreOwn' /\ PostsAreOwned' /\ ToldIsTrue' /\ RecordIsWhole' /\ HandlersAgree'
  BY <1>a DEF FencesAreOwn, PostsAreOwned, Holds, Callback!At, ToldIsTrue, RecordIsWhole, HandlersAgree
<1>3. BookAgrees'
  BY <1>a, <1>b DEF BookAgrees, IsAccounted, Callback!At
<1>4. QED
  BY <1>1, <1>2, <1>3

(* An expired lease changes no outcome.                                    *)
LEMMA LeaseExpiryKeepsCallbackTruth ==
  ASSUME CallbackConstants, CallbackTruth, Callback!LeaseExpires
  PROVE  CallbackTruth'
<1>. USE DEF CallbackTruth
<1>a. /\ callback'.status = callback.status /\ callback'.payload = callback.payload
      /\ callback'.told = callback.told /\ callback'.fence = callback.fence
      /\ callback' \in Callback!Callback /\ UNCHANGED <<delivery, book, messages, forgotten, handler>>
  BY DEF Callback!LeaseExpires, Callback!TypeOK, Callback!Callback
<1>1. Callback!TypeOK'
  BY <1>a DEF Callback!TypeOK
<1>2. FencesAreOwn' /\ PostsAreOwned' /\ ToldIsTrue' /\ RecordIsWhole' /\ HandlersAgree'
  BY <1>a DEF FencesAreOwn, PostsAreOwned, Holds, Callback!At, ToldIsTrue, RecordIsWhole, HandlersAgree
<1>3. BookAgrees'
  BY <1>a DEF BookAgrees, IsAccounted, Callback!At
<1>4. QED
  BY <1>1, <1>2, <1>3

(* Who fails or dies leaves everything to the others.                      *)
LEMMA FailureKeepsCallbackTruth ==
  ASSUME CallbackConstants, CallbackTruth, NEW h \in Handler, Callback!Fail(h) \/ Callback!Crash(h)
  PROVE  CallbackTruth'
<1>1. Callback!Reply(h, "error") /\ UNCHANGED <<callback, delivery, book, messages, forgotten>>
  BY DEF Callback!Fail, Callback!Crash
<1>2. "error" \in Callback!Answer
  BY DEF Callback!Answer
<1>3. QED
  BY <1>1, <1>2, EndKeepsCallbackTruth

-----------------------------------------------------------------------------
(* The invariant.                                                          *)

(* It holds at first.                                                      *)
LEMMA CallbackTruthAtFirst ==
  ASSUME CallbackConstants, Callback!Init
  PROVE  CallbackTruth
<1>. USE DEF Callback!Init
<1>a. Callback!Idle \in HandlerType /\ Callback!Idle.pc = "idle"
  BY DEF CallbackConstants, Callback!Idle, HandlerType, Callback!Step, Callback!Fence, Callback!Answer
<1>b. \A h \in Handler : handler[h] = Callback!Idle
  OBVIOUS
<1>1. Callback!TypeOK
  BY <1>a DEF CallbackConstants, Callback!TypeOK, Callback!Callback, Callback!Delivery, Callback!NoDelivery,
     Callback!Ledger, Callback!NoEntry, Callback!Fence,
              HandlerType
<1>2. FencesAreOwn /\ PostsAreOwned /\ ToldIsTrue /\ HandlersAgree
  BY <1>a, <1>b DEF FencesAreOwn, Delivering, PostsAreOwned, Holds, Callback!At, ToldIsTrue,
                    HandlersAgree, Accounting
<1>3. RecordIsWhole
  BY DEF RecordIsWhole
<1>4. BookAgrees
  BY <1>a, <1>b DEF BookAgrees, Callback!At, Callback!NoEntry
<1>5. QED
  BY <1>1, <1>2, <1>3, <1>4 DEF CallbackTruth

(* Every step keeps it.                                                    *)
LEMMA CallbackTruthIsKept ==
  ASSUME CallbackConstants, CallbackTruth, [Callback!Next]_Callback!vars
  PROVE  CallbackTruth'
<1>1. ASSUME NEW h \in Handler, Callback!Progress(h) PROVE CallbackTruth'
  <2>1. CASE Callback!Claim(h) BY <2>1, ClaimKeepsCallbackTruth
  <2>2. CASE Callback!Own(h) BY <2>2, OwnKeepsCallbackTruth
  <2>3. CASE Callback!Send(h) BY <2>3, SendKeepsCallbackTruth
  <2>4. CASE Callback!Settle(h) BY <2>4, SettleKeepsCallbackTruth
  <2>5. CASE Callback!Unown(h) BY <2>5, UnownKeepsCallbackTruth
  <2>6. CASE Callback!Free(h) BY <2>6, FreeKeepsCallbackTruth
  <2>7. CASE Callback!Record(h) BY <2>7, RecordKeepsCallbackTruth
  <2>8. CASE Callback!Account(h) \/ Callback!Write(h) \/ Callback!Book(h) BY <2>8, LedgerStepKeepsCallbackTruth
  <2>9. CASE Callback!Complete(h) BY <2>9, CompleteKeepsCallbackTruth
  <2>10. QED
    BY <1>1, <2>1, <2>2, <2>3, <2>4, <2>5, <2>6, <2>7, <2>8, <2>9 DEF Callback!Progress
<1>2. ASSUME NEW h \in Handler, NEW p \in Payload, Callback!Receive(h, p) PROVE CallbackTruth'
  BY <1>2, ReceiveKeepsCallbackTruth
<1>3. ASSUME NEW h \in Handler, Callback!OwnElsewhere(h) PROVE CallbackTruth'
  BY <1>3, OwnElsewhereKeepsCallbackTruth
<1>4. ASSUME NEW h \in Handler, Callback!Fail(h) \/ Callback!Crash(h) PROVE CallbackTruth'
  BY <1>4, FailureKeepsCallbackTruth
<1>5. CASE Callback!GiveUp BY <1>5, GiveUpKeepsCallbackTruth
<1>6. CASE Callback!LeaseExpires BY <1>6, LeaseExpiryKeepsCallbackTruth
<1>7. CASE UNCHANGED Callback!vars
  <2>1. UNCHANGED <<callback, delivery, book, messages, forgotten, handler>>
    BY <1>7 DEF Callback!vars
  <2>2. QED
    BY <2>1 DEF CallbackTruth, Callback!TypeOK, FencesAreOwn, PostsAreOwned, Holds, Callback!At, ToldIsTrue,
                RecordIsWhole, HandlersAgree, BookAgrees, IsAccounted
<1>8. QED
  BY <1>1, <1>2, <1>3, <1>4, <1>5, <1>6, <1>7 DEF Callback!Next

(* The invariant: the stores of a development callback and its handlers    *)
(* (handleDevelopmentCallback) agree at all times.                         *)
LEMMA CallbackTruthHolds ==
  ASSUME CallbackConstants
  PROVE  Callback!Spec => []CallbackTruth
BY CallbackTruthAtFirst, CallbackTruthIsKept, PTL DEF Callback!Spec

(* A development result is posted again only after its delivery claim was  *)
(* given up, a result on record as delivered was posted under the fence on *)
(* record, and the accounting batch says what the record says:             *)
(* handleDevelopmentCallback with development-callback-state.ts and        *)
(* recordTenantRuntimeTerminalOperation.                                   *)
LEMMA CallbackTells ==
  ASSUME CallbackConstants
  PROVE  Callback!Spec => []Callback!CallbackIsTruthful
<1>1. CallbackTruth => Callback!CallbackIsTruthful
  <2>. SUFFICES ASSUME CallbackTruth PROVE Callback!CallbackIsTruthful
    OBVIOUS
  <2>. USE DEF CallbackTruth
  <2>a. /\ callback.told \in Callback!Told \cup {"open"} /\ delivery \in Callback!Delivery
        /\ book.state = "none" => book = Callback!NoEntry
        /\ book.state # "none" => book.batch \in Callback!Batch
    BY CallbackTypes DEF Callback!TypeOK
  <2>1. Callback!TypeOK /\ Callback!PostedOnce
    BY DEF PostsAreOwned, Callback!PostedOnce
  <2>2. Callback!DeliveredIsPosted
    BY <2>a DEF RecordIsWhole, Callback!DeliveredIsPosted, Callback!Delivery
  <2>3. ASSUME book # Callback!NoEntry, ~Callback!GivenUp
        PROVE  /\ callback.status \in {"accounting_pending", "completed"}
               /\ book.batch = [payload |-> callback.payload, told |-> callback.told]
    <3>1. book.state # "none" /\ book.batch \in Callback!Batch /\ book.batch.told # "unknown"
      BY <2>3, <2>a DEF Callback!GivenUp
    <3>2. QED
      BY <3>1 DEF BookAgrees, Callback!Batch
  <2>4. ASSUME callback.status = "completed"
        PROVE  book.state = "written" /\ ~Callback!GivenUp
    BY <2>4, <2>a DEF BookAgrees, IsAccounted, Callback!GivenUp, Callback!Told
  <2>5. QED
    BY <2>1, <2>2, <2>3, <2>4 DEF Callback!CallbackIsTruthful, Callback!AccountedAsTold
<1>2. QED
  BY <1>1, CallbackTruthHolds, PTL

-----------------------------------------------------------------------------
(* What a step may not do.                                                 *)

(* What one step may do to the record.                                     *)
LEMMA CallbackMovesForward ==
  ASSUME CallbackConstants, CallbackTruth, Callback!Next
  PROVE  /\ callback.payload # Nothing => callback'.payload = callback.payload
         /\ callback.told # "open" => /\ callback'.told = callback.told
                                      /\ callback'.fence = callback.fence
         /\ callback.status = "completed" => callback'.status = "completed"
         /\ callback'.fence >= callback.fence
<1>. USE DEF CallbackTruth
<1>a. callback \in Callback!Callback /\ callback.fence \in Nat
  BY CallbackTypes DEF Callback!TypeOK
<1>1. ASSUME NEW h \in Handler, Callback!Claim(h), callback' # callback
      PROVE  /\ callback'.payload = callback.payload \/ callback.payload = Nothing
             /\ callback.told = "open" /\ callback.status # "completed"
             /\ callback'.fence = callback.fence + 1
  BY <1>1 DEF Callback!Claim, Callback!Claimable, Callback!Claimed, RecordIsWhole
<1>2. ASSUME NEW h \in Handler, Callback!Free(h) \/ Callback!LeaseExpires
      PROVE  /\ callback'.payload = callback.payload /\ callback'.told = callback.told
             /\ callback'.status = callback.status /\ callback'.fence = callback.fence
  BY <1>2, <1>a DEF Callback!Free, Callback!LeaseExpires, Callback!Callback
<1>3. ASSUME NEW h \in Handler, Callback!Record(h), callback' # callback
      PROVE  /\ callback'.payload = callback.payload /\ callback.told = "open"
             /\ callback'.fence = callback.fence /\ callback.status # "completed"
  <2>1. /\ Callback!Owns(h) /\ callback.status = "delivery_pending"
        /\ callback' = [callback EXCEPT !.status = "accounting_pending",
                          !.told = handler[h].told, !.fence = handler[h].fence,
                          !.leased = FALSE]
    BY <1>3 DEF Callback!Record
  <2>2. callback'.payload = callback.payload /\ callback'.fence = handler[h].fence
    BY <2>1, <1>a DEF Callback!Callback
  <2>3. QED
    BY <2>1, <2>2 DEF Callback!Owns, RecordIsWhole
<1>4. ASSUME NEW h \in Handler, Callback!Complete(h), callback' # callback
      PROVE  /\ callback'.payload = callback.payload /\ callback'.told = callback.told
             /\ callback'.status = "completed" /\ callback'.fence = callback.fence
  BY <1>4, <1>a DEF Callback!Complete, Callback!Callback
<1>5. CASE callback' = callback
  BY <1>5, <1>a
<1>6. CASE callback' # callback
  <2>1. \/ \E h \in Handler : Callback!Claim(h) \/ Callback!Free(h) \/ Callback!Record(h) \/ Callback!Complete(h)
        \/ Callback!LeaseExpires
    BY <1>6 DEF Callback!Next, Callback!Progress, Callback!Receive, Callback!OwnElsewhere, Callback!Fail,
       Callback!Crash, Callback!Own, Callback!Send, Callback!Settle, Callback!Unown,
                Callback!Account, Callback!Write, Callback!Book, Callback!GiveUp
  <2>2. CASE \E h \in Handler : Callback!Claim(h)
    BY <2>2, <1>1, <1>6, <1>a
  <2>3. CASE \E h \in Handler : Callback!Free(h)
    BY <2>3, <1>2, <1>a
  <2>4. CASE \E h \in Handler : Callback!Record(h)
    BY <2>4, <1>3, <1>6, <1>a
  <2>5. CASE \E h \in Handler : Callback!Complete(h)
    BY <2>5, <1>4, <1>6, <1>a
  <2>6. CASE Callback!LeaseExpires
    BY <2>6, <1>a DEF Callback!LeaseExpires, Callback!Callback
  <2>7. QED
    BY <2>1, <2>2, <2>3, <2>4, <2>5, <2>6
<1>7. QED
  BY <1>5, <1>6

(* The first payload wins, a recorded outcome and a completed callback     *)
(* are final, and fences grow: claimDevelopmentCallbackState,              *)
(* recordDevelopmentCallbackDeliveryState, releaseDevelopmentCallbackState *)
(* in any order, from any number of handlers.                              *)
LEMMA CallbackAdvances ==
  ASSUME CallbackConstants
  PROVE  Callback!Spec => Callback!CallbackIsMonotone
<1>1. ASSUME CallbackTruth, [Callback!Next]_Callback!vars
      PROVE  [/\ callback.payload # Nothing => callback'.payload = callback.payload
              /\ callback.told # "open" => /\ callback'.told = callback.told
                                           /\ callback'.fence = callback.fence
              /\ callback.status = "completed" => callback'.status = "completed"
              /\ callback'.fence >= callback.fence]_callback
  BY <1>1, CallbackMovesForward DEF Callback!vars
<1>2. QED
  BY <1>1, CallbackTruthHolds, PTL DEF Callback!Spec, Callback!CallbackIsMonotone

(* Only a repeated claim and the last step answer completed.               *)
LEMMA CompletedIsToldTrue ==
  ASSUME CallbackConstants, CallbackTruth, Callback!Next, NEW h \in Handler,
         handler'[h].answer = "completed", handler[h].pc # "idle"
  PROVE  callback'.status = "completed" /\ callback'.payload = handler[h].payload
<1>. USE DEF CallbackTruth
<1>a. handler \in [Handler -> HandlerType] /\ handler[h].answer = "none" /\ callback \in Callback!Callback
  BY DEF Callback!TypeOK, HandlersAgree, HandlerType, Callback!At
<1>1. ASSUME NEW k \in Handler, k # h, handler'[h] # handler[h]
      PROVE  ~(Callback!Progress(k) \/ Callback!OwnElsewhere(k) \/ Callback!Fail(k) \/ Callback!Crash(k) \/ \E p \in Payload : Callback!Receive(k, p))
  BY <1>1, <1>a DEF Callback!Progress, Callback!Receive, Callback!OwnElsewhere, Callback!Fail, Callback!Crash,
     Callback!Claim, Callback!Own, Callback!Send, Callback!Settle, Callback!Unown,
     Callback!Free, Callback!Record, Callback!Account, Callback!Write, Callback!Book, Callback!Complete, Callback!Goto, Callback!Tell, Callback!Reply, Callback!Resume, Callback!Unsure, Callback!Refuse
<1>2. ASSUME ~Callback!Claim(h), ~Callback!Complete(h)
      PROVE  FALSE
  <2>1. handler'[h] # handler[h]
    BY <1>a
  <2>2. Callback!Progress(h) \/ Callback!OwnElsewhere(h) \/ Callback!Fail(h) \/ Callback!Crash(h)
    BY <2>1, <1>1 DEF Callback!Next, Callback!GiveUp, Callback!LeaseExpires, Callback!Receive, Callback!At
  <2>3. /\ \A step \in Callback!Step : ~Callback!Goto(h, step)
        /\ \A told \in Callback!Told : ~Callback!Tell(h, told)
        /\ ~Callback!Reply(h, "error") /\ ~Callback!Reply(h, "in_progress")
    BY <1>a DEF Callback!Goto, Callback!Tell, Callback!Reply, HandlerType, Callback!Idle
  <2>4. ~Callback!Own(h) /\ ~Callback!OwnElsewhere(h)
    BY <2>3 DEF Callback!Own, Callback!OwnElsewhere, Callback!Step, Callback!Told
  <2>5. ~Callback!Send(h) /\ ~Callback!Settle(h) /\ ~Callback!Unown(h) /\ ~Callback!Free(h)
    BY <2>3 DEF Callback!Send, Callback!Settle, Callback!Unown, Callback!Free, Callback!Unsure, Callback!Step,
       Callback!Told
  <2>6. ~Callback!Record(h) /\ ~Callback!Account(h) /\ ~Callback!Write(h) /\ ~Callback!Book(h) /\ ~Callback!Fail(h) /\ ~Callback!Crash(h)
    BY <2>3 DEF Callback!Record, Callback!Account, Callback!Write, Callback!Book, Callback!Fail, Callback!Crash,
       Callback!Refuse, Callback!Step
  <2>7. QED
    BY <2>2, <2>4, <2>5, <2>6, <1>2 DEF Callback!Progress
<1>3. CASE Callback!Claim(h)
  <2>1. ~Callback!Reply(h, "conflict") /\ ~Callback!Reply(h, "in_progress") /\ ~Callback!Resume(h)
    BY <1>a DEF Callback!Reply, Callback!Resume, HandlerType, Callback!Idle
  <2>2. handler' # [handler EXCEPT ![h].pc = "own", ![h].fence = callback'.fence]
    BY <1>a DEF HandlerType
  <2>3. QED
    BY <1>3, <2>1, <2>2 DEF Callback!Claim
<1>4. CASE Callback!Complete(h)
  <2>1. ~Callback!Reply(h, "error")
    BY <1>a DEF Callback!Reply, HandlerType, Callback!Idle
  <2>2. Callback!Owns(h) /\ callback' = [callback EXCEPT !.status = "completed"]
    BY <1>4, <2>1 DEF Callback!Complete, Callback!Refuse
  <2>3. QED
    BY <2>2, <1>a DEF Callback!Owns, Callback!Callback
<1>5. QED
  BY <1>2, <1>3, <1>4

(* A caller that is answered completed may delete its outbox: the callback *)
(* is completed, for the payload it sent (handleDevelopmentCallback).      *)
LEMMA CompletedIsTrue ==
  ASSUME CallbackConstants
  PROVE  Callback!Spec => Callback!CompletedAnswerIsTrue
<1>1. ASSUME CallbackTruth, [Callback!Next]_Callback!vars
      PROVE  [\A h \in Handler :
                handler'[h].answer = "completed" /\ handler[h].pc # "idle" =>
                  /\ callback'.status = "completed"
                  /\ callback'.payload = handler[h].payload]_handler
  BY <1>1, CompletedIsToldTrue DEF Callback!vars
<1>2. QED
  BY <1>1, CallbackTruthHolds, PTL DEF Callback!Spec, Callback!CompletedAnswerIsTrue

-----------------------------------------------------------------------------
(* The callback implements its promise.                                    *)

taken == callback.payload
accounted == IF book = Callback!NoEntry THEN "open" ELSE IF Callback!GivenUp THEN "unknown" ELSE "told"
completed == callback.status = "completed"

(* Each step is a step of the promise or none.                             *)
LEMMA StepKeepsPromise ==
  ASSUME CallbackConstants, CallbackTruth, Callback!Next
  PROVE  [Callback!Promise!Next]_<<taken, accounted, completed>>
<1>. USE DEF CallbackTruth, Callback!Promise!Next, taken, accounted, completed
<1>a. callback \in Callback!Callback
  BY DEF Callback!TypeOK
<1>1. ASSUME NEW h \in Handler, Callback!Claim(h) PROVE [Callback!Promise!Next]_<<taken, accounted, completed>>
  <2>1. CASE callback' = callback
    BY <1>1, <2>1 DEF Callback!Claim, Callback!GivenUp
  <2>2. CASE callback' # callback
    <3>1. /\ handler[h].payload \in Payload
          /\ Callback!Claimable(handler[h].payload) /\ callback' = Callback!Claimed(handler[h].payload)
      BY <1>1, <2>2 DEF Callback!Claim, HandlersAgree, Callback!At
    <3>2. CASE callback.payload = Nothing
      BY <1>1, <3>1, <3>2 DEF Callback!Claim, Callback!Claimed, Callback!Claimable, Callback!GivenUp,
         Callback!Promise!Take
    <3>3. CASE callback.payload = handler[h].payload
      BY <1>1, <3>1, <3>3 DEF Callback!Claim, Callback!Claimed, Callback!Claimable, Callback!GivenUp
    <3>4. QED
      BY <3>1, <3>2, <3>3 DEF Callback!Claimable
  <2>3. QED
    BY <2>1, <2>2
<1>2. ASSUME NEW h \in Handler, Callback!Account(h) PROVE [Callback!Promise!Next]_<<taken, accounted, completed>>
  <2>1. CASE UNCHANGED book
    BY <1>2, <2>1 DEF Callback!Account, Callback!GivenUp
  <2>2. CASE book' # book
    <3>1. book = Callback!NoEntry /\ book' = [state |-> "claimed", batch |-> Callback!BatchOf(h)]
      BY <1>2, <2>2 DEF Callback!Account
    <3>2. handler[h].told = callback.told /\ callback.status # "none"
          /\ callback.told # "unknown"
      BY <1>2, <1>a DEF Callback!Account, Callback!At, HandlersAgree, Accounting, Callback!Callback,
         Callback!Told
    <3>3. callback.payload # Nothing
      BY <3>2 DEF RecordIsWhole
    <3>4. QED
      BY <1>2, <3>1, <3>2, <3>3 DEF Callback!Account, Callback!BatchOf, Callback!NoEntry, Callback!GivenUp,
         Callback!Promise!Account
  <2>3. QED
    BY <2>1, <2>2
<1>3. ASSUME NEW h \in Handler, Callback!Book(h) PROVE [Callback!Promise!Next]_<<taken, accounted, completed>>
  <2>1. CASE UNCHANGED book
    BY <1>3, <2>1 DEF Callback!Book, Callback!GivenUp
  <2>2. CASE book' # book
    <3>1. book \in [state : {"claimed", "written"}, batch : Callback!Batch]
          /\ book' = [book EXCEPT !.state = "written"]
      BY <1>3, <2>2 DEF Callback!Book, Callback!TypeOK, Callback!Ledger
    <3>2. book'.state = "written" /\ book'.batch = book.batch /\ book.state # "none"
      BY <3>1
    <3>3. QED
      BY <1>3, <3>2 DEF Callback!Book, Callback!NoEntry, Callback!GivenUp
  <2>3. QED
    BY <2>1, <2>2
<1>4. ASSUME NEW h \in Handler, Callback!Complete(h) PROVE [Callback!Promise!Next]_<<taken, accounted, completed>>
  <2>1. CASE UNCHANGED callback
    BY <1>4, <2>1 DEF Callback!Complete, Callback!GivenUp
  <2>2. CASE callback' # callback
    <3>1. /\ callback' = [callback EXCEPT !.status = "completed"] /\ UNCHANGED book
          /\ callback'.payload = callback.payload
      BY <1>4, <2>2, <1>a DEF Callback!Complete, Callback!Callback
    <3>2. IsAccounted /\ callback.told # "unknown"
      BY <1>4, <1>a DEF Callback!Complete, BookAgrees, Callback!Callback, Callback!Told
    <3>3. book # Callback!NoEntry /\ ~Callback!GivenUp
      BY <3>2 DEF IsAccounted, Callback!NoEntry, Callback!GivenUp
    <3>4. CASE callback.status = "completed"
      BY <3>1, <3>3, <3>4, <1>a DEF Callback!Callback, Callback!GivenUp
    <3>5. CASE callback.status # "completed"
      BY <3>1, <3>3, <3>5, <1>a DEF Callback!Callback, Callback!GivenUp, Callback!Promise!Complete
    <3>6. QED
      BY <3>4, <3>5
  <2>3. QED
    BY <2>1, <2>2
<1>5. ASSUME Callback!GiveUp PROVE [Callback!Promise!Next]_<<taken, accounted, completed>>
  <2>1. CASE book = Callback!NoEntry
    BY <1>5, <2>1 DEF Callback!GiveUp, Callback!NoEntry, Callback!GivenUp, Callback!Promise!GiveUp
  <2>2. CASE book # Callback!NoEntry
    <3>1. /\ Callback!GivenUp /\ book' = [book EXCEPT !.state = "written"]
          /\ book \in [state : {"claimed", "written"}, batch : Callback!Batch]
      BY <1>5, <2>2 DEF Callback!GiveUp, Callback!TypeOK, Callback!Ledger, Callback!NoEntry
    <3>2. book'.state = "written" /\ book'.batch = book.batch
      BY <3>1
    <3>3. QED
      BY <1>5, <3>1, <3>2 DEF Callback!GiveUp, Callback!NoEntry, Callback!GivenUp
  <2>3. QED
    BY <2>1, <2>2
<1>6. ASSUME NEW h \in Handler, Callback!Free(h) \/ Callback!Record(h) PROVE [Callback!Promise!Next]_<<taken, accounted, completed>>
  <2>1. callback'.payload = callback.payload
    BY <1>6, <1>a DEF Callback!Free, Callback!Record, Callback!Callback
  <2>2. callback'.status = "completed" <=> callback.status = "completed"
    BY <1>6, <1>a DEF Callback!Free, Callback!Record, Callback!Callback
  <2>3. QED
    BY <1>6, <2>1, <2>2 DEF Callback!Free, Callback!Record, Callback!GivenUp
<1>7. CASE Callback!LeaseExpires
  BY <1>7, <1>a DEF Callback!LeaseExpires, Callback!Callback, Callback!GivenUp
<1>8. CASE UNCHANGED <<callback, book>>
  BY <1>8 DEF Callback!GivenUp
<1>9. QED
  <2>1. \/ \E h \in Handler : Callback!Claim(h) \/ Callback!Free(h) \/ Callback!Record(h) \/ Callback!Account(h) \/ Callback!Book(h) \/ Callback!Complete(h)
        \/ Callback!GiveUp \/ Callback!LeaseExpires \/ UNCHANGED <<callback, book>>
    BY DEF Callback!Next, Callback!Progress, Callback!Receive, Callback!OwnElsewhere, Callback!Fail,
       Callback!Crash, Callback!Own, Callback!Send, Callback!Settle, Callback!Unown, Callback!Write
  <2>2. QED
    BY <2>1, <1>1, <1>2, <1>3, <1>4, <1>5, <1>6, <1>7, <1>8

(* The callback keeps what the terminal outbox relies on: one payload is   *)
(* taken, it is accounted for once, as told or as given up, and it is      *)
(* completed only after it was accounted for as told. Claiming takes,      *)
(* the first batch accounts, failDevelopmentTerminalOutboxRecord gives up, *)
(* completeDevelopmentCallbackState completes; every other step stutters.  *)
LEMMA CallbackKeepsItsWord ==
  ASSUME CallbackConstants
  PROVE  Callback!Spec => Callback!CallbackKeepsPromise
<1>1. Callback!Init => Callback!Promise!Init
  BY DEF Callback!Init, Callback!NoEntry, Callback!Promise!Init
<1>2. ASSUME CallbackTruth, [Callback!Next]_Callback!vars
      PROVE  [Callback!Promise!Next]_<<callback.payload,
                IF book = Callback!NoEntry THEN "open" ELSE IF Callback!GivenUp THEN "unknown" ELSE "told",
                callback.status = "completed">>
  <2>1. CASE Callback!Next
    BY <1>2, <2>1, StepKeepsPromise DEF taken, accounted, completed
  <2>2. CASE UNCHANGED Callback!vars
    BY <2>2 DEF Callback!vars, Callback!GivenUp
  <2>3. QED
    BY <1>2, <2>1, <2>2
<1>3. QED
  BY <1>1, <1>2, CallbackTruthHolds, PTL DEF Callback!Spec, Callback!CallbackKeepsPromise, Callback!Promise!Spec

-----------------------------------------------------------------------------
(* The two of them side by side, as the run checks them: whichever part    *)
(* moves, each behaves as its own specification says.                      *)
LEMMA PartsBehave == SuiteSpec => Spec /\ Callback!Spec
<1>1. SuiteInit => Init /\ Callback!Init
  BY DEF SuiteInit
<1>2. [SuiteNext]_<<part, vars, callbackVars>> => [Next]_vars
  BY DEF SuiteNext, vars
<1>3. [SuiteNext]_<<part, vars, callbackVars>> => [Callback!Next]_Callback!vars
  BY DEF SuiteNext, callbackVars, Callback!vars
<1>4. QED
  BY <1>1, <1>2, <1>3, PTL DEF SuiteSpec, Spec, Callback!Spec

(* A development result is posted again only after its delivery claim was  *)
(* given up, a result on record as delivered was posted, and the accounts  *)
(* say what the record says (handleDevelopmentCallback), for any number of *)
(* handlers, payloads and claims.                                          *)
THEOREM CallbackIsTrue ==
  ASSUME CallbackConstants
  PROVE  SuiteSpec => []CallbackIsTruthful
BY CallbackTells, PartsBehave, PTL DEF CallbackIsTruthful

(* The callback keeps what the terminal outbox relies on: one payload is   *)
(* taken, accounted for once, and completed only as it was told            *)
(* (development-callback-state.ts).                                        *)
THEOREM CallbackImplementsPromise ==
  ASSUME CallbackConstants
  PROVE  SuiteSpec => CallbackKeepsPromise
BY CallbackKeepsItsWord, PartsBehave, PTL DEF CallbackKeepsPromise

(* The first payload wins, what is recorded and completed stays, and no    *)
(* handler answers completed for a callback that is not: the action        *)
(* properties of CallbackGoesForward.                                      *)
THEOREM CallbackNeverTurnsBack ==
  ASSUME CallbackConstants
  PROVE  SuiteSpec => Callback!CallbackIsMonotone /\ Callback!CompletedAnswerIsTrue
BY CallbackAdvances, CompletedIsTrue, PartsBehave, PTL

=============================================================================
