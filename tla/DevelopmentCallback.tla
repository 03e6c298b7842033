------------------------ MODULE DevelopmentCallback ------------------------
(***************************************************************************)
(* The terminal callback of a development job: its result must reach the   *)
(* Slack thread once and be accounted for as it was delivered, although    *)
(* the callback is sent again until it is answered as completed.           *)
(*                                                                         *)
(* handleDevelopmentCallback (development-callback.ts) is a handler, one   *)
(* action per awaited call; several run at once, for a caller gives up     *)
(* after five seconds and sends again. They share the callback record of   *)
(* the workspace object (multitenancy/development-callback-state.ts), the  *)
(* slack_delivery claim (postTenantSlackReply), the accounting ledger and  *)
(* the Slack thread. Progress callbacks touch none of these.               *)
(***************************************************************************)
EXTENDS Integers

CONSTANTS
  Handler,   \* requests that can be handled at one time
  Payload,   \* terminal payloads of the job: its result and its timeout
  Nothing,   \* no payload
  MaxFence   \* bound: claims of the callback

VARIABLES
  callback,  \* the callback record
  delivery,  \* the slack_delivery claim of the result
  ledger,    \* the accounting entries of the job
  posts,     \* messages in the thread
  forgotten, \* history: delivery claims given up after their message was posted
  handler    \* what each handler is doing

vars == <<callback, delivery, ledger, posts, forgotten, handler>>

-----------------------------------------------------------------------------
(* Values. A fence names the handler that claimed it, and with it the      *)
(* claim_token of that handler and the receivedAt that its payload_hash of *)
(* the delivery is computed from.                                          *)

Told  == {"delivered", "failed"}
Fence == 0..MaxFence

Callback == [status : {"none", "delivery_pending", "accounting_pending", "completed"},
             payload : Payload \cup {Nothing}, told : Told \cup {"open"},
             leased : BOOLEAN, fence : Fence]
Delivery == [state : {"none", "claimed", "succeeded"}, fence : Fence]
Batch    == [payload : Payload, told : Told \cup {"unknown"}]
Ledger   == [state : {"claimed", "written"}, batch : Batch]
              \cup [state : {"none"}]

NoDelivery == [state |-> "none", fence |-> 0]
NoEntry    == [state |-> "none"]

Step == {"idle", "claim", "own", "send", "settle", "unown", "free",
         "record", "account", "write", "book", "complete"}
Idle == [pc |-> "idle", payload |-> Nothing, fence |-> 0, told |-> "open",
         answer |-> "none"]

(* What a handler answers: its HTTP status and body.                       *)
Answer == {"none", "completed", "in_progress", "conflict", "error"}

Init ==
  /\ callback = [status |-> "none", payload |-> Nothing, told |-> "open",
                 leased |-> FALSE, fence |-> 0]
  /\ delivery = NoDelivery
  /\ ledger = NoEntry
  /\ posts = 0
  /\ forgotten = 0
  /\ handler = [h \in Handler |-> Idle]

-----------------------------------------------------------------------------
(* A handler moves on, or answers.                                         *)

At(h, step) == handler[h].pc = step
Goto(h, step) == handler' = [handler EXCEPT ![h].pc = step]
Tell(h, told) == handler' = [handler EXCEPT ![h].pc = "record", ![h].told = told]
Reply(h, answer) == handler' = [handler EXCEPT ![h] = [Idle EXCEPT !.answer = answer]]

(* Bound: the handler of the last fence runs its delivery to the end.      *)
MayFail(h) == handler[h].fence < MaxFence

Receive(h, p) ==
  /\ At(h, "idle")
  /\ handler' = [handler EXCEPT ![h] = [Idle EXCEPT !.pc = "claim", !.payload = p]]
  /\ UNCHANGED <<callback, delivery, ledger, posts, forgotten>>

(* claimDevelopmentCallbackState: a claim is a new fence and a new lease.  *)
Claimed(p) == [status |-> "delivery_pending", payload |-> p, told |-> "open",
               leased |-> TRUE, fence |-> callback.fence + 1]

(* A callback whose outcome is on record is taken up where it was left.    *)
ResumeRefused(h) == Reply(h, "in_progress")

ResumeWithoutOutcome(h) ==
  handler' = [handler EXCEPT ![h].pc = "account", ![h].fence = callback.fence]

Resume(h) ==
  handler' = [handler EXCEPT ![h].pc = "account", ![h].told = callback.told,
                             ![h].fence = callback.fence]

ClaimableWhenRecorded(p) ==
  /\ callback.payload \in {p, Nothing}
  /\ callback.status # "completed"
  /\ ~callback.leased

ClaimableByAny(p) ==
  /\ callback.status \in {"none", "delivery_pending"}
  /\ ~callback.leased

Claimable(p) ==
  /\ callback.payload \in {p, Nothing}
  /\ callback.status \in {"none", "delivery_pending"}
  /\ ~callback.leased

Claim(h) ==
  /\ At(h, "claim")
  /\ LET p == handler[h].payload IN
     \/ /\ callback.payload \notin {p, Nothing}
        /\ Reply(h, "conflict") /\ UNCHANGED callback
     \/ /\ callback.payload = p /\ callback.status = "completed"
        /\ Reply(h, "completed") /\ UNCHANGED callback
     \/ /\ callback.payload = p /\ callback.status = "accounting_pending"
        /\ Resume(h) /\ UNCHANGED callback
     \/ /\ callback.payload = p /\ callback.status = "delivery_pending"
        /\ callback.leased
        /\ Reply(h, "in_progress") /\ UNCHANGED callback
     \/ /\ Claimable(p) /\ callback.fence < MaxFence
        /\ callback' = Claimed(p)
        /\ handler' = [handler EXCEPT ![h].pc = "own", ![h].fence = callback'.fence]
  /\ UNCHANGED <<delivery, ledger, posts, forgotten>>

(* authorizeSlackDeliveryWithAuthority and the claim of the delivery. The  *)
(* claim's payload_hash covers the whole event, its receivedAt included:   *)
(* every claim of another handler differs from it and is refused as        *)
(* IDEMPOTENCY_CONFLICT, which is a failed delivery like any other error.  *)
AvailableUntilSucceeded == delivery.state # "succeeded"

Available == delivery.state = "none"

Own(h) ==
  /\ At(h, "own")
  /\ \/ /\ Available
        /\ delivery' = [state |-> "claimed", fence |-> handler[h].fence]
        /\ \/ Goto(h, "send")
           \/ Tell(h, "failed")      \* the answer was lost
     \/ /\ ~Available
        /\ Tell(h, "failed") /\ UNCHANGED delivery
     \/ Tell(h, "failed") /\ UNCHANGED delivery   \* authority refused or out of reach
  /\ UNCHANGED <<callback, ledger, posts, forgotten>>

(* The deployment was moved: REPLY_OWNERSHIP_CONFLICT.                     *)
OwnElsewhere(h) ==
  /\ At(h, "own") /\ MayFail(h)
  /\ Goto(h, "free")
  /\ UNCHANGED <<callback, delivery, ledger, posts, forgotten>>

(* postSlackReply: the message is posted or not, and an error says neither. *)
UnsureTakenForSent(h) == Goto(h, "settle")

Unsure(h) == Goto(h, "unown")

Send(h) ==
  /\ At(h, "send")
  /\ \/ posts' = posts + 1 /\ Goto(h, "settle")
     \/ posts' \in {posts, posts + 1} /\ Unsure(h)
  /\ UNCHANGED <<callback, delivery, ledger, forgotten>>

(* completeIdempotency of the delivery, which may fail on either side.     *)
Settle(h) ==
  /\ At(h, "settle")
  /\ LET succeeded == [delivery EXCEPT !.state = "succeeded"] IN
     \/ delivery' = succeeded /\ Tell(h, "delivered")
     \/ delivery' \in {delivery, succeeded} /\ Unsure(h)
  /\ UNCHANGED <<callback, ledger, posts, forgotten>>

(* releaseIdempotency of the delivery; the error it follows is thrown on.  *)
Unown(h) ==
  /\ At(h, "unown")
  /\ \/ /\ delivery = [state |-> "claimed", fence |-> handler[h].fence]
        /\ delivery' = NoDelivery
        /\ forgotten' = forgotten + 1
     \/ UNCHANGED <<delivery, forgotten>>
  /\ Tell(h, "failed")
  /\ UNCHANGED <<callback, ledger, posts>>

(* releaseDevelopmentCallbackState.                                        *)
Free(h) ==
  /\ At(h, "free")
  /\ callback' = IF /\ callback.status = "delivery_pending"
                    /\ callback.payload = handler[h].payload
                    /\ callback.fence = handler[h].fence
                 THEN [callback EXCEPT !.leased = FALSE] ELSE callback
  /\ Reply(h, "in_progress")
  /\ UNCHANGED <<delivery, ledger, posts, forgotten>>

(* recordDevelopmentCallbackDeliveryState.                                 *)
OwnsUnfenced(h) == callback.payload = handler[h].payload

Owns(h) == /\ callback.payload = handler[h].payload
           /\ callback.fence = handler[h].fence

RefuseAsDuplicate(h) == Reply(h, "completed")

Refuse(h) == Reply(h, "error")

Record(h) ==
  /\ At(h, "record")
  /\ IF Owns(h) /\ callback.status = "delivery_pending"
     THEN /\ callback' = [callback EXCEPT !.status = "accounting_pending",
                            !.told = handler[h].told, !.fence = handler[h].fence,
                            !.leased = FALSE]
          /\ Goto(h, "account")
     ELSE /\ IF Owns(h) /\ callback.told = handler[h].told
             THEN Goto(h, "account") ELSE Refuse(h)
          /\ UNCHANGED callback
  /\ UNCHANGED <<delivery, ledger, posts, forgotten>>

-----------------------------------------------------------------------------
(* recordTenantRuntimeTerminalOperation. The timestamp of the receipt is   *)
(* reserved once, so the batch of a payload and its delivery is one batch. *)

BatchOf(h) == [payload |-> handler[h].payload, told |-> handler[h].told]

Account(h) ==
  /\ At(h, "account")
  /\ \/ /\ ledger = NoEntry
        /\ ledger' = [state |-> "claimed", batch |-> BatchOf(h)]
        /\ Goto(h, "write")
     \/ /\ ledger = [state |-> "claimed", batch |-> BatchOf(h)]
        /\ Goto(h, "write") /\ UNCHANGED ledger
     \/ /\ ledger = [state |-> "written", batch |-> BatchOf(h)]
        /\ Goto(h, "complete") /\ UNCHANGED ledger
     \/ /\ ledger # NoEntry /\ ledger.batch # BatchOf(h)
        /\ Refuse(h) /\ UNCHANGED ledger
  /\ UNCHANGED <<callback, delivery, posts, forgotten>>

(* The write to Brainbase.                                                 *)
Write(h) ==
  /\ At(h, "write")
  /\ Goto(h, "book")
  /\ UNCHANGED <<callback, delivery, ledger, posts, forgotten>>

(* completeAccounting refuses an entry that is no longer claimed.          *)
Book(h) ==
  /\ At(h, "book")
  /\ IF ledger = [state |-> "claimed", batch |-> BatchOf(h)]
     THEN /\ ledger' = [ledger EXCEPT !.state = "written"]
          /\ Goto(h, "complete")
     ELSE Refuse(h) /\ UNCHANGED ledger
  /\ UNCHANGED <<callback, delivery, posts, forgotten>>

(* completeDevelopmentCallbackState.                                       *)
Complete(h) ==
  /\ At(h, "complete")
  /\ IF Owns(h) /\ callback.told = handler[h].told
     THEN /\ callback' = [callback EXCEPT !.status = "completed"]
          /\ Reply(h, "completed")
     ELSE Refuse(h) /\ UNCHANGED callback
  /\ UNCHANGED <<delivery, ledger, posts, forgotten>>

(* At its deadline the terminal outbox accounts for the job with a reply   *)
(* nobody observed (failDevelopmentTerminalOutboxRecord), whatever the     *)
(* handlers are doing.                                                     *)
GivenUp == ledger # NoEntry /\ ledger.batch.told = "unknown"

GiveUp ==
  /\ \/ /\ ledger = NoEntry
        /\ \E p \in Payload :
             ledger' = [state |-> "claimed", batch |-> [payload |-> p, told |-> "unknown"]]
     \/ /\ GivenUp /\ ledger.state = "claimed"
        /\ ledger' = [ledger EXCEPT !.state = "written"]
  /\ UNCHANGED <<callback, delivery, posts, forgotten, handler>>

-----------------------------------------------------------------------------
(* A call that accounting depends on fails and the handler answers 5xx.    *)
Fail(h) ==
  /\ handler[h].pc \in {"claim", "account", "write", "book", "complete"}
  /\ Reply(h, "error")
  /\ UNCHANGED <<callback, delivery, ledger, posts, forgotten>>

(* The isolate of a handler dies, or a call in its delivery throws through. *)
Crash(h) ==
  /\ handler[h].pc \in {"own", "send", "settle", "unown", "free", "record"}
  /\ MayFail(h)
  /\ Reply(h, "error")
  /\ UNCHANGED <<callback, delivery, ledger, posts, forgotten>>

(* Ten seconds passed since the claim. Bound: not for the last fence.      *)
LeaseExpires ==
  /\ callback.leased
  /\ callback.fence < MaxFence
  /\ callback' = [callback EXCEPT !.leased = FALSE]
  /\ UNCHANGED <<delivery, ledger, posts, forgotten, handler>>

Progress(h) ==
  \/ Claim(h) \/ Own(h) \/ Send(h) \/ Settle(h) \/ Unown(h) \/ Free(h)
  \/ Record(h) \/ Account(h) \/ Write(h) \/ Book(h) \/ Complete(h)

Next ==
  \/ \E h \in Handler :
       \/ \E p \in Payload : Receive(h, p)
       \/ Progress(h) \/ OwnElsewhere(h) \/ Fail(h) \/ Crash(h)
  \/ GiveUp
  \/ LeaseExpires

Spec == Init /\ [][Next]_vars

-----------------------------------------------------------------------------
(* Properties.                                                             *)

TypeOK ==
  /\ callback \in Callback
  /\ delivery \in Delivery
  /\ ledger \in Ledger
  /\ posts \in Nat
  /\ forgotten \in Nat
  /\ handler \in [Handler -> [pc : Step, payload : Payload \cup {Nothing},
                              fence : Fence, told : Told \cup {"open"},
                              answer : Answer]]

(* The result is posted again only after a claim of its delivery was given *)
(* up: releasing on error is what postTenantSlackReply does for a reply,   *)
(* and the only way to a second message.                                   *)
PostedOnce == posts <= 1 + forgotten

(* A result recorded as delivered is in the thread, and the delivery claim *)
(* that says so is the one of the handler that recorded it.                *)
DeliveredIsPosted ==
  callback.told = "delivered" =>
    /\ posts > 0
    /\ delivery = [state |-> "succeeded", fence |-> callback.fence]

(* The job is accounted for once: as given up, and then its callback is    *)
(* never completed, or as its callback was delivered, and then not before  *)
(* the outcome is recorded and before the callback is completed.           *)
AccountedAsTold ==
  /\ ledger # NoEntry /\ ~GivenUp =>
       /\ callback.status \in {"accounting_pending", "completed"}
       /\ ledger.batch = [payload |-> callback.payload, told |-> callback.told]
  /\ callback.status = "completed" => ledger.state = "written" /\ ~GivenUp

(* A callback is posted once, what is recorded as delivered was posted, and*)
(* the accounts say what the record says.                                  *)
CallbackIsTruthful == TypeOK /\ PostedOnce /\ DeliveredIsPosted /\ AccountedAsTold

(* The first payload wins, a recorded outcome and a completed callback are *)
(* final, and a fence is never given back.                                 *)
CallbackIsMonotone ==
  [][/\ callback.payload # Nothing => callback'.payload = callback.payload
     /\ callback.told # "open" => /\ callback'.told = callback.told
                                  /\ callback'.fence = callback.fence
     /\ callback.status = "completed" => callback'.status = "completed"
     /\ callback'.fence >= callback.fence]_callback

(* It keeps what the terminal outbox relies on.                            *)
Promise == INSTANCE CallbackPromise WITH
  taken     <- callback.payload,
  accounted <- IF ledger = NoEntry THEN "open"
               ELSE IF GivenUp THEN "unknown" ELSE "told",
  completed <- callback.status = "completed"

CallbackKeepsPromise == Promise!Spec

(* No handler answers completed for a callback that is not, and none is    *)
(* completed for a payload other than its own.                             *)
CompletedAnswerIsTrue ==
  [][\A h \in Handler :
       handler'[h].answer = "completed" /\ handler[h].pc # "idle" =>
         /\ callback'.status = "completed"
         /\ callback'.payload = handler[h].payload]_handler

-----------------------------------------------------------------------------
(* The terminal outbox sends the payload again until it is answered as     *)
(* completed; each handler runs on, the lease runs out, and the calls that *)
(* accounting makes succeed now and then, for one handler or another.      *)

ReceiveAgain == \E h \in Handler, p \in Payload :
                  p = callback.payload /\ Receive(h, p)
ClaimAgain   == \E h \in Handler :
                  handler[h].payload = callback.payload /\ Claim(h)

Fairness ==
  /\ \A h \in Handler : WF_vars(Progress(h))
  /\ WF_vars(LeaseExpires)
  /\ SF_vars(ReceiveAgain)
  /\ SF_vars(ClaimAgain)
  /\ SF_vars(\E h \in Handler : Account(h))
  /\ SF_vars(\E h \in Handler : Write(h))
  /\ SF_vars(\E h \in Handler : Book(h))
  /\ SF_vars(\E h \in Handler : Complete(h))

LiveSpec == Spec /\ Fairness

(* A claimed callback is delivered, accounted for and completed, however   *)
(* often accounting fails and handlers die in between: its lease runs out, *)
(* or its outcome is on record for the next handler. Only an outbox that   *)
(* gave the job up may keep it from being completed.                       *)
EventuallyCompleted ==
  callback.payload # Nothing ~> callback.status = "completed" \/ GivenUp

=============================================================================
