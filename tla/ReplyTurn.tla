------------------------------ MODULE ReplyTurn ------------------------------
(***************************************************************************)
(* One turn of the T0 path: a Slack event of the queue, from its delivery  *)
(* to its settlement (the `process' callback of the queue consumer in      *)
(* index.ts, executeTenantRuntimeOperation and postTenantSlackReply of     *)
(* multitenancy/production-consumer.ts, processReplyEvent of               *)
(* reply-pipeline.ts).                                                     *)
(*                                                                         *)
(* Five records decide what has been done for the event, and each is kept  *)
(* by a store of its own: the queue claim, the runtime claim of the Slack  *)
(* message, the accounting ledger, the slack_delivery claim of each effect *)
(* and the files of the workspace. A handler writes them one call after    *)
(* another; it can die between two calls, each call can fail, and the next *)
(* delivery starts from what it finds.                                     *)
(***************************************************************************)
EXTENDS Integers, Sequences

CONSTANTS
  MaxDeliveries, \* deliveries before the platform gives up (max_retries + 1)
  MaxFaults      \* bound: crashes, lapses and failed calls

VARIABLES
  kind,       \* what the event asks for
  msg,        \* the queue message
  q,          \* the queue claim
  rt,         \* the runtime claim of the Slack message
  job,        \* A0 has a reconciliation job for the runtime claim
  ledger,     \* the accounting entry of the operation
  booked,     \* receipts written to Brainbase
  own,        \* the slack_delivery claim of each effect
  posts,      \* the messages of the thread: the effect each belongs to
  completion, \* the reply completion file: its responseTs, 0 when there is none
  episode,    \* the judgment attempts, by the delivery that started them
  notice,     \* the failure notice file
  handler,    \* what the handler of each delivery is doing
  faults      \* faults so far

stores == <<q, rt, job, ledger, booked, own, posts, completion, episode, notice>>
vars   == <<kind, msg, stores, handler, faults>>

-----------------------------------------------------------------------------
(* Values. A post is named by its place in the thread, its ts.             *)

Delivery == 1..MaxDeliveries
Nobody   == 0
A0       == -1
Ts       == 0..(2 * MaxDeliveries)
Kind     == {"reply", "new", "develop", "invalid", "disabled"}
Effect   == {"reply", "notice"}
Text     == {"first", "other"}       \* the payload hash of a delivery
Code     == {"none", "audit", "retry", "final"}
Outcome  == {"none", "replied", "already", "accepted", "failed", "disabled", "watched"}

Idle == [pc |-> "off", out |-> "none", ts |-> 0, code |-> "none",
         effect |-> "reply", text |-> "first", fallback |-> FALSE]

Free == [state |-> "none", by |-> Nobody, live |-> FALSE]
Unowned == [state |-> "none", by |-> Nobody, text |-> "first", ts |-> 0]
NoEntry == [state |-> "none", out |-> "none", ts |-> 0, code |-> "none"]

Init ==
  /\ kind \in Kind
  /\ msg = [state |-> "ready", sent |-> 0]
  /\ q = Free
  /\ \/ rt = [state |-> "none", by |-> Nobody, live |-> FALSE, ts |-> 0] /\ job = FALSE
     \/ /\ rt = [state |-> "processing", by |-> A0, live |-> TRUE, ts |-> 0]
        /\ job \in BOOLEAN
  /\ ledger = NoEntry /\ booked = {}
  /\ own = [e \in Effect |-> Unowned] /\ posts = <<>>
  /\ completion = 0 /\ episode = [d \in Delivery |-> "none"] /\ notice = "none"
  /\ handler = [d \in Delivery |-> Idle]
  /\ faults = 0

-----------------------------------------------------------------------------
(* How a handler goes on. A failed call costs a fault.                     *)

At(d, pc) == handler[d].pc = pc
Set(d, h) == handler' = [handler EXCEPT ![d] = h]
Goto(d, pc) == Set(d, [handler[d] EXCEPT !.pc = pc])
Fault == faults < MaxFaults /\ faults' = faults + 1
NoFault == UNCHANGED faults

(* A step throws: the handler goes on where the error is caught, without a *)
(* result. A reply has an attempt, which is failed before the operation is *)
(* accounted for as failed; a command and a notice have none.              *)
Raise(d, code, pc) ==
  Set(d, [handler[d] EXCEPT !.pc = pc, !.code = code, !.out = "none", !.ts = 0])
Result(d, out, ts, pc) ==
  Set(d, [handler[d] EXCEPT !.pc = pc, !.out = out, !.ts = ts, !.code = "none"])
Thrown == IF kind = "reply" THEN "failed" ELSE "bookfail"

-----------------------------------------------------------------------------
(* The queue: consumeTenantQueueMessage. An alive claim is retried after   *)
(* its lease, a terminal one acknowledged.                                 *)

Settle(d, state) ==
  msg' = IF msg.sent = d THEN [msg EXCEPT !.state = state] ELSE msg
Retry(d) == Settle(d, IF d = MaxDeliveries THEN "dead" ELSE "ready")

Deliver(d) ==
  /\ msg.state = "ready" /\ d = msg.sent + 1
  /\ msg' = [state |-> "inflight", sent |-> d]
  /\ Set(d, [Idle EXCEPT !.pc = "claim"])
  /\ NoFault /\ UNCHANGED <<kind, stores>>

ClaimQueue(d) ==
  /\ At(d, "claim")
  /\ \/ /\ q.state = "none" \/ (q.state = "claimed" /\ ~q.live)
        /\ q' = [state |-> "claimed", by |-> d, live |-> TRUE]
        /\ Goto(d, "enter") /\ UNCHANGED msg
     \/ /\ q.state = "claimed" /\ q.live
        /\ Settle(d, IF d = MaxDeliveries THEN "dead" ELSE "delayed")
        /\ Set(d, Idle) /\ UNCHANGED q
     \/ /\ q.state \in {"succeeded", "failed"}
        /\ Settle(d, "acked") /\ Set(d, Idle) /\ UNCHANGED q
  /\ NoFault
  /\ UNCHANGED <<kind, rt, job, ledger, booked, own, posts, completion, episode, notice>>

(* A delayed message comes back after the lease it met: when the claim has *)
(* lapsed or is settled, or when its handler lives and has renewed it.     *)
DueWhenSettled == /\ msg.state = "delayed" /\ q.state # "claimed"
                  /\ msg' = [msg EXCEPT !.state = "ready"]
                  /\ NoFault /\ UNCHANGED <<kind, stores, handler>>
Due ==
  /\ msg.state = "delayed"
  /\ q.state = "claimed" /\ q.live => ~At(q.by, "off")
  /\ msg' = [msg EXCEPT !.state = "ready"]
  /\ NoFault /\ UNCHANGED <<kind, stores, handler>>

(* The handler ends without an error: unless its claim was taken over, the *)
(* queue claim is completed. The complete can fail like any error.         *)
QueueDone(d) ==
  /\ At(d, "qdone")
  /\ \/ /\ q.by = d /\ q.state = "claimed"
        /\ q' = [q EXCEPT !.state = "succeeded"]
        /\ Settle(d, "acked") /\ Set(d, Idle) /\ NoFault
     \/ /\ q.by # d \/ q.state # "claimed"
        /\ Settle(d, "acked") /\ Set(d, Idle) /\ NoFault /\ UNCHANGED q
     \/ Raise(d, "retry", "qfail") /\ Fault /\ UNCHANGED <<q, msg>>
  /\ UNCHANGED <<kind, rt, job, ledger, booked, own, posts, completion, episode, notice>>

(* A retryable error gives the claim back and retries, any other settles   *)
(* the event as failed; a claim taken over belongs to a newer delivery.    *)
QueueFails(d) ==
  /\ At(d, "qfail")
  /\ \/ /\ q.by # d \/ q.state # "claimed"
        /\ Settle(d, "acked") /\ NoFault /\ UNCHANGED q
     \/ /\ q.by = d /\ q.state = "claimed" /\ handler[d].code = "final"
        /\ q' = [q EXCEPT !.state = "failed"] /\ Settle(d, "acked") /\ NoFault
     \/ /\ q.by = d /\ q.state = "claimed" /\ handler[d].code # "final"
        /\ q' = Free /\ Retry(d) /\ NoFault
     \/ Fault /\ UNCHANGED <<q, msg>>  \* the call fails: the platform retries
  /\ Set(d, Idle)
  /\ UNCHANGED <<kind, rt, job, ledger, booked, own, posts, completion, episode, notice>>

-----------------------------------------------------------------------------
(* The runtime claim of the Slack message. A0 keeps its claim until it has *)
(* reconciled; a lease of fifteen minutes ends every other.                *)

WatchedByAny == TRUE
WatchedByA0 == rt.by = A0 /\ job
Enter(d) ==
  /\ At(d, "enter")
  /\ \/ /\ rt.state = "completed"
        /\ Result(d, "already", rt.ts, "qdone") /\ UNCHANGED rt
     \/ /\ rt.state = "processing" /\ rt.live
        /\ IF WatchedByA0 THEN Result(d, "watched", 0, "qdone")
                                ELSE Raise(d, "retry", "qfail")
        /\ UNCHANGED rt
     \/ /\ rt.state = "none" \/ (rt.state = "processing" /\ ~rt.live)
        /\ rt' = [state |-> "processing", by |-> d, live |-> TRUE, ts |-> 0]
        /\ Goto(d, "pending")
  /\ NoFault
  /\ UNCHANGED <<kind, msg, q, job, ledger, booked, own, posts, completion, episode, notice>>

(* A result with a responseTs completes the claim, any other releases it.  *)
(* Neither is possible with a claim taken over or no longer processing.    *)
MayRelease(d) == rt.state = "processing" /\ rt.by = d
Freed == [state |-> "none", by |-> Nobody, live |-> FALSE, ts |-> 0]
CompletedBy(d) == [state |-> "completed", by |-> d, live |-> TRUE, ts |-> handler[d].ts]
SettleRuntime(d) ==
  /\ At(d, "settle")
  /\ \/ /\ MayRelease(d) /\ handler[d].ts # 0
        /\ \/ rt' = CompletedBy(d) /\ Goto(d, "qdone") /\ NoFault
           \/ rt' \in {rt, CompletedBy(d)} /\ Raise(d, "retry", "unwind") /\ Fault
     \/ /\ MayRelease(d) /\ handler[d].ts = 0
        /\ rt' = Freed /\ Goto(d, "qdone") /\ NoFault
     \/ /\ ~MayRelease(d)
        /\ Raise(d, "retry", "unwind") /\ NoFault /\ UNCHANGED rt
  /\ UNCHANGED <<kind, msg, q, job, ledger, booked, own, posts, completion, episode, notice>>

Unwind(d) ==
  /\ At(d, "unwind")
  /\ \/ MayRelease(d) /\ rt' = Freed /\ Goto(d, "qfail") /\ NoFault
     \/ ~MayRelease(d) /\ Raise(d, "retry", "qfail") /\ NoFault /\ UNCHANGED rt
     \/ MayRelease(d) /\ Raise(d, "retry", "qfail") /\ Fault /\ UNCHANGED rt
  /\ UNCHANGED <<kind, msg, q, job, ledger, booked, own, posts, completion, episode, notice>>

(* A0 ends its reconciliation.                                             *)
A0Completes ==
  /\ rt.by = A0 /\ rt.state = "processing"
  /\ rt' = [rt EXCEPT !.state = "completed"] /\ job' = FALSE
  /\ NoFault
  /\ UNCHANGED <<kind, msg, q, ledger, booked, own, posts, completion, episode, notice, handler>>

-----------------------------------------------------------------------------
(* executeTenantRuntimeOperation. Accounting left pending by an earlier    *)
(* delivery is written first and decides the result.                       *)

Payload(h) == [out |-> h.out, ts |-> h.ts, code |-> h.code]
Entry(state, p) == [state |-> state, out |-> p.out, ts |-> p.ts, code |-> p.code]
Owed == Payload(ledger)

ReadPending(d) ==
  /\ At(d, "pending")
  /\ IF ledger.state # "pending" THEN Goto(d, "quota")
     ELSE Set(d, [handler[d] EXCEPT !.pc = "owed", !.out = ledger.out,
                                    !.ts = ledger.ts, !.code = ledger.code])
  /\ NoFault /\ UNCHANGED <<kind, msg, stores>>

Quota(d) ==
  /\ At(d, "quota")
  /\ \/ Goto(d, "body") /\ NoFault
     \/ \E code \in {"retry", "final"} : Raise(d, code, "bookfail") /\ Fault
  /\ UNCHANGED <<kind, msg, stores>>

(* The receipt of the result is persisted once: the same again goes on,    *)
(* written already there is nothing to do, another one is a conflict.      *)
Conflicts(p) == ledger.state # "none" /\ Owed # p
Book(d) ==
  LET failed == At(d, "bookfail")
      p == IF failed THEN [out |-> "none", ts |-> 0, code |-> handler[d].code]
                     ELSE Payload(handler[d])
  IN /\ At(d, "book") \/ failed
     /\ \/ /\ Conflicts(p)
           /\ Raise(d, "final", "unwind") /\ UNCHANGED ledger
        \/ /\ ~Conflicts(p) /\ ledger.state = "written"
           /\ Goto(d, IF failed THEN "unwind" ELSE "settle") /\ UNCHANGED ledger
        \/ /\ ~Conflicts(p) /\ ledger.state # "written"
           /\ ledger' = Entry("pending", p) /\ Goto(d, "write")
     /\ NoFault
     /\ UNCHANGED <<kind, msg, q, rt, job, booked, own, posts, completion, episode, notice>>

(* The external write and the completion of the entry. The write can reach *)
(* Brainbase although the call fails, and the entry can be complete by the *)
(* time. An error of this delivery is thrown as it was, an error owed from *)
(* an earlier one as its code: only UPSTREAM_UNAVAILABLE is retried then.  *)
Owing(code) == CASE code = "retry" -> {"retry", "final"}
                 [] code = "audit" -> {"final"}
                 [] OTHER          -> {code}
Dropped(p) == NoEntry
Misnamed(p) == Entry("done", p)
Written(p) == Entry("written", p)
Write(d) ==
  LET p == Payload(handler[d])
  IN /\ At(d, "write") \/ At(d, "owed")
     /\ \/ /\ ledger.state = "pending"
           /\ booked' = booked \cup {p} /\ ledger' = Written(p) /\ NoFault
           /\ IF p.code = "none" THEN Goto(d, "settle")
              ELSE \E code \in IF At(d, "owed") THEN Owing(p.code) ELSE {p.code} :
                     Raise(d, code, "unwind")
        \/ /\ ledger.state = "written"
           /\ booked' = booked \cup {p} /\ UNCHANGED ledger
           /\ Raise(d, "final", "unwind") /\ NoFault
        \/ /\ booked' \in {booked, booked \cup {p}}
           /\ Raise(d, "retry", "unwind") /\ Fault /\ UNCHANGED ledger
     /\ UNCHANGED <<kind, msg, q, rt, job, own, posts, completion, episode, notice>>

-----------------------------------------------------------------------------
(* The body: what the event asks for. A completion file answers a command  *)
(* and a reply, not the notice of an invalid command.                      *)

Answer(d) == Set(d, [handler[d] EXCEPT !.pc = "own"])
Body(d) ==
  /\ At(d, "body")
  /\ \/ /\ kind # "invalid" /\ completion # 0
        /\ Result(d, IF kind = "disabled" THEN "disabled" ELSE "already", completion, "book")
     \/ /\ kind \in {"invalid", "disabled", "develop"}
        /\ kind # "invalid" => completion = 0
        /\ Answer(d)
     \/ /\ kind = "new" /\ completion = 0  \* a command applied before answers differently
        /\ Set(d, [handler[d] EXCEPT !.pc = "own",
                     !.text = IF \E p \in Delivery : p < d /\ episode[p] # "none"
                              THEN "other" ELSE "first"])
     \/ /\ kind = "reply" /\ completion = 0
        /\ \E p \in Delivery : episode[p] = "completed"
        /\ Result(d, "already", 0, "book")
     \/ /\ kind = "reply" /\ completion = 0
        /\ \A p \in Delivery : episode[p] # "completed"
        /\ IF notice = "none" THEN Goto(d, "attempt")
           ELSE Set(d, [handler[d] EXCEPT !.pc = "own", !.effect = "notice", !.text = "other"])
  /\ episode' = IF kind = "new" /\ completion = 0
                THEN [episode EXCEPT ![d] = "applied"] ELSE episode
  /\ NoFault
  /\ UNCHANGED <<kind, msg, q, rt, job, ledger, booked, own, posts, completion, notice>>

StartAttempt(d) ==
  /\ At(d, "attempt")
  /\ episode' = [episode EXCEPT ![d] = "started"] /\ Goto(d, "generate")
  /\ NoFault
  /\ UNCHANGED <<kind, msg, q, rt, job, ledger, booked, own, posts, completion, notice>>

(* The model answers with some text, fails its audit, or fails.            *)
Generate(d) ==
  /\ At(d, "generate")
  /\ \/ \E text \in Text :
          Set(d, [handler[d] EXCEPT !.pc = "audit", !.text = text]) /\ NoFault
     \/ Raise(d, "audit", "failed") /\ Fault
     \/ Raise(d, "retry", "failed") /\ Fault
  /\ UNCHANGED <<kind, msg, stores>>

Audit(d) ==
  /\ At(d, "audit") /\ episode[d] = "started"
  /\ episode' = [episode EXCEPT ![d] = "audited"] /\ Goto(d, "own")
  /\ NoFault
  /\ UNCHANGED <<kind, msg, q, rt, job, ledger, booked, own, posts, completion, notice>>

(* The attempt is marked failed unless completed; a failed audit is told   *)
(* to the user with a fixed notice, sent with the hydrated event.          *)
FailAttempt(d) ==
  /\ At(d, "failed")
  /\ episode' = IF episode[d] = "completed" THEN episode
                ELSE [episode EXCEPT ![d] = "failed"]
  /\ IF handler[d].code = "audit"
     THEN IF notice = "sent"
          THEN Result(d, "failed", own["notice"].ts, "book") /\ UNCHANGED notice
          ELSE /\ notice' = "pending"
               /\ Set(d, [handler[d] EXCEPT !.pc = "own", !.effect = "notice",
                                            !.text = "first", !.fallback = TRUE])
     ELSE Goto(d, "bookfail") /\ UNCHANGED notice
  /\ NoFault
  /\ UNCHANGED <<kind, msg, q, rt, job, ledger, booked, own, posts, completion>>

-----------------------------------------------------------------------------
(* postTenantSlackReply. An effect is owned before it is posted and        *)
(* confirmed after; a post that throws gives the claim back.               *)

(* What the body throws: a notice that stands in for a failed audit keeps  *)
(* the error of the audit.                                                 *)
Undelivered(d, code) ==
  IF handler[d].fallback THEN Raise(d, "audit", "bookfail")
  ELSE Raise(d, code, IF handler[d].effect = "reply" THEN Thrown ELSE "bookfail")
Delivered(d, ts) ==
  Set(d, [handler[d] EXCEPT !.ts = ts, !.code = "none",
            !.pc = CASE handler[d].effect = "notice" -> "noted"
                     [] kind = "reply" /\ handler[d].effect = "reply" -> "complete"
                     [] OTHER -> "persist"])

Ours(d) == own[handler[d].effect]
Unconfirmed(d) == Ours(d).state # "succeeded"
Ownable(d) == Ours(d).state = "none"
Own(d) ==
  /\ At(d, "own")
  /\ \/ /\ Ownable(d)
        /\ own' = [own EXCEPT ![handler[d].effect] =
                     [state |-> "claimed", by |-> d, text |-> handler[d].text, ts |-> 0]]
        /\ Goto(d, "post") /\ NoFault
     \/ /\ Ours(d).state = "succeeded" /\ Ours(d).text = handler[d].text
        /\ Delivered(d, Ours(d).ts) /\ NoFault /\ UNCHANGED own
     \/ /\ Ours(d).state # "none"
        /\ Ours(d).text # handler[d].text \/ Ours(d).state = "claimed"
        /\ Undelivered(d, "final") /\ NoFault /\ UNCHANGED own
     \/ Undelivered(d, "retry") /\ Fault /\ UNCHANGED own
  /\ UNCHANGED <<kind, msg, q, rt, job, ledger, booked, posts, completion, episode, notice>>

(* Slack posts, rejects, or posts although the call fails.                 *)
Post(d) ==
  /\ At(d, "post")
  /\ \/ /\ posts' = Append(posts, handler[d].effect)
        /\ Set(d, [handler[d] EXCEPT !.pc = "confirm", !.ts = Len(posts) + 1]) /\ NoFault
     \/ /\ posts' \in {posts, Append(posts, handler[d].effect)}
        /\ Goto(d, "disown") /\ Fault
  /\ UNCHANGED <<kind, msg, q, rt, job, ledger, booked, own, completion, episode, notice>>

(* The token of the claim is checked; nothing takes an open claim over.    *)
Unnamed(d) == [own EXCEPT ![handler[d].effect] = [@ EXCEPT !.state = "succeeded"]]
Confirmed(d) == [own EXCEPT ![handler[d].effect] =
                   [@ EXCEPT !.state = "succeeded", !.ts = handler[d].ts]]
Confirm(d) ==
  /\ At(d, "confirm")
  /\ \/ Ours(d).by = d /\ own' = Confirmed(d) /\ Delivered(d, handler[d].ts) /\ NoFault
     \/ Ours(d).by = d /\ own' \in {own, Confirmed(d)} /\ Goto(d, "disown") /\ Fault
  /\ UNCHANGED <<kind, msg, q, rt, job, ledger, booked, posts, completion, episode, notice>>

(* Only a claim that is still open is deleted; the release can fail too.   *)
Deleted(d) == [own EXCEPT ![handler[d].effect] = Unowned]
Disowned(d) == IF Ours(d).state = "claimed" /\ Ours(d).by = d
               THEN [own EXCEPT ![handler[d].effect] = Unowned] ELSE own
Disown(d) ==
  /\ At(d, "disown")
  /\ \/ own' = Disowned(d) /\ NoFault
     \/ own' = own /\ Fault
  /\ Undelivered(d, "retry")
  /\ UNCHANGED <<kind, msg, q, rt, job, ledger, booked, posts, completion, episode, notice>>

(* The notice is recorded as sent, or stays pending although it is.        *)
Noted(d) ==
  /\ At(d, "noted")
  /\ \/ notice' = "sent" /\ NoFault
     \/ UNCHANGED notice /\ Fault
  /\ Result(d, "failed", handler[d].ts, "book")
  /\ UNCHANGED <<kind, msg, q, rt, job, ledger, booked, own, posts, completion, episode>>

(* The attempt of a reply is completed, then the completion is persisted.  *)
Complete(d) ==
  /\ At(d, "complete")
  /\ \/ /\ episode' = [episode EXCEPT ![d] = "completed"]
        /\ Goto(d, "persist") /\ NoFault
     \/ Raise(d, "retry", "failed") /\ Fault /\ UNCHANGED episode
  /\ UNCHANGED <<kind, msg, q, rt, job, ledger, booked, own, posts, completion, notice>>

Persist(d) ==
  /\ At(d, "persist")
  /\ \/ /\ completion' = handler[d].ts
        /\ CASE kind = "develop"  -> Result(d, "accepted", handler[d].ts, "settle")
             [] kind = "disabled" -> Result(d, "disabled", handler[d].ts, "book")
             [] OTHER             -> Result(d, "replied", handler[d].ts, "book")
        /\ NoFault
     \/ Raise(d, "retry", Thrown) /\ Fault /\ UNCHANGED completion
  /\ UNCHANGED <<kind, msg, q, rt, job, ledger, booked, own, posts, episode, notice>>

-----------------------------------------------------------------------------
(* Faults of the environment: a handler dies (its lease is no longer       *)
(* renewed), a lease ends under a handler that still runs, a runtime lease *)
(* of a handler ends, a message is delivered again.                        *)

Crash(d) ==
  /\ ~At(d, "off") /\ Fault /\ Set(d, Idle)
  /\ UNCHANGED <<kind, msg, stores>>

Lapse ==
  /\ q.state = "claimed" /\ q.live
  /\ q' = [q EXCEPT !.live = FALSE]
  /\ IF At(q.by, "off") THEN NoFault ELSE Fault
  /\ UNCHANGED <<kind, msg, rt, job, ledger, booked, own, posts, completion, episode,
                 notice, handler>>

Expire ==
  /\ rt.state = "processing" /\ rt.live /\ rt.by # A0
  /\ rt' = [rt EXCEPT !.live = FALSE]
  /\ IF At(rt.by, "off") THEN NoFault ELSE Fault
  /\ UNCHANGED <<kind, msg, q, job, ledger, booked, own, posts, completion, episode,
                 notice, handler>>

Redeliver ==
  /\ msg.state = "inflight"
  /\ msg' = [msg EXCEPT !.state = IF msg.sent = MaxDeliveries THEN "dead" ELSE "ready"]
  /\ IF At(msg.sent, "off") THEN NoFault ELSE Fault
  /\ UNCHANGED <<kind, stores, handler>>

-----------------------------------------------------------------------------
Step(d) ==
  \/ ClaimQueue(d) \/ QueueDone(d) \/ QueueFails(d)
  \/ Enter(d) \/ SettleRuntime(d) \/ Unwind(d)
  \/ ReadPending(d) \/ Quota(d) \/ Book(d) \/ Write(d)
  \/ Body(d) \/ StartAttempt(d) \/ Generate(d) \/ Audit(d) \/ FailAttempt(d)
  \/ Own(d) \/ Post(d) \/ Confirm(d) \/ Disown(d) \/ Noted(d)
  \/ Complete(d) \/ Persist(d)

Next ==
  \/ \E d \in Delivery : Deliver(d) \/ Step(d) \/ Crash(d)
  \/ Due \/ A0Completes \/ Lapse \/ Expire \/ Redeliver

Spec == Init /\ [][Next]_vars

(* The runtime runs a handler that lives to its end, the platform delivers *)
(* what is ready and what its handler dropped, and a lease ends in time.   *)
Works == \E d \in Delivery : Step(d)
Delivers == (\E d \in Delivery : Deliver(d)) \/ (Redeliver /\ At(msg.sent, "off"))
Waits == Due \/ (Lapse /\ At(q.by, "off"))
Fairness == WF_vars(Works) /\ WF_vars(Delivers) /\ WF_vars(Waits)
FairSpec == Spec /\ Fairness

-----------------------------------------------------------------------------
(* Every variable holds a value of its kind.                               *)
TypeOK ==
  /\ kind \in Kind
  /\ msg \in [state : {"ready", "inflight", "delayed", "acked", "dead"}, sent : 0..MaxDeliveries]
  /\ q \in [state : {"none", "claimed", "succeeded", "failed"}, by : 0..MaxDeliveries,
            live : BOOLEAN]
  /\ rt \in [state : {"none", "processing", "completed"}, by : -1..MaxDeliveries,
             live : BOOLEAN, ts : Ts]
  /\ job \in BOOLEAN
  /\ ledger \in [state : {"none", "pending", "written"}, out : Outcome, ts : Ts, code : Code]
  /\ booked \subseteq [out : Outcome, ts : Ts, code : Code]
  /\ own \in [Effect -> [state : {"none", "claimed", "succeeded"}, by : 0..MaxDeliveries,
                         text : Text, ts : Ts]]
  /\ posts \in Seq(Effect) /\ Len(posts) \in Ts
  /\ completion \in Ts
  /\ episode \in [Delivery -> {"none", "applied", "started", "audited", "completed", "failed"}]
  /\ notice \in {"none", "pending", "sent"}
  /\ \A d \in Delivery : handler[d].out \in Outcome /\ handler[d].ts \in Ts
                         /\ handler[d].code \in Code
  /\ faults \in 0..MaxFaults

Told(ts) == \E e \in Effect : own[e].state = "succeeded" /\ own[e].ts = ts

(* Once a message of an effect is confirmed, no delivery posts that effect *)
(* again: neither a retry, nor a handler that lost its claims and still    *)
(* runs (index.ts:5606, production-consumer.ts:445).                       *)
ConfirmedReplyIsLast ==
  [][\A e \in Effect :
       (own[e].state = "succeeded" /\ posts' # posts) => posts'[Len(posts')] # e]_vars

(* What the workspace, the runtime claim and Brainbase record as the reply *)
(* is a message that was confirmed, although each record is written by a   *)
(* different call and some of them by different deliveries.                *)
RecordsAgree ==
  /\ completion # 0 => (own["reply"].state = "succeeded" /\ own["reply"].ts = completion)
  /\ rt.state = "completed" /\ rt.by # A0 => Told(rt.ts)
  /\ \A p \in booked : p.ts # 0 => Told(p.ts)

(* The event is settled as succeeded only when the user was told something *)
(* or A0 answers for the message (index.ts consumer, processReplyEvent).   *)
SucceededIsAnswered ==
  q.state = "succeeded" => (rt.by = A0 \/ \E e \in Effect : own[e].state = "succeeded")

(* Brainbase is told one receipt for the operation, however many           *)
(* deliveries account for it (persistTenantAccounting).                    *)
BookedOnce == \A a, b \in booked : a = b

(* What is settled stays as it is: a confirmed effect, a completed runtime *)
(* claim, a written entry and a terminal queue claim survive the error     *)
(* paths of every later delivery and of the one whose answer got lost.     *)
SettledIsFinal ==
  [][/\ \A e \in Effect : own[e].state = "succeeded" => own'[e] = own[e]
     /\ rt.state = "completed" => rt' = rt
     /\ ledger.state = "written" => ledger' = ledger
     /\ q.state \in {"succeeded", "failed"} => q' = q]_vars

(* The message is acknowledged or given up: no order of failures leaves it *)
(* undecided (consumeTenantQueueMessage).                                  *)
EventuallySettled == <>(msg.state \in {"acked", "dead"})
=============================================================================
