--------------------------- MODULE RepliesProofs ---------------------------
(***************************************************************************)
(* Theorems about the parts that RepliesMC puts side by side, for every    *)
(* value of their constants.                                               *)
(*                                                                         *)
(* Reply turn: for any number of deliveries and faults of one message.     *)
(* Agreed is the inductive invariant: what each store says of the others   *)
(* (StoresAgree), what a delivery at each step has reached                 *)
(* (HandlerIsSound), and that there are no more posts than deliveries      *)
(* (PostsAreCounted), so every post has a timestamp of its own.            *)
(*                                                                         *)
(* Reply container: for any lifetime of a context, refresh time, budget    *)
(* and number of revisions.  Confined is the inductive invariant: how      *)
(* often the process was started by the step its execution is at           *)
(* (RunIsSound), and who holds a context and who may still ask for one     *)
(* (WorkerIsSound, ObjectIsSound).                                         *)
(***************************************************************************)
EXTENDS RepliesMC, FiniteSetTheorems, SequenceTheorems, TLAPS

-----------------------------------------------------------------------------
(* The turn.                                                               *)

(* Deliveries and faults are counted.                                      *)
TurnConstants == MaxDeliveries \in Nat /\ MaxFaults \in Nat

(* The steps of a delivery, and what every store and delivery can hold.    *)
Steps == {"off", "claim", "enter", "pending", "quota", "body", "attempt", "generate", "audit", "own", "post", "confirm",
          "disown", "complete", "persist", "noted", "failed", "bookfail", "book", "write", "owed", "settle", "unwind",
          "qdone", "qfail"}
Handlers == [pc : Steps, out : Turn!Outcome, ts : Turn!Ts, code : Turn!Code, effect : Turn!Effect, text : Turn!Text, fallback : BOOLEAN]
Messages == [state : {"ready", "inflight", "delayed", "acked", "dead"}, sent : 0..MaxDeliveries]
QueueClaims == [state : {"none", "claimed", "succeeded", "failed"}, by : 0..MaxDeliveries, live : BOOLEAN]
RuntimeClaims == [state : {"none", "processing", "completed"}, by : -1..MaxDeliveries, live : BOOLEAN, ts : Turn!Ts]
Entries == [state : {"none", "pending", "written"}, out : Turn!Outcome, ts : Turn!Ts, code : Turn!Code]
Receipts == [out : Turn!Outcome, ts : Turn!Ts, code : Turn!Code]
Owners == [state : {"none", "claimed", "succeeded"}, by : 0..MaxDeliveries, text : Turn!Text, ts : Turn!Ts]
Attempts == {"none", "applied", "started", "audited", "completed", "failed"}

TurnTypes ==
  /\ kind \in Turn!Kind /\ msg \in Messages /\ q \in QueueClaims /\ rt \in RuntimeClaims /\ job \in BOOLEAN
  /\ ledger \in Entries /\ booked \subseteq Receipts /\ own \in [Turn!Effect -> Owners]
  /\ posts \in Seq(Turn!Effect) /\ completion \in Turn!Ts /\ episode \in [Turn!Delivery -> Attempts]
  /\ notice \in {"none", "pending", "sent"} /\ handler \in [Turn!Delivery -> Handlers] /\ faults \in 0..MaxFaults

(* A delivery that may still post, or be told to: each was counted when    *)
(* the message was delivered, so the posts never outnumber the timestamps. *)
Early == {"claim", "enter", "pending", "quota", "body", "attempt", "generate", "audit", "own", "post"}
MayPost == {d \in Turn!Delivery : handler[d].pc \in Early \/ (handler[d].pc = "failed" /\ handler[d].code = "audit")}
PostsAreCounted ==
  /\ Len(posts) + Cardinality(MayPost) <= msg.sent
  /\ \A d \in Turn!Delivery : d > msg.sent => handler[d].pc = "off"

(* What a delivery does to the handlers: only its own moves.               *)
Others(d) == handler' \in [Turn!Delivery -> Handlers] /\ \A x \in Turn!Delivery : x # d => handler'[x] = handler[x]

(* The resting values are of their types.                                  *)
LEMMA Values ==
  ASSUME TurnConstants
  PROVE  /\ Turn!Idle \in Handlers /\ Turn!Free \in QueueClaims /\ Turn!Unowned \in Owners /\ Turn!NoEntry \in Entries /\ Turn!Freed \in RuntimeClaims
         /\ [Turn!Idle EXCEPT !.pc = "claim"] \in Handlers
         /\ 0 \in Turn!Ts /\ Turn!Ts \subseteq Nat /\ Turn!Delivery \subseteq Nat
<1>1. 0 \in Turn!Ts /\ Turn!Ts \subseteq Nat /\ Turn!Delivery \subseteq Nat
  BY DEF Turn!Ts, Turn!Delivery, TurnConstants
<1>2. 0 \in 0..MaxDeliveries /\ 0 \in -1..MaxDeliveries
  BY DEF TurnConstants
<1>3. Turn!Idle \in Handlers /\ [Turn!Idle EXCEPT !.pc = "claim"] \in Handlers
  BY <1>1 DEF Turn!Idle, Handlers, Turn!Outcome, Turn!Code, Turn!Effect, Turn!Text, Steps
<1>4. Turn!Free \in QueueClaims /\ Turn!Unowned \in Owners /\ Turn!NoEntry \in Entries /\ Turn!Freed \in RuntimeClaims
  BY <1>1, <1>2 DEF Turn!Free, Turn!Unowned, Turn!NoEntry, Turn!Freed, QueueClaims, Owners, Entries,
     RuntimeClaims, Turn!Outcome, Turn!Code, Turn!Text, Turn!Nobody
<1>5. QED
  BY <1>1, <1>3, <1>4

(* How the handler of a delivery moves on: by Set, Goto, Raise, Result,    *)
(* after a reply that was not delivered, and after one that was.           *)
LEMMA Setting ==
  ASSUME TurnTypes, NEW d \in Turn!Delivery, NEW h \in Handlers, Turn!Set(d, h)
  PROVE  handler'[d] = h /\ Others(d)
BY DEF TurnTypes, Turn!Set, Others

LEMMA Going ==
  ASSUME TurnTypes, NEW d \in Turn!Delivery, NEW s \in Steps, Turn!Goto(d, s)
  PROVE  /\ Others(d) /\ handler'[d].pc = s /\ handler'[d].out = handler[d].out /\ handler'[d].ts = handler[d].ts
         /\ handler'[d].code = handler[d].code /\ handler'[d].effect = handler[d].effect
         /\ handler'[d].text = handler[d].text /\ handler'[d].fallback = handler[d].fallback
<1>1. [handler[d] EXCEPT !.pc = s] \in Handlers
  BY DEF TurnTypes, Handlers
<1>2. QED
  BY <1>1, Setting DEF Turn!Goto, TurnTypes, Handlers

LEMMA Raising ==
  ASSUME TurnConstants, TurnTypes, NEW d \in Turn!Delivery, NEW s \in Steps, NEW c \in Turn!Code,
         Turn!Raise(d, c, s)
  PROVE  /\ Others(d) /\ handler'[d].pc = s /\ handler'[d].out = "none" /\ handler'[d].ts = 0
         /\ handler'[d].code = c /\ handler'[d].effect = handler[d].effect
         /\ handler'[d].text = handler[d].text /\ handler'[d].fallback = handler[d].fallback
<1>1. [handler[d] EXCEPT !.pc = s, !.code = c, !.out = "none", !.ts = 0] \in Handlers
  BY Values DEF TurnTypes, Handlers, Turn!Outcome
<1>2. handler'[d] = [handler[d] EXCEPT !.pc = s, !.code = c, !.out = "none", !.ts = 0] /\ Others(d)
  BY <1>1, Setting DEF Turn!Raise
<1>3. handler[d] \in Handlers
  BY DEF TurnTypes
<1>4. QED
  BY <1>2, <1>3 DEF Handlers

LEMMA Resulting ==
  ASSUME TurnConstants, TurnTypes, NEW d \in Turn!Delivery, NEW s \in Steps, NEW o \in Turn!Outcome,
         NEW t \in Turn!Ts, Turn!Result(d, o, t, s)
  PROVE  /\ Others(d) /\ handler'[d].pc = s /\ handler'[d].out = o /\ handler'[d].ts = t
         /\ handler'[d].code = "none" /\ handler'[d].effect = handler[d].effect
         /\ handler'[d].text = handler[d].text /\ handler'[d].fallback = handler[d].fallback
<1>1. [handler[d] EXCEPT !.pc = s, !.out = o, !.ts = t, !.code = "none"] \in Handlers
  BY DEF TurnTypes, Handlers, Turn!Code
<1>2. handler'[d] = [handler[d] EXCEPT !.pc = s, !.out = o, !.ts = t, !.code = "none"] /\ Others(d)
  BY <1>1, Setting DEF Turn!Result
<1>3. handler[d] \in Handlers
  BY DEF TurnTypes
<1>4. QED
  BY <1>2, <1>3 DEF Handlers

LEMMA Undelivering ==
  ASSUME TurnConstants, TurnTypes, NEW d \in Turn!Delivery, NEW c \in {"retry", "final"}, Turn!Undelivered(d, c)
  PROVE  /\ Others(d) /\ handler'[d].pc \in {"failed", "bookfail"} /\ handler'[d].out = "none" /\ handler'[d].ts = 0
         /\ handler'[d].code \in {c, "audit"} /\ (handler'[d].pc = "failed" => handler'[d].code = c)
         /\ handler'[d].effect = handler[d].effect
<1>1. CASE handler[d].fallback
  <2>1. Turn!Raise(d, "audit", "bookfail")
    BY <1>1 DEF Turn!Undelivered
  <2>2. QED
    BY <2>1, Raising DEF Turn!Code, Steps
<1>2. CASE ~handler[d].fallback
  <2>1. Turn!Raise(d, c, "bookfail") \/ Turn!Raise(d, c, "failed")
    BY <1>2 DEF Turn!Undelivered, Turn!Thrown
  <2>2. QED
    BY <2>1, Raising DEF Turn!Code, Steps
<1>3. QED
  BY <1>1, <1>2

LEMMA Delivering ==
  ASSUME TurnConstants, TurnTypes, NEW d \in Turn!Delivery, NEW t \in Turn!Ts, Turn!Delivered(d, t)
  PROVE  /\ Others(d) /\ handler'[d].ts = t /\ handler'[d].code = "none" /\ handler'[d].out = handler[d].out
         /\ handler'[d].effect = handler[d].effect
         /\ \/ handler[d].effect = "notice" /\ handler'[d].pc = "noted"
            \/ handler[d].effect = "reply" /\ handler'[d].pc \in {"complete", "persist"}
<1>1. PICK s \in {"noted", "complete", "persist"} :
        /\ Turn!Set(d, [handler[d] EXCEPT !.ts = t, !.code = "none", !.pc = s])
        /\ \/ handler[d].effect = "notice" /\ s = "noted"
           \/ handler[d].effect = "reply" /\ s \in {"complete", "persist"}
  <2>1. handler[d].effect \in {"reply", "notice"}
    BY DEF TurnTypes, Handlers, Turn!Effect
  <2>2. CASE handler[d].effect = "notice"
    BY <2>2 DEF Turn!Delivered
  <2>3. CASE handler[d].effect = "reply" /\ kind = "reply"
    BY <2>3 DEF Turn!Delivered
  <2>4. CASE handler[d].effect = "reply" /\ kind # "reply"
    BY <2>4 DEF Turn!Delivered
  <2>5. QED
    BY <2>1, <2>2, <2>3, <2>4
<1>2. [handler[d] EXCEPT !.ts = t, !.code = "none", !.pc = s] \in Handlers
  BY DEF TurnTypes, Handlers, Turn!Code, Steps
<1>3. handler'[d] = [handler[d] EXCEPT !.ts = t, !.code = "none", !.pc = s] /\ Others(d)
  BY <1>1, <1>2, Setting
<1>4. handler[d] \in Handlers
  BY DEF TurnTypes
<1>5. QED
  BY <1>1, <1>3, <1>4 DEF Handlers

(* Faults are counted up to their bound.                                   *)
LEMMA Faults ==
  ASSUME TurnConstants, TurnTypes
  PROVE  (Turn!Fault => faults' \in 0..MaxFaults) /\ (Turn!NoFault => faults' \in 0..MaxFaults)
BY DEF TurnConstants, TurnTypes, Turn!Fault, Turn!NoFault

(* A delivery that posts was counted: there is a timestamp left for it.    *)
LEMMA Posting ==
  ASSUME TurnConstants, TurnTypes, PostsAreCounted, NEW d \in Turn!Delivery, Turn!At(d, "post")
  PROVE  /\ IsFiniteSet(MayPost) /\ d \in MayPost /\ Cardinality(MayPost \ {d}) = Cardinality(MayPost) - 1
         /\ Len(posts) \in Nat /\ Cardinality(MayPost \ {d}) \in Nat /\ Len(posts) + 1 \in Turn!Ts
<1>1. IsFiniteSet(MayPost)
  <2>1. IsFiniteSet(Turn!Delivery)
    BY FS_Interval DEF Turn!Delivery, TurnConstants
  <2>2. QED
    BY <2>1, FS_Subset DEF MayPost
<1>2. d \in MayPost
  BY DEF MayPost, Turn!At, Early
<1>3. Cardinality(MayPost \ {d}) = Cardinality(MayPost) - 1 /\ IsFiniteSet(MayPost \ {d})
  BY <1>1, <1>2, FS_RemoveElement
<1>4. Cardinality(MayPost) \in Nat /\ Cardinality(MayPost \ {d}) \in Nat /\ Len(posts) \in Nat
  BY <1>1, <1>3, FS_CardinalityType, LenProperties DEF TurnTypes
<1>5. msg.sent \in 0..MaxDeliveries
  BY DEF TurnTypes, Messages
<1>6. QED
  BY <1>1, <1>2, <1>3, <1>4, <1>5 DEF PostsAreCounted, Turn!Ts, TurnConstants

(* Every step keeps the types, and moves no handler but its own: the queue *)
(* claim and the message, the runtime claim, the accounting, the turn,     *)
(* Slack, and the world around them.                                       *)
LEMMA QueueKeepsTypes ==
  ASSUME TurnConstants, TurnTypes, NEW d \in Turn!Delivery,
         Turn!Deliver(d) \/ Turn!ClaimQueue(d) \/ Turn!QueueDone(d) \/ Turn!QueueFails(d) \/ Turn!Crash(d)
  PROVE  TurnTypes' /\ Others(d)
<1> USE Faults, Values DEF TurnTypes
<1>0. /\ \A s \in {"ready", "acked", "dead", "delayed"} : Turn!Settle(d, s) => msg' \in Messages
      /\ Turn!Retry(d) => msg' \in Messages
  BY DEF Turn!Settle, Turn!Retry, Messages
<1>1. d \in 0..MaxDeliveries /\ q.by \in 0..MaxDeliveries
  BY DEF Turn!Delivery, QueueClaims, TurnConstants
<1>2. CASE Turn!Deliver(d)
  <2>1. msg' \in Messages
    BY <1>1, <1>2 DEF Turn!Deliver, Messages
  <2>2. QED
    BY <1>2, <2>1, Setting DEF Turn!Deliver, Turn!stores, Others
<1>3. CASE Turn!ClaimQueue(d)
  <2>1. Others(d)
    BY <1>3, Setting, Going DEF Turn!ClaimQueue, Steps
  <2>2. msg' \in Messages
    BY <1>0, <1>3 DEF Turn!ClaimQueue
  <2>3. q' \in QueueClaims
    <3>1. [state |-> "claimed", by |-> d, live |-> TRUE] \in QueueClaims
      BY <1>1 DEF QueueClaims
    <3>2. QED
      BY <1>3, <3>1 DEF Turn!ClaimQueue
  <2>4. QED
    BY <1>3, <2>1, <2>2, <2>3 DEF Turn!ClaimQueue, Others
<1>4. CASE Turn!QueueDone(d)
  <2>1. Others(d)
    BY <1>4, Setting, Raising DEF Turn!QueueDone, Steps, Turn!Code
  <2>2. msg' \in Messages
    BY <1>0, <1>4 DEF Turn!QueueDone
  <2>3. q' \in QueueClaims
    BY <1>1, <1>4 DEF Turn!QueueDone, QueueClaims
  <2>4. QED
    BY <1>4, <2>1, <2>2, <2>3 DEF Turn!QueueDone, Others
<1>5. CASE Turn!QueueFails(d)
  <2>1. Others(d)
    BY <1>5, Setting DEF Turn!QueueFails
  <2>2. msg' \in Messages
    BY <1>0, <1>5 DEF Turn!QueueFails
  <2>3. q' \in QueueClaims
    BY <1>1, <1>5 DEF Turn!QueueFails, QueueClaims
  <2>4. QED
    BY <1>5, <2>1, <2>2, <2>3 DEF Turn!QueueFails, Others
<1>6. CASE Turn!Crash(d)
  BY <1>6, Setting DEF Turn!Crash, Turn!stores, Others
<1>7. QED
  BY <1>2, <1>3, <1>4, <1>5, <1>6

LEMMA RuntimeKeepsTypes ==
  ASSUME TurnConstants, TurnTypes, NEW d \in Turn!Delivery,
         Turn!Enter(d) \/ Turn!SettleRuntime(d) \/ Turn!Unwind(d)
  PROVE  TurnTypes' /\ Others(d)
<1> USE Faults, Values DEF TurnTypes
<1>1. d \in -1..MaxDeliveries /\ rt.ts \in Turn!Ts
  BY DEF Turn!Delivery, RuntimeClaims, TurnConstants
<1>2. CASE Turn!Enter(d)
  <2>1. Others(d)
    <3>1. \A o \in {"already", "watched"}, t \in Turn!Ts : Turn!Result(d, o, t, "qdone") => Others(d)
      BY Resulting DEF Turn!Outcome, Steps
    <3>2. (Turn!Raise(d, "retry", "qfail") => Others(d)) /\ (Turn!Goto(d, "pending") => Others(d))
      BY Raising, Going DEF Turn!Code, Steps
    <3>3. QED
      BY <1>1, <1>2, <3>1, <3>2 DEF Turn!Enter
  <2>2. rt' \in RuntimeClaims
    <3>1. [state |-> "processing", by |-> d, live |-> TRUE, ts |-> 0] \in RuntimeClaims
      BY <1>1 DEF RuntimeClaims
    <3>2. QED
      BY <1>2, <3>1 DEF Turn!Enter
  <2>3. QED
    BY <1>2, <2>1, <2>2 DEF Turn!Enter, Others
<1>3. CASE Turn!SettleRuntime(d)
  <2>1. Others(d)
    BY <1>3, Going, Raising DEF Turn!SettleRuntime, Steps, Turn!Code
  <2>2. Turn!CompletedBy(d) \in RuntimeClaims
    BY <1>1 DEF Turn!CompletedBy, RuntimeClaims, Handlers
  <2>3. QED
    BY <1>3, <2>1, <2>2 DEF Turn!SettleRuntime, Others
<1>4. CASE Turn!Unwind(d)
  <2>1. Others(d)
    BY <1>4, Going, Raising DEF Turn!Unwind, Steps, Turn!Code
  <2>2. QED
    BY <1>4, <2>1 DEF Turn!Unwind, Others
<1>5. QED
  BY <1>2, <1>3, <1>4

(* What a handler books is a receipt.                                      *)
LEMMA Receipt ==
  ASSUME TurnTypes, NEW d \in Turn!Delivery
  PROVE  Turn!Payload(handler[d]) \in Receipts /\ Turn!Owed \in Receipts /\ handler[d] \in Handlers
BY DEF TurnTypes, Turn!Payload, Turn!Owed, Receipts, Handlers, Entries

LEMMA AccountingKeepsTypes ==
  ASSUME TurnConstants, TurnTypes, NEW d \in Turn!Delivery,
         Turn!ReadPending(d) \/ Turn!Quota(d) \/ Turn!Book(d) \/ Turn!Write(d)
  PROVE  TurnTypes' /\ Others(d)
<1> USE Faults, Values DEF TurnTypes
<1>1. CASE Turn!ReadPending(d)
  <2>1. [handler[d] EXCEPT !.pc = "owed", !.out = ledger.out, !.ts = ledger.ts, !.code = ledger.code] \in Handlers
    BY DEF Handlers, Entries, Steps
  <2>2. Others(d)
    BY <1>1, <2>1, Setting, Going DEF Turn!ReadPending, Steps
  <2>3. QED
    BY <1>1, <2>2 DEF Turn!ReadPending, Turn!stores, Others
<1>2. CASE Turn!Quota(d)
  <2>1. Others(d)
    BY <1>2, Going, Raising DEF Turn!Quota, Steps, Turn!Code
  <2>2. QED
    BY <1>2, <2>1 DEF Turn!Quota, Turn!stores, Others
<1>3. CASE Turn!Book(d)
  <2>1. Others(d)
    BY <1>3, Going, Raising DEF Turn!Book, Steps, Turn!Code
  <2>2. [out |-> "none", ts |-> 0, code |-> handler[d].code] \in Receipts
    BY DEF Receipts, Handlers, Turn!Outcome
  <2>3. \A p \in Receipts : Turn!Entry("pending", p) \in Entries
    BY DEF Turn!Entry, Entries, Receipts
  <2>4. ledger' \in Entries
    BY <1>3, <2>2, <2>3, Receipt DEF Turn!Book
  <2>5. QED
    BY <1>3, <2>1, <2>4 DEF Turn!Book, Others
<1>4. CASE Turn!Write(d)
  <2>1. Others(d)
    <3>1. \A c \in Turn!Code : Turn!Raise(d, c, "unwind") => Others(d)
      BY Raising DEF Steps
    <3>2. \A c \in Turn!Code : Turn!Owing(c) \subseteq Turn!Code
      BY DEF Turn!Owing, Turn!Code
    <3>3. Turn!Payload(handler[d]).code \in Turn!Code
      BY Receipt DEF Receipts
    <3>4. QED
      BY <1>4, <3>1, <3>2, <3>3, Going DEF Turn!Write, Steps, Turn!Code
  <2>2. Turn!Written(Turn!Payload(handler[d])) \in Entries
    BY Receipt DEF Turn!Written, Turn!Entry, Entries, Receipts
  <2>3. booked' \subseteq Receipts
    BY <1>4, Receipt DEF Turn!Write
  <2>4. QED
    BY <1>4, <2>1, <2>2, <2>3 DEF Turn!Write, Others
<1>5. QED
  BY <1>1, <1>2, <1>3, <1>4

LEMMA BodyKeepsTypes ==
  ASSUME TurnConstants, TurnTypes, NEW d \in Turn!Delivery,
         Turn!Body(d) \/ Turn!StartAttempt(d) \/ Turn!Generate(d) \/ Turn!Audit(d) \/ Turn!FailAttempt(d)
  PROVE  TurnTypes' /\ Others(d)
<1> USE Faults, Values DEF TurnTypes
<1>0. handler[d] \in Handlers
  OBVIOUS
<1>1. CASE Turn!Body(d)
  <2>1. /\ [handler[d] EXCEPT !.pc = "own"] \in Handlers
        /\ \A t \in Turn!Text : [handler[d] EXCEPT !.pc = "own", !.text = t] \in Handlers
        /\ [handler[d] EXCEPT !.pc = "own", !.effect = "notice", !.text = "other"] \in Handlers
    BY <1>0 DEF Handlers, Steps, Turn!Effect, Turn!Text
  <2>2. \A o \in {"disabled", "already"}, t \in Turn!Ts : Turn!Result(d, o, t, "book") => Others(d)
    BY Resulting DEF Turn!Outcome, Steps
  <2>3. \A h \in Handlers : Turn!Set(d, h) => Others(d)
    BY Setting
  <2>4. Turn!Goto(d, "attempt") => Others(d)
    BY Going DEF Steps
  <2>5. Others(d)
    BY <1>1, <2>1, <2>2, <2>3, <2>4 DEF Turn!Body, Turn!Answer, Turn!Text
  <2>6. episode' \in [Turn!Delivery -> Attempts]
    BY <1>1 DEF Turn!Body, Attempts
  <2>7. QED
    BY <1>1, <2>5, <2>6 DEF Turn!Body, Others
<1>2. CASE Turn!StartAttempt(d)
  <2>1. Others(d)
    BY <1>2, Going DEF Turn!StartAttempt, Steps
  <2>2. QED
    BY <1>2, <2>1 DEF Turn!StartAttempt, Others, Attempts
<1>3. CASE Turn!Generate(d)
  <2>1. \A t \in Turn!Text : [handler[d] EXCEPT !.pc = "audit", !.text = t] \in Handlers
    BY <1>0 DEF Handlers, Steps
  <2>2. Others(d)
    BY <1>3, <2>1, Setting, Raising DEF Turn!Generate, Steps, Turn!Code
  <2>3. QED
    BY <1>3, <2>2 DEF Turn!Generate, Turn!stores, Others
<1>4. CASE Turn!Audit(d)
  <2>1. Others(d)
    BY <1>4, Going DEF Turn!Audit, Steps
  <2>2. QED
    BY <1>4, <2>1 DEF Turn!Audit, Others, Attempts
<1>5. CASE Turn!FailAttempt(d)
  <2>1. [handler[d] EXCEPT !.pc = "own", !.effect = "notice", !.text = "first", !.fallback = TRUE] \in Handlers
    BY <1>0 DEF Handlers, Steps, Turn!Effect, Turn!Text
  <2>2. own["notice"].ts \in Turn!Ts
    BY DEF Owners, Turn!Effect
  <2>3. (Turn!Result(d, "failed", own["notice"].ts, "book") => Others(d)) /\ (Turn!Goto(d, "bookfail") => Others(d))
    BY <2>2, Resulting, Going DEF Turn!Outcome, Steps
  <2>4. Others(d)
    BY <1>5, <2>1, <2>3, Setting DEF Turn!FailAttempt
  <2>5. episode' \in [Turn!Delivery -> Attempts]
    BY <1>5 DEF Turn!FailAttempt, Attempts
  <2>6. QED
    BY <1>5, <2>4, <2>5 DEF Turn!FailAttempt, Others
<1>6. QED
  BY <1>1, <1>2, <1>3, <1>4, <1>5

LEMMA SlackKeepsTypes ==
  ASSUME TurnConstants, TurnTypes, PostsAreCounted, NEW d \in Turn!Delivery,
         Turn!Own(d) \/ Turn!Post(d) \/ Turn!Confirm(d) \/ Turn!Disown(d) \/ Turn!Noted(d) \/ Turn!Complete(d) \/ Turn!Persist(d)
  PROVE  TurnTypes' /\ Others(d)
<1> USE Faults, Values DEF TurnTypes
<1>0. handler[d] \in Handlers /\ handler[d].effect \in Turn!Effect /\ handler[d].ts \in Turn!Ts /\ d \in 0..MaxDeliveries
  BY DEF Handlers, Turn!Delivery, TurnConstants
<1>1. Turn!Ours(d) \in Owners /\ Turn!Ours(d).ts \in Turn!Ts /\ Turn!Confirmed(d) \in [Turn!Effect -> Owners]
  <2>1. Turn!Ours(d) \in Owners
    BY <1>0 DEF Turn!Ours
  <2>2. [own[handler[d].effect] EXCEPT !.state = "succeeded", !.ts = handler[d].ts] \in Owners
    BY <1>0, <2>1 DEF Turn!Ours, Owners
  <2>3. QED
    BY <1>0, <2>1, <2>2 DEF Turn!Confirmed, Owners
<1>2. \A c \in {"retry", "final"} : Turn!Undelivered(d, c) => Others(d)
  BY Undelivering
<1>3. \A t \in Turn!Ts : Turn!Delivered(d, t) => Others(d)
  BY Delivering
<1>4. CASE Turn!Own(d)
  <2>1. Others(d)
    BY <1>1, <1>2, <1>3, <1>4, Going DEF Turn!Own, Steps
  <2>2. [state |-> "claimed", by |-> d, text |-> handler[d].text, ts |-> 0] \in Owners
    BY <1>0 DEF Owners, Handlers
  <2>3. QED
    BY <1>4, <2>1, <2>2 DEF Turn!Own, Others
<1>5. CASE Turn!Post(d)
  <2>1. Len(posts) + 1 \in Turn!Ts
    BY <1>5, Posting DEF Turn!Post
  <2>2. [handler[d] EXCEPT !.pc = "confirm", !.ts = Len(posts) + 1] \in Handlers
    BY <1>0, <2>1 DEF Handlers, Steps
  <2>3. Others(d)
    BY <1>5, <2>2, Setting, Going DEF Turn!Post, Steps
  <2>4. posts' \in Seq(Turn!Effect)
    <3>1. Append(posts, handler[d].effect) \in Seq(Turn!Effect)
      BY <1>0, AppendProperties
    <3>2. QED
      BY <1>5, <3>1 DEF Turn!Post
  <2>5. QED
    BY <1>5, <2>3, <2>4 DEF Turn!Post, Others
<1>6. CASE Turn!Confirm(d)
  <2>1. Others(d)
    BY <1>0, <1>3, <1>6, Going DEF Turn!Confirm, Steps
  <2>2. QED
    BY <1>1, <1>6, <2>1 DEF Turn!Confirm, Others
<1>7. CASE Turn!Disown(d)
  BY <1>2, <1>7 DEF Turn!Disown, Turn!Disowned, Others
<1>8. CASE Turn!Noted(d)
  <2>1. Others(d)
    BY <1>0, <1>8, Resulting DEF Turn!Noted, Turn!Outcome, Steps
  <2>2. QED
    BY <1>8, <2>1 DEF Turn!Noted, Others
<1>9. CASE Turn!Complete(d)
  <2>1. Others(d)
    BY <1>9, Going, Raising DEF Turn!Complete, Steps, Turn!Code
  <2>2. QED
    BY <1>9, <2>1 DEF Turn!Complete, Others, Attempts
<1>10. CASE Turn!Persist(d)
  <2>1. \A o \in {"accepted", "disabled", "replied"}, s \in {"settle", "book"} :
           Turn!Result(d, o, handler[d].ts, s) => Others(d)
    BY <1>0, Resulting DEF Turn!Outcome, Steps
  <2>2. Turn!Thrown \in Steps
    BY DEF Turn!Thrown, Steps
  <2>3. Others(d)
    BY <1>10, <2>1, <2>2, Raising DEF Turn!Persist, Turn!Code
  <2>4. QED
    BY <1>0, <1>10, <2>3 DEF Turn!Persist, Others
<1>11. QED
  BY <1>4, <1>5, <1>6, <1>7, <1>8, <1>9, <1>10

LEMMA EventsKeepTypes ==
  ASSUME TurnConstants, TurnTypes, Turn!Due \/ Turn!A0Completes \/ Turn!Lapse \/ Turn!Expire \/ Turn!Redeliver
  PROVE  TurnTypes' /\ UNCHANGED handler
<1> USE Faults DEF TurnTypes
<1>1. CASE Turn!Due \/ Turn!Redeliver
  BY <1>1 DEF Turn!Due, Turn!Redeliver, Messages, Turn!stores
<1>2. CASE Turn!A0Completes \/ Turn!Expire
  BY <1>2 DEF Turn!A0Completes, Turn!Expire, RuntimeClaims
<1>3. CASE Turn!Lapse
  BY <1>3 DEF Turn!Lapse, QueueClaims
<1>4. QED
  BY <1>1, <1>2, <1>3

(* The count of posts is kept by every step: one that adds no delivery     *)
(* that may post, the post itself, and a new delivery of the message.      *)
LEMMA CountIsKept ==
  ASSUME TurnConstants, TurnTypes, TurnTypes', PostsAreCounted, NEW d \in Turn!Delivery, Others(d),
         UNCHANGED posts, msg'.sent = msg.sent,
         d \in MayPost' => d \in MayPost, handler[d].pc # "off"
  PROVE  PostsAreCounted'
<1>1. MayPost' \subseteq MayPost
  BY DEF MayPost, Others
<1>2. IsFiniteSet(MayPost)
  <2>1. IsFiniteSet(Turn!Delivery)
    BY FS_Interval DEF Turn!Delivery, TurnConstants
  <2>2. QED
    BY <2>1, FS_Subset DEF MayPost
<1>3. Cardinality(MayPost') <= Cardinality(MayPost) /\ Cardinality(MayPost') \in Nat /\ Cardinality(MayPost) \in Nat
  BY <1>1, <1>2, FS_Subset, FS_CardinalityType
<1>4. Len(posts) \in Nat /\ msg.sent \in Nat
  BY LenProperties DEF TurnTypes, Messages
<1>5. \A x \in Turn!Delivery : x > msg'.sent => handler'[x].pc = "off"
  BY DEF PostsAreCounted, Others
<1>6. QED
  BY <1>3, <1>4, <1>5 DEF PostsAreCounted

LEMMA Entering ==
  ASSUME TurnConstants, TurnTypes, NEW d \in Turn!Delivery,
         Turn!ClaimQueue(d) \/ Turn!QueueDone(d) \/ Turn!QueueFails(d) \/ Turn!Crash(d) \/ Turn!Enter(d) \/ Turn!SettleRuntime(d) \/ Turn!Unwind(d)
         \/ Turn!ReadPending(d) \/ Turn!Quota(d) \/ Turn!Book(d) \/ Turn!Write(d)
  PROVE  /\ d \in MayPost' => d \in MayPost
         /\ UNCHANGED posts /\ msg'.sent = msg.sent /\ handler[d].pc # "off"
<1> USE DEF MayPost, Early, Turn!At, Steps, Turn!Code
<1>1. \A s \in {"ready", "acked", "dead", "delayed"} : Turn!Settle(d, s) => msg'.sent = msg.sent
  BY DEF Turn!Settle, TurnTypes, Messages
<1>2. Turn!Set(d, Turn!Idle) => handler'[d].pc = "off"
  BY Setting, Values DEF Turn!Idle
<1>3. CASE Turn!ClaimQueue(d) \/ Turn!QueueDone(d) \/ Turn!QueueFails(d) \/ Turn!Crash(d)
  BY <1>1, <1>2, <1>3, Going, Raising DEF Turn!ClaimQueue, Turn!QueueDone, Turn!QueueFails, Turn!Crash,
     Turn!stores, Turn!Retry
<1>4. CASE Turn!Enter(d)
  <2>1. \A o \in {"already", "watched"}, t \in Turn!Ts : Turn!Result(d, o, t, "qdone") => handler'[d].pc = "qdone"
    BY Resulting DEF Turn!Outcome
  <2>2. rt.ts \in Turn!Ts
    BY DEF TurnTypes, RuntimeClaims
  <2>3. QED
    BY <1>4, <2>1, <2>2, Going, Raising, Values DEF Turn!Enter
<1>5. CASE Turn!SettleRuntime(d) \/ Turn!Unwind(d)
  BY <1>5, Going, Raising DEF Turn!SettleRuntime, Turn!Unwind
<1>6. CASE Turn!ReadPending(d)
  <2>1. [handler[d] EXCEPT !.pc = "owed", !.out = ledger.out, !.ts = ledger.ts, !.code = ledger.code] \in Handlers
    BY DEF Handlers, TurnTypes, Entries
  <2>2. handler'[d].pc \in {"owed", "quota"}
    <3>1. CASE ledger.state # "pending"
      BY <1>6, <3>1, Going DEF Turn!ReadPending
    <3>2. CASE ledger.state = "pending"
      <4>1. handler'[d] = [handler[d] EXCEPT !.pc = "owed", !.out = ledger.out, !.ts = ledger.ts, !.code = ledger.code]
        BY <1>6, <2>1, <3>2, Setting DEF Turn!ReadPending
      <4>2. QED
        BY <4>1 DEF TurnTypes, Handlers
    <3>3. QED
      BY <3>1, <3>2
  <2>3. QED
    BY <1>6, <2>2 DEF Turn!ReadPending, Turn!stores
<1>7. CASE Turn!Quota(d)
  BY <1>7, Going, Raising DEF Turn!Quota, Turn!stores
<1>8. CASE Turn!Book(d)
  BY <1>8, Going, Raising DEF Turn!Book
<1>9. CASE Turn!Write(d)
  <2>1. \A c \in Turn!Code : Turn!Owing(c) \subseteq Turn!Code
    BY DEF Turn!Owing
  <2>2. Turn!Payload(handler[d]).code \in Turn!Code
    BY Receipt DEF Receipts
  <2>3. \A c \in Turn!Code : Turn!Raise(d, c, "unwind") => handler'[d].pc = "unwind"
    BY Raising
  <2>4. handler'[d].pc \in {"settle", "unwind"}
    BY <1>9, <2>1, <2>2, <2>3, Going DEF Turn!Write
  <2>5. QED
    BY <1>9, <2>4 DEF Turn!Write
<1>10. QED
  BY <1>3, <1>4, <1>5, <1>6, <1>7, <1>8, <1>9

LEMMA Answering ==
  ASSUME TurnConstants, TurnTypes, NEW d \in Turn!Delivery,
         Turn!Body(d) \/ Turn!StartAttempt(d) \/ Turn!Generate(d) \/ Turn!Audit(d) \/ Turn!FailAttempt(d) \/ Turn!Own(d) \/ Turn!Confirm(d) \/ Turn!Disown(d)
         \/ Turn!Noted(d) \/ Turn!Complete(d) \/ Turn!Persist(d)
  PROVE  /\ d \in MayPost' => d \in MayPost
         /\ UNCHANGED posts /\ msg'.sent = msg.sent /\ handler[d].pc # "off"
<1> USE DEF MayPost, Early, Turn!At, Steps, Turn!Code
<1>0. handler[d] \in Handlers
  BY DEF TurnTypes
<1>1. CASE Turn!Body(d) \/ Turn!StartAttempt(d) \/ Turn!Generate(d) \/ Turn!Audit(d)
  BY <1>1 DEF Turn!Body, Turn!StartAttempt, Turn!Generate, Turn!Audit, Turn!stores
<1>2. CASE Turn!FailAttempt(d)
  <2>1. CASE handler[d].code = "audit"
    BY <1>2, <2>1 DEF Turn!FailAttempt
  <2>2. CASE handler[d].code # "audit"
    BY <1>2, <2>2, Going DEF Turn!FailAttempt
  <2>3. QED
    BY <2>1, <2>2
<1>3. CASE Turn!Own(d)
  BY <1>3 DEF Turn!Own
<1>4. CASE Turn!Confirm(d)
  <2>1. handler[d].ts \in Turn!Ts
    BY <1>0 DEF Handlers
  <2>2. handler'[d].pc \in {"noted", "complete", "persist", "disown"}
    BY <1>4, <2>1, Delivering, Going DEF Turn!Confirm
  <2>3. QED
    BY <1>4, <2>2 DEF Turn!Confirm
<1>5. CASE Turn!Disown(d)
  BY <1>5, Undelivering DEF Turn!Disown
<1>6. CASE Turn!Noted(d)
  <2>1. handler[d].ts \in Turn!Ts
    BY <1>0 DEF Handlers
  <2>2. handler'[d].pc = "book"
    BY <1>6, <2>1, Resulting DEF Turn!Noted, Turn!Outcome
  <2>3. QED
    BY <1>6, <2>2 DEF Turn!Noted
<1>7. CASE Turn!Complete(d)
  BY <1>7, Going, Raising DEF Turn!Complete
<1>8. CASE Turn!Persist(d)
  <2>1. \A o \in {"accepted", "disabled", "replied"}, s \in {"settle", "book"} :
           Turn!Result(d, o, handler[d].ts, s) => handler'[d].pc = s
    BY <1>0, Resulting DEF Turn!Outcome, Handlers
  <2>2. \A s \in {"failed", "bookfail"} : Turn!Raise(d, "retry", s) => handler'[d].pc = s /\ handler'[d].code = "retry"
    BY Raising
  <2>3. handler'[d].pc \in {"settle", "book", "bookfail"} \/ (handler'[d].pc = "failed" /\ handler'[d].code = "retry")
    BY <1>8, <2>1, <2>2 DEF Turn!Persist, Turn!Thrown
  <2>4. QED
    BY <1>8, <2>3 DEF Turn!Persist
<1>9. QED
  BY <1>1, <1>2, <1>3, <1>4, <1>5, <1>6, <1>7, <1>8

LEMMA PostKeepsCount ==
  ASSUME TurnConstants, TurnTypes, TurnTypes', PostsAreCounted, NEW d \in Turn!Delivery, Others(d), Turn!Post(d)
  PROVE  PostsAreCounted'
<1>1. Turn!At(d, "post") /\ UNCHANGED msg
  BY DEF Turn!Post
<1>2. handler'[d].pc \in {"confirm", "disown"}
  <2>1. [handler[d] EXCEPT !.pc = "confirm", !.ts = Len(posts) + 1] \in Handlers
    BY <1>1, Posting DEF Handlers, Steps, TurnTypes
  <2>2. QED
    <3>1. CASE Turn!Set(d, [handler[d] EXCEPT !.pc = "confirm", !.ts = Len(posts) + 1])
      <4>1. handler'[d] = [handler[d] EXCEPT !.pc = "confirm", !.ts = Len(posts) + 1]
        BY <2>1, <3>1, Setting
      <4>2. QED
        BY <4>1 DEF TurnTypes, Handlers
    <3>2. CASE Turn!Goto(d, "disown")
      BY <3>2, Going DEF Steps
    <3>3. QED
      BY <3>1, <3>2 DEF Turn!Post
<1>3. MayPost' \subseteq MayPost \ {d}
  BY <1>2 DEF MayPost, Others, Early
<1>4. IsFiniteSet(MayPost \ {d})
  BY <1>1, Posting, FS_Subset
<1>5. Cardinality(MayPost') <= Cardinality(MayPost \ {d}) /\ Cardinality(MayPost') \in Nat
  BY <1>3, <1>4, FS_Subset, FS_CardinalityType
<1>6. Len(posts') <= Len(posts) + 1 /\ Len(posts') \in Nat
  <2>1. posts' = posts \/ posts' = Append(posts, handler[d].effect)
    BY DEF Turn!Post
  <2>2. QED
    BY <2>1, LenProperties, AppendProperties DEF TurnTypes, Handlers
<1>7. msg.sent \in Nat
  BY DEF TurnTypes, Messages
<1>8. \A x \in Turn!Delivery : x > msg'.sent => handler'[x].pc = "off"
  BY <1>1 DEF PostsAreCounted, Others, Turn!At
<1>9. Len(posts') + Cardinality(MayPost') <= msg.sent
  <2>1. Cardinality(MayPost \ {d}) = Cardinality(MayPost) - 1 /\ Cardinality(MayPost \ {d}) \in Nat /\ Len(posts) \in Nat
    BY <1>1, Posting
  <2>2. Len(posts) + Cardinality(MayPost) <= msg.sent
    BY DEF PostsAreCounted
  <2>3. Cardinality(MayPost) = Cardinality(MayPost \ {d}) + 1
    BY <1>1, <2>1, Posting, FS_CardinalityType
  <2>4. QED
    BY <1>5, <1>6, <1>7, <2>1, <2>2, <2>3
<1>10. QED
  BY <1>1, <1>8, <1>9 DEF PostsAreCounted

LEMMA DeliverKeepsCount ==
  ASSUME TurnConstants, TurnTypes, TurnTypes', PostsAreCounted, NEW d \in Turn!Delivery, Others(d),
         Turn!Deliver(d)
  PROVE  PostsAreCounted'
<1>1. d = msg.sent + 1 /\ msg'.sent = d /\ UNCHANGED posts
  BY DEF Turn!Deliver, Turn!stores
<1>2. MayPost' \subseteq MayPost \cup {d}
  BY DEF MayPost, Others
<1>3. IsFiniteSet(MayPost)
  <2>1. IsFiniteSet(Turn!Delivery)
    BY FS_Interval DEF Turn!Delivery, TurnConstants
  <2>2. QED
    BY <2>1, FS_Subset DEF MayPost
<1>4. Cardinality(MayPost \cup {d}) <= Cardinality(MayPost) + 1 /\ IsFiniteSet(MayPost \cup {d})
  <2>1. IsFiniteSet(MayPost \cup {d})
        /\ Cardinality(MayPost \cup {d}) = (IF d \in MayPost THEN Cardinality(MayPost) ELSE Cardinality(MayPost) + 1)
    BY <1>3, FS_AddElement
  <2>2. Cardinality(MayPost) \in Nat
    BY <1>3, FS_CardinalityType
  <2>3. QED
    BY <2>1, <2>2
<1>5. Cardinality(MayPost') <= Cardinality(MayPost \cup {d}) /\ Cardinality(MayPost') \in Nat
      /\ Cardinality(MayPost) \in Nat /\ Cardinality(MayPost \cup {d}) \in Nat
  BY <1>2, <1>3, <1>4, FS_Subset, FS_CardinalityType
<1>6. msg.sent \in Nat /\ Len(posts) \in Nat
  BY LenProperties DEF TurnTypes, Messages
<1>7. \A x \in Turn!Delivery : x > msg'.sent => handler'[x].pc = "off"
  <2>1. ASSUME NEW x \in Turn!Delivery, x > msg'.sent PROVE x > msg.sent /\ x # d
    BY <1>1, <1>6, <2>1 DEF Turn!Delivery, TurnConstants
  <2>2. QED
    BY <2>1 DEF PostsAreCounted, Others
<1>8. QED
  BY <1>1, <1>4, <1>5, <1>6, <1>7 DEF PostsAreCounted

(* Some reply reached Slack and is owned as such; and it is this one.      *)
Answered == \E e \in Turn!Effect : own[e].state = "succeeded"
Confirms(e, ts) == own[e].state = "succeeded" /\ own[e].ts = ts

(* What a delivery at each step has reached: what it books it has booked,  *)
(* what it completes was confirmed, what it posts it owns.                 *)
HandlerIsSound(d) ==
  /\ handler[d].pc \in {"book", "settle"} => handler[d].code = "none" /\ Answered
  /\ handler[d].pc \in {"write", "owed"} =>
       ledger.state # "none" /\ Turn!Payload(handler[d]) = Turn!Owed /\ (handler[d].code = "none" => Answered)
  /\ handler[d].pc = "qdone" => rt.by = Turn!A0 \/ Answered
  /\ handler[d].pc \in {"failed", "bookfail"} =>
       handler[d].out = "none" /\ handler[d].ts = 0 /\ handler[d].code # "none"
  /\ handler[d].pc \in {"post", "confirm"} =>
       own[handler[d].effect].state = "claimed" /\ own[handler[d].effect].by = d
  /\ handler[d].pc \in {"complete", "persist"} => Confirms("reply", handler[d].ts)
  /\ handler[d].pc = "noted" => Confirms("notice", handler[d].ts)
  /\ handler[d].pc \in {"confirm", "disown"} \/ handler[d].ts = 0 \/ Turn!Told(handler[d].ts)

(* What each store says of the others: the files of the workspace, the     *)
(* runtime claim, the Brainbase record, the queue claim.                   *)
CompletionAgrees == completion # 0 => Confirms("reply", completion)
RuntimeAgrees ==
  /\ rt.by = Turn!A0 => rt.state \in {"processing", "completed"} /\ rt.live /\ rt.ts = 0
  /\ rt.state = "completed" /\ rt.by # Turn!A0 => Turn!Told(rt.ts)
LedgerAgrees ==
  /\ ledger.state = "none" => booked = {}
  /\ ledger.state # "none" =>
       booked \subseteq {Turn!Owed} /\ (ledger.ts = 0 \/ Turn!Told(ledger.ts)) /\ (ledger.code = "none" => Answered)
FilesAgree ==
  /\ notice = "sent" => own["notice"].state = "succeeded"
  /\ \A d \in Turn!Delivery : episode[d] = "completed" => own["reply"].state = "succeeded"
QueueAgrees == q.state = "succeeded" => rt.by = Turn!A0 \/ Answered
StoresAgree == CompletionAgrees /\ RuntimeAgrees /\ LedgerAgrees /\ FilesAgree /\ QueueAgrees

(* What stands never falls: a confirmed effect, a claim of A0, a receipt.  *)
(* And a delivery leaves the claims of the others alone.                   *)
Stands ==
  /\ \A e \in Turn!Effect : own[e].state = "succeeded" => own'[e] = own[e]
  /\ rt.by = Turn!A0 => rt'.by = Turn!A0
  /\ ledger.state # "none" => ledger'.state # "none" /\ Turn!Owed' = Turn!Owed
Spares(d) == \A e \in Turn!Effect : own[e].state = "claimed" /\ own[e].by # d => own'[e] = own[e]

(* So what was answered, told or confirmed stays so.                       *)
LEMMA Growing ==
  ASSUME Stands
  PROVE  /\ Answered => Answered'
         /\ \A t \in Turn!Ts : Turn!Told(t) => Turn!Told(t)'
         /\ \A e \in Turn!Effect, t \in Turn!Ts : Confirms(e, t) => Confirms(e, t)'
         /\ \A e \in Turn!Effect : own[e].state = "succeeded" => own'[e].state = "succeeded"
BY DEF Stands, Answered, Turn!Told, Confirms

(* Deliveries that do not move stay sound, and stores that are not written *)
(* keep agreeing.                                                          *)
LEMMA OthersStaySound ==
  ASSUME TurnTypes, TurnTypes', NEW d \in Turn!Delivery, Others(d), Stands, Spares(d), NEW x \in Turn!Delivery,
         x # d, HandlerIsSound(x)
  PROVE  HandlerIsSound(x)'
<1>1. handler'[x] = handler[x] /\ handler[x].ts \in Turn!Ts /\ handler[x].effect \in Turn!Effect
  BY DEF Others, TurnTypes, Handlers
<1>2. /\ Answered => Answered'
      /\ Turn!Told(handler[x].ts) => Turn!Told(handler[x].ts)'
      /\ Confirms("reply", handler[x].ts) => Confirms("reply", handler[x].ts)'
      /\ Confirms("notice", handler[x].ts) => Confirms("notice", handler[x].ts)'
  BY <1>1, Growing DEF Turn!Told, Confirms, Turn!Effect
<1>3. own[handler[x].effect].state = "claimed" /\ own[handler[x].effect].by = x
        => own'[handler[x].effect].state = "claimed" /\ own'[handler[x].effect].by = x
  BY <1>1 DEF Spares
<1>4. (rt.by = Turn!A0 => rt'.by = Turn!A0) /\ (ledger.state # "none" => ledger'.state # "none" /\ Turn!Owed' = Turn!Owed)
  BY DEF Stands
<1>5. Turn!Payload(handler[x])' = Turn!Payload(handler[x])
  BY <1>1 DEF Turn!Payload
<1>6. QED
  BY <1>1, <1>2, <1>3, <1>4, <1>5 DEF HandlerIsSound, Turn!Told, Confirms

LEMMA StoresStay ==
  ASSUME TurnTypes, Stands, StoresAgree
  PROVE  /\ UNCHANGED completion => CompletionAgrees'
         /\ UNCHANGED rt => RuntimeAgrees'
         /\ UNCHANGED <<ledger, booked>> => LedgerAgrees'
         /\ UNCHANGED <<notice, episode>> => FilesAgree'
         /\ UNCHANGED q => QueueAgrees'
<1> USE DEF StoresAgree
<1>1. completion \in Turn!Ts /\ rt.ts \in Turn!Ts /\ ledger.ts \in Turn!Ts
  BY DEF TurnTypes, RuntimeClaims, Entries
<1>2. UNCHANGED completion => CompletionAgrees'
  BY <1>1 DEF CompletionAgrees, Stands, Confirms, Turn!Effect
<1>3. UNCHANGED rt => RuntimeAgrees'
  BY <1>1 DEF RuntimeAgrees, Stands, Turn!Told
<1>4. UNCHANGED <<ledger, booked>> => LedgerAgrees'
  BY <1>1 DEF LedgerAgrees, Stands, Turn!Told, Answered, Turn!Owed, Turn!Payload
<1>5. UNCHANGED <<notice, episode>> => FilesAgree'
  BY DEF FilesAgree, Stands, Turn!Effect
<1>6. UNCHANGED q => QueueAgrees'
  BY DEF QueueAgrees, Stands, Answered
<1>7. QED
  BY <1>2, <1>3, <1>4, <1>5, <1>6

(* Every step of a delivery leaves standing what stands.                   *)
LEMMA StepStands ==
  ASSUME TurnConstants, TurnTypes, RuntimeAgrees, NEW d \in Turn!Delivery, HandlerIsSound(d),
         Turn!Deliver(d) \/ Turn!Step(d) \/ Turn!Crash(d)
  PROVE  Stands /\ Spares(d)
<1> USE DEF Stands, Spares
<1>0. d # Turn!A0 /\ handler[d].effect \in Turn!Effect
  BY Values DEF Turn!Delivery, Turn!A0, TurnConstants, TurnTypes, Handlers
<1>1. CASE Turn!Deliver(d) \/ Turn!ClaimQueue(d) \/ Turn!QueueDone(d) \/ Turn!QueueFails(d) \/ Turn!Crash(d)
  BY <1>1 DEF Turn!Deliver, Turn!ClaimQueue, Turn!QueueDone, Turn!QueueFails, Turn!Crash, Turn!stores,
     Turn!Owed, Turn!Payload
<1>2. CASE Turn!Enter(d) \/ Turn!SettleRuntime(d) \/ Turn!Unwind(d)
  BY <1>0, <1>2 DEF Turn!Enter, Turn!SettleRuntime, Turn!Unwind, RuntimeAgrees, Turn!MayRelease, Turn!Owed,
     Turn!Payload
<1>3. CASE Turn!ReadPending(d) \/ Turn!Quota(d)
  BY <1>3 DEF Turn!ReadPending, Turn!Quota, Turn!stores, Turn!Owed, Turn!Payload
<1>4. CASE Turn!Book(d)
  BY <1>4 DEF Turn!Book, Turn!Conflicts, Turn!Entry, Turn!Owed, Turn!Payload
<1>5. CASE Turn!Write(d)
  BY <1>5 DEF Turn!Write, Turn!Written, Turn!Entry, Turn!Owed, Turn!Payload, HandlerIsSound, Turn!At
<1>6. CASE Turn!Body(d) \/ Turn!StartAttempt(d) \/ Turn!Generate(d) \/ Turn!Audit(d) \/ Turn!FailAttempt(d)
  BY <1>6 DEF Turn!Body, Turn!StartAttempt, Turn!Generate, Turn!Audit, Turn!FailAttempt, Turn!stores, Turn!Owed,
     Turn!Payload
<1>7. CASE Turn!Own(d)
  BY <1>0, <1>7 DEF Turn!Own, Turn!Ownable, Turn!Ours, Turn!Owed, Turn!Payload, TurnTypes
<1>8. CASE Turn!Confirm(d)
  BY <1>0, <1>8 DEF Turn!Confirm, Turn!Confirmed, Turn!Ours, Turn!Owed, Turn!Payload, TurnTypes, HandlerIsSound,
     Turn!At
<1>9. CASE Turn!Disown(d)
  BY <1>0, <1>9 DEF Turn!Disown, Turn!Disowned, Turn!Ours, Turn!Owed, Turn!Payload, TurnTypes
<1>10. CASE Turn!Post(d) \/ Turn!Noted(d) \/ Turn!Complete(d) \/ Turn!Persist(d)
  BY <1>10 DEF Turn!Post, Turn!Noted, Turn!Complete, Turn!Persist, Turn!Owed, Turn!Payload
<1>11. QED
  BY <1>1, <1>2, <1>3, <1>4, <1>5, <1>6, <1>7, <1>8, <1>9, <1>10 DEF Turn!Step

(* A handler that is past its work and owes nothing.                       *)
LEMMA Resting ==
  ASSUME NEW d \in Turn!Delivery, handler'[d].pc \in {"off", "claim", "enter", "pending", "quota", "body", "attempt", "generate",
           "audit", "own", "unwind", "qfail", "disown"}, handler'[d].ts = 0 \/ handler'[d].pc = "disown"
  PROVE  HandlerIsSound(d)'
BY DEF HandlerIsSound

(* A step of a delivery keeps the stores in agreement and leaves its own   *)
(* handler sound: the queue claim and the message.                         *)
LEMMA QueueKeepsAgreed ==
  ASSUME TurnConstants, TurnTypes, TurnTypes', StoresAgree, NEW d \in Turn!Delivery, HandlerIsSound(d), Stands,
         Turn!Deliver(d) \/ Turn!ClaimQueue(d) \/ Turn!QueueDone(d) \/ Turn!QueueFails(d) \/ Turn!Crash(d)
  PROVE  HandlerIsSound(d)' /\ StoresAgree'
<1>1. UNCHANGED <<completion, rt, ledger, booked, notice, episode, own>>
  BY DEF Turn!Deliver, Turn!ClaimQueue, Turn!QueueDone, Turn!QueueFails, Turn!Crash, Turn!stores
<1>2. QueueAgrees'
  <2>1. CASE Turn!QueueDone(d)
    <3>1. rt.by = Turn!A0 \/ Answered
      BY <2>1 DEF Turn!QueueDone, Turn!At, HandlerIsSound
    <3>2. QED
      BY <1>1, <3>1 DEF QueueAgrees, Answered
  <2>2. CASE UNCHANGED q
    BY <2>2, StoresStay
  <2>3. CASE q'.state # "succeeded"
    BY <2>3 DEF QueueAgrees
  <2>4. QED
    BY <2>1, <2>2, <2>3 DEF Turn!Deliver, Turn!ClaimQueue, Turn!QueueFails, Turn!Crash, Turn!stores, Turn!Free,
       TurnTypes, QueueClaims
<1>3. HandlerIsSound(d)'
  <2>1. Turn!Set(d, Turn!Idle) => handler'[d].pc = "off" /\ handler'[d].ts = 0
    BY Setting, Values DEF Turn!Idle
  <2>2. Turn!Set(d, [Turn!Idle EXCEPT !.pc = "claim"]) => handler'[d].pc = "claim" /\ handler'[d].ts = 0
    BY Setting, Values DEF Turn!Idle
  <2>3. Turn!Raise(d, "retry", "qfail") => handler'[d].pc = "qfail" /\ handler'[d].ts = 0
    BY Raising DEF Steps, Turn!Code
  <2>4. CASE Turn!ClaimQueue(d) /\ Turn!Goto(d, "enter")
    <3>1. handler'[d].pc = "enter" /\ handler'[d].ts = handler[d].ts
      BY <2>4, Going DEF Steps
    <3>2. handler[d].ts = 0 \/ Turn!Told(handler[d].ts)
      BY <2>4 DEF Turn!ClaimQueue, Turn!At, HandlerIsSound
    <3>3. QED
      BY <1>1, <3>1, <3>2 DEF HandlerIsSound, Turn!Told
  <2>5. CASE Turn!Deliver(d) \/ Turn!QueueDone(d) \/ Turn!QueueFails(d) \/ Turn!Crash(d)
              \/ (Turn!ClaimQueue(d) /\ Turn!Set(d, Turn!Idle))
    BY <2>1, <2>2, <2>3, <2>5, Resting DEF Turn!Deliver, Turn!QueueDone, Turn!QueueFails, Turn!Crash
  <2>6. QED
    BY <2>4, <2>5 DEF Turn!ClaimQueue
<1>4. QED
  BY <1>1, <1>2, <1>3, StoresStay DEF StoresAgree

(* The runtime claim (beginIdempotency, completeIdempotency).              *)
LEMMA RuntimeKeepsAgreed ==
  ASSUME TurnConstants, TurnTypes, TurnTypes', StoresAgree, NEW d \in Turn!Delivery, HandlerIsSound(d), Stands,
         Turn!Enter(d) \/ Turn!SettleRuntime(d) \/ Turn!Unwind(d)
  PROVE  HandlerIsSound(d)' /\ StoresAgree'
<1>1. UNCHANGED <<completion, ledger, booked, notice, episode, own, q>>
  BY DEF Turn!Enter, Turn!SettleRuntime, Turn!Unwind
<1>2. handler[d].ts \in Turn!Ts /\ rt.ts \in Turn!Ts /\ d # Turn!A0
  BY Values DEF TurnTypes, Handlers, RuntimeClaims, Turn!Delivery, Turn!A0, TurnConstants
<1>3. CASE Turn!Enter(d)
  <2>1. handler[d].ts = 0 \/ Turn!Told(handler[d].ts)
    BY <1>3 DEF Turn!Enter, Turn!At, HandlerIsSound
  <2>2. RuntimeAgrees'
    <3>1. CASE UNCHANGED rt
      BY <3>1, StoresStay
    <3>2. CASE rt' = [state |-> "processing", by |-> d, live |-> TRUE, ts |-> 0]
      BY <1>2, <3>2 DEF RuntimeAgrees
    <3>3. QED
      BY <1>3, <3>1, <3>2 DEF Turn!Enter
  <2>3. HandlerIsSound(d)'
    <3>1. CASE rt.state = "completed" /\ Turn!Result(d, "already", rt.ts, "qdone") /\ UNCHANGED rt
      <4>1. handler'[d].pc = "qdone" /\ handler'[d].ts = rt.ts
        BY <1>2, <3>1, Resulting DEF Turn!Outcome, Steps
      <4>2. (rt.by = Turn!A0 /\ rt.ts = 0) \/ Turn!Told(rt.ts)
        BY <3>1 DEF StoresAgree, RuntimeAgrees
      <4>3. QED
        BY <1>1, <3>1, <4>1, <4>2 DEF HandlerIsSound, Turn!Told, Answered
    <3>2. CASE Turn!WatchedByA0 /\ Turn!Result(d, "watched", 0, "qdone") /\ UNCHANGED rt
      <4>1. handler'[d].pc = "qdone" /\ handler'[d].ts = 0
        BY <3>2, Resulting, Values DEF Turn!Outcome, Steps
      <4>2. QED
        BY <3>2, <4>1 DEF HandlerIsSound, Turn!WatchedByA0
    <3>3. CASE Turn!Raise(d, "retry", "qfail")
      BY <3>3, Raising, Resting DEF Steps, Turn!Code
    <3>4. CASE Turn!Goto(d, "pending")
      <4>1. handler'[d].pc = "pending" /\ handler'[d].ts = handler[d].ts
        BY <3>4, Going DEF Steps
      <4>2. QED
        BY <1>1, <2>1, <4>1 DEF HandlerIsSound, Turn!Told
    <3>5. QED
      BY <1>3, <3>1, <3>2, <3>3, <3>4 DEF Turn!Enter
  <2>4. QED
    BY <1>1, <2>2, <2>3, StoresStay DEF StoresAgree
<1>4. CASE Turn!SettleRuntime(d)
  <2>1. Answered /\ (handler[d].ts = 0 \/ Turn!Told(handler[d].ts))
    BY <1>4 DEF Turn!SettleRuntime, Turn!At, HandlerIsSound
  <2>2. RuntimeAgrees'
    <3>1. CASE UNCHANGED rt
      BY <3>1, StoresStay
    <3>2. CASE rt' = Turn!CompletedBy(d) /\ handler[d].ts # 0
      BY <1>1, <1>2, <2>1, <3>2 DEF RuntimeAgrees, Turn!CompletedBy, Turn!Told
    <3>3. CASE rt' = Turn!Freed
      BY <3>3 DEF RuntimeAgrees, Turn!Freed, Turn!Nobody, Turn!A0
    <3>4. QED
      BY <1>4, <3>1, <3>2, <3>3 DEF Turn!SettleRuntime
  <2>3. HandlerIsSound(d)'
    <3>1. CASE Turn!Raise(d, "retry", "unwind")
      BY <3>1, Raising, Resting DEF Steps, Turn!Code
    <3>2. CASE Turn!Goto(d, "qdone")
      <4>1. handler'[d].pc = "qdone" /\ handler'[d].ts = handler[d].ts
        BY <3>2, Going DEF Steps
      <4>2. QED
        BY <1>1, <2>1, <4>1 DEF HandlerIsSound, Turn!Told, Answered
    <3>3. QED
      BY <1>4, <3>1, <3>2 DEF Turn!SettleRuntime
  <2>4. QED
    BY <1>1, <2>2, <2>3, StoresStay DEF StoresAgree
<1>5. CASE Turn!Unwind(d)
  <2>1. handler[d].ts = 0 \/ Turn!Told(handler[d].ts)
    BY <1>5 DEF Turn!Unwind, Turn!At, HandlerIsSound
  <2>2. RuntimeAgrees'
    <3>1. CASE UNCHANGED rt
      BY <3>1, StoresStay
    <3>2. CASE rt' = Turn!Freed
      BY <3>2 DEF RuntimeAgrees, Turn!Freed, Turn!Nobody, Turn!A0
    <3>3. QED
      BY <1>5, <3>1, <3>2 DEF Turn!Unwind
  <2>3. HandlerIsSound(d)'
    <3>1. CASE Turn!Raise(d, "retry", "qfail")
      BY <3>1, Raising, Resting DEF Steps, Turn!Code
    <3>2. CASE Turn!Goto(d, "qfail")
      <4>1. handler'[d].pc = "qfail" /\ handler'[d].ts = handler[d].ts
        BY <3>2, Going DEF Steps
      <4>2. QED
        BY <1>1, <2>1, <4>1 DEF HandlerIsSound, Turn!Told
    <3>3. QED
      BY <1>5, <3>1, <3>2 DEF Turn!Unwind
  <2>4. QED
    BY <1>1, <2>2, <2>3, StoresStay DEF StoresAgree
<1>6. QED
  BY <1>3, <1>4, <1>5

(* A receipt is made once, from what the delivery reached.                 *)
LEMMA BookKeepsAgreed ==
  ASSUME TurnConstants, TurnTypes, TurnTypes', StoresAgree, NEW d \in Turn!Delivery, HandlerIsSound(d), Stands,
         Turn!Book(d)
  PROVE  HandlerIsSound(d)' /\ StoresAgree'
<1> DEFINE failed == Turn!At(d, "bookfail")
           p == IF failed THEN [out |-> "none", ts |-> 0, code |-> handler[d].code] ELSE Turn!Payload(handler[d])
<1>1. UNCHANGED <<completion, rt, booked, notice, episode, own, q>>
  BY DEF Turn!Book
<1>2. p = Turn!Payload(handler[d]) /\ handler[d] \in Handlers
  BY DEF HandlerIsSound, Turn!Payload, Turn!At, TurnTypes
<1>3. /\ Turn!At(d, "book") => handler[d].code = "none" /\ Answered
      /\ handler[d].ts = 0 \/ Turn!Told(handler[d].ts)
      /\ failed => handler[d].code # "none"
      /\ Turn!At(d, "book") \/ failed
  BY DEF HandlerIsSound, Turn!At, Turn!Book
<1>4. CASE Turn!Conflicts(p) /\ Turn!Raise(d, "final", "unwind") /\ UNCHANGED ledger
  <2>1. HandlerIsSound(d)'
    BY <1>4, Raising, Resting DEF Steps, Turn!Code
  <2>2. QED
    BY <1>1, <1>4, <2>1, StoresStay DEF StoresAgree
<1>5. CASE Turn!Goto(d, IF failed THEN "unwind" ELSE "settle") /\ UNCHANGED ledger
  <2>1. handler'[d].pc = (IF failed THEN "unwind" ELSE "settle") /\ handler'[d].ts = handler[d].ts
        /\ handler'[d].code = handler[d].code
    <3>1. CASE failed
      BY <1>5, <3>1, Going DEF Steps
    <3>2. CASE ~failed
      BY <1>5, <3>2, Going DEF Steps
    <3>3. QED
      BY <3>1, <3>2
  <2>2. HandlerIsSound(d)'
    BY <1>1, <1>3, <2>1 DEF HandlerIsSound, Turn!Told, Answered
  <2>3. QED
    BY <1>1, <1>5, <2>2, StoresStay DEF StoresAgree
<1>6. CASE ~Turn!Conflicts(p) /\ ledger' = Turn!Entry("pending", p) /\ Turn!Goto(d, "write")
  <2>1. /\ handler'[d].pc = "write" /\ handler'[d].ts = handler[d].ts /\ handler'[d].code = handler[d].code
        /\ handler'[d].out = handler[d].out
    BY <1>6, Going DEF Steps
  <2>2. ledger' = Turn!Entry("pending", Turn!Payload(handler[d]))
    BY <1>2, <1>6
  <2>3. ledger'.state = "pending" /\ Turn!Owed' = Turn!Payload(handler[d]) /\ ledger'.ts = handler[d].ts
        /\ ledger'.code = handler[d].code
    BY <2>2 DEF Turn!Owed, Turn!Entry, Turn!Payload
  <2>4. LedgerAgrees'
    <3>1. booked' \subseteq {Turn!Owed'}
      BY <1>1, <1>2, <1>6, <2>3 DEF StoresAgree, LedgerAgrees, Turn!Conflicts
    <3>2. QED
      BY <1>1, <1>3, <2>3, <3>1 DEF LedgerAgrees, Turn!Told, Answered
  <2>5. HandlerIsSound(d)'
    <3>1. Turn!Payload(handler[d])' = Turn!Owed'
      BY <2>1, <2>3 DEF Turn!Payload
    <3>2. QED
      BY <1>1, <1>3, <2>1, <2>3, <3>1 DEF HandlerIsSound, Turn!Told, Answered
  <2>6. QED
    BY <1>1, <2>4, <2>5, StoresStay DEF StoresAgree
<1>7. QED
  BY <1>4, <1>5, <1>6 DEF Turn!Book

(* And written as it was made.                                             *)
LEMMA WriteKeepsAgreed ==
  ASSUME TurnConstants, TurnTypes, TurnTypes', StoresAgree, NEW d \in Turn!Delivery, HandlerIsSound(d), Stands,
         Turn!Write(d)
  PROVE  HandlerIsSound(d)' /\ StoresAgree'
<1>1. UNCHANGED <<completion, rt, notice, episode, own, q>>
  BY DEF Turn!Write
<1>2. /\ ledger.state # "none" /\ Turn!Payload(handler[d]) = Turn!Owed /\ (handler[d].code = "none" => Answered)
      /\ handler[d].ts = 0 \/ Turn!Told(handler[d].ts)
  BY DEF HandlerIsSound, Turn!Write, Turn!At
<1>3. ledger'.state # "none" /\ Turn!Owed' = Turn!Owed
  BY <1>2 DEF Stands
<1>4. booked' \subseteq {Turn!Owed}
  BY <1>2 DEF Turn!Write, StoresAgree, LedgerAgrees
<1>5. LedgerAgrees'
  <2>1. ledger'.ts = ledger.ts /\ ledger'.code = ledger.code
    BY <1>3 DEF Turn!Owed, Turn!Payload
  <2>2. QED
    BY <1>1, <1>2, <1>3, <1>4, <2>1 DEF StoresAgree, LedgerAgrees, Turn!Told, Answered
<1>6. HandlerIsSound(d)'
  <2>1. \A c \in Turn!Code : Turn!Owing(c) \subseteq Turn!Code
    BY DEF Turn!Owing, Turn!Code
  <2>2. Turn!Payload(handler[d]).code \in Turn!Code /\ Turn!Payload(handler[d]).code = handler[d].code
    BY Receipt DEF Receipts, Turn!Payload
  <2>3. ASSUME NEW c \in Turn!Code, Turn!Raise(d, c, "unwind") PROVE HandlerIsSound(d)'
    BY <2>3, Raising, Resting DEF Steps
  <2>4. CASE Turn!Goto(d, "settle") /\ handler[d].code = "none"
    <3>1. handler'[d].pc = "settle" /\ handler'[d].ts = handler[d].ts /\ handler'[d].code = "none"
      BY <2>4, Going DEF Steps
    <3>2. QED
      BY <1>1, <1>2, <2>4, <3>1 DEF HandlerIsSound, Turn!Told, Answered
  <2>5. QED
    BY <2>1, <2>2, <2>3, <2>4 DEF Turn!Write, Turn!Code
<1>7. QED
  BY <1>1, <1>5, <1>6, StoresStay DEF StoresAgree

(* The steps of a turn that read, and those that only move its episode.    *)
LEMMA ReadingKeepsAgreed ==
  ASSUME TurnConstants, TurnTypes, TurnTypes', StoresAgree, NEW d \in Turn!Delivery, HandlerIsSound(d), Stands,
         Turn!ReadPending(d) \/ Turn!Quota(d) \/ Turn!StartAttempt(d) \/ Turn!Generate(d) \/ Turn!Audit(d)
  PROVE  HandlerIsSound(d)' /\ StoresAgree'
<1>1. UNCHANGED <<completion, rt, ledger, booked, notice, own, q>>
  BY DEF Turn!ReadPending, Turn!Quota, Turn!StartAttempt, Turn!Generate, Turn!Audit, Turn!stores
<1>2. handler[d] \in Handlers /\ (handler[d].ts = 0 \/ Turn!Told(handler[d].ts))
  BY DEF TurnTypes, HandlerIsSound, Turn!At, Turn!ReadPending, Turn!Quota, Turn!StartAttempt, Turn!Generate,
     Turn!Audit
<1>3. FilesAgree'
  <2>1. \A x \in Turn!Delivery : episode'[x] = "completed" => episode[x] = "completed"
    BY DEF Turn!ReadPending, Turn!Quota, Turn!StartAttempt, Turn!Generate, Turn!Audit, Turn!stores, TurnTypes
  <2>2. QED
    BY <1>1, <2>1 DEF FilesAgree, StoresAgree
<1>4. ASSUME NEW s \in {"quota", "body", "generate", "own"}, Turn!Goto(d, s) PROVE HandlerIsSound(d)'
  <2>1. handler'[d].pc = s /\ handler'[d].ts = handler[d].ts
    BY <1>4, Going DEF Steps
  <2>2. QED
    BY <1>1, <1>2, <2>1 DEF HandlerIsSound, Turn!Told
<1>5. ASSUME NEW c \in {"retry", "final", "audit"}, NEW s \in {"bookfail", "failed"}, Turn!Raise(d, c, s) PROVE HandlerIsSound(d)'
  BY <1>5, Raising DEF HandlerIsSound, Steps, Turn!Code
<1>6. HandlerIsSound(d)'
  <2>1. CASE Turn!ReadPending(d)
    <3>1. CASE ledger.state = "pending"
      <4>1. [handler[d] EXCEPT !.pc = "owed", !.out = ledger.out, !.ts = ledger.ts, !.code = ledger.code] \in Handlers
        <5>1. ledger \in Entries
          BY DEF TurnTypes
        <5>2. QED
          BY <1>2, <5>1 DEF Handlers, Entries, Steps
      <4>2. handler'[d] = [handler[d] EXCEPT !.pc = "owed", !.out = ledger.out, !.ts = ledger.ts, !.code = ledger.code]
        BY <2>1, <3>1, <4>1, Setting DEF Turn!ReadPending
      <4>3. handler'[d].pc = "owed" /\ handler'[d].out = ledger.out /\ handler'[d].ts = ledger.ts
            /\ handler'[d].code = ledger.code
        BY <1>2, <4>2 DEF Handlers
      <4>4. Turn!Payload(handler[d])' = Turn!Owed'
        BY <1>1, <4>3 DEF Turn!Payload, Turn!Owed
      <4>5. (ledger.ts = 0 \/ Turn!Told(ledger.ts)) /\ (ledger.code = "none" => Answered)
        BY <3>1 DEF StoresAgree, LedgerAgrees
      <4>6. QED
        BY <1>1, <3>1, <4>3, <4>4, <4>5 DEF HandlerIsSound, Turn!Told, Answered
    <3>2. CASE ledger.state # "pending"
      BY <1>4, <2>1, <3>2 DEF Turn!ReadPending
    <3>3. QED
      BY <3>1, <3>2
  <2>2. CASE Turn!Generate(d)
    <3>1. ASSUME NEW t \in Turn!Text, Turn!Set(d, [handler[d] EXCEPT !.pc = "audit", !.text = t]) PROVE HandlerIsSound(d)'
      <4>1. [handler[d] EXCEPT !.pc = "audit", !.text = t] \in Handlers
        BY <1>2 DEF Handlers, Steps
      <4>2. handler'[d] = [handler[d] EXCEPT !.pc = "audit", !.text = t]
        BY <3>1, <4>1, Setting
      <4>3. handler'[d].pc = "audit" /\ handler'[d].ts = handler[d].ts
        BY <1>2, <4>2 DEF Handlers
      <4>4. QED
        BY <1>1, <1>2, <4>3 DEF HandlerIsSound, Turn!Told
    <3>2. QED
      BY <1>5, <2>2, <3>1 DEF Turn!Generate
  <2>3. CASE Turn!Quota(d) \/ Turn!StartAttempt(d) \/ Turn!Audit(d)
    BY <1>4, <1>5, <2>3 DEF Turn!Quota, Turn!StartAttempt, Turn!Audit
  <2>4. QED
    BY <2>1, <2>2, <2>3
<1>7. QED
  BY <1>1, <1>3, <1>6, StoresStay DEF StoresAgree

(* A body finds a completion, or begins.                                   *)
LEMMA BodyKeepsAgreed ==
  ASSUME TurnConstants, TurnTypes, TurnTypes', StoresAgree, NEW d \in Turn!Delivery, HandlerIsSound(d), Stands,
         Turn!Body(d)
  PROVE  HandlerIsSound(d)' /\ StoresAgree'
<1>1. UNCHANGED <<completion, rt, ledger, booked, notice, own, q>>
  BY DEF Turn!Body
<1>2. handler[d] \in Handlers /\ (handler[d].ts = 0 \/ Turn!Told(handler[d].ts)) /\ completion \in Turn!Ts
  BY DEF TurnTypes, HandlerIsSound, Turn!At, Turn!Body
<1>3. FilesAgree'
  <2>1. \A x \in Turn!Delivery : episode'[x] = "completed" => episode[x] = "completed"
    BY DEF Turn!Body, TurnTypes
  <2>2. QED
    BY <1>1, <2>1 DEF FilesAgree, StoresAgree
<1>4. ASSUME NEW h \in Handlers, Turn!Set(d, h), h.pc = "own", h.ts = handler[d].ts PROVE HandlerIsSound(d)'
  <2>1. handler'[d] = h
    BY <1>4, Setting
  <2>2. QED
    BY <1>1, <1>2, <1>4, <2>1 DEF HandlerIsSound, Turn!Told
<1>5. /\ [handler[d] EXCEPT !.pc = "own"] \in Handlers
      /\ \A t \in Turn!Text : [handler[d] EXCEPT !.pc = "own", !.text = t] \in Handlers
      /\ [handler[d] EXCEPT !.pc = "own", !.effect = "notice", !.text = "other"] \in Handlers
  BY <1>2 DEF Handlers, Steps, Turn!Effect, Turn!Text
<1>6. /\ [handler[d] EXCEPT !.pc = "own"].pc = "own" /\ [handler[d] EXCEPT !.pc = "own"].ts = handler[d].ts
      /\ \A t \in Turn!Text : LET h == [handler[d] EXCEPT !.pc = "own", !.text = t] IN h.pc = "own" /\ h.ts = handler[d].ts
      /\ LET h == [handler[d] EXCEPT !.pc = "own", !.effect = "notice", !.text = "other"]
         IN  h.pc = "own" /\ h.ts = handler[d].ts
  BY <1>2 DEF Handlers
<1>7. ASSUME NEW o \in {"disabled", "already"}, NEW t \in Turn!Ts, Turn!Result(d, o, t, "book"), Answered, t = 0 \/ Turn!Told(t)
      PROVE  HandlerIsSound(d)'
  <2>1. handler'[d].pc = "book" /\ handler'[d].ts = t /\ handler'[d].code = "none"
    BY <1>7, Resulting DEF Turn!Outcome, Steps
  <2>2. QED
    BY <1>1, <1>7, <2>1 DEF HandlerIsSound, Turn!Told, Answered
<1>8. HandlerIsSound(d)'
  <2>1. CASE completion # 0 /\ Turn!Result(d, IF kind = "disabled" THEN "disabled" ELSE "already", completion, "book")
    <3>1. Answered /\ Turn!Told(completion)
      BY <2>1 DEF StoresAgree, CompletionAgrees, Confirms, Answered, Turn!Told, Turn!Effect
    <3>2. QED
      BY <1>2, <1>7, <2>1, <3>1
  <2>2. CASE Turn!Answer(d)
    BY <1>4, <1>5, <1>6, <2>2 DEF Turn!Answer
  <2>3. ASSUME NEW t \in Turn!Text, Turn!Set(d, [handler[d] EXCEPT !.pc = "own", !.text = t]) PROVE HandlerIsSound(d)'
    BY <1>4, <1>5, <1>6, <2>3
  <2>4. CASE (\E x \in Turn!Delivery : episode[x] = "completed") /\ Turn!Result(d, "already", 0, "book")
    <3>1. Answered
      BY <2>4 DEF StoresAgree, FilesAgree, Answered, Turn!Effect
    <3>2. QED
      BY <1>7, <2>4, <3>1, Values
  <2>5. CASE Turn!Goto(d, "attempt")
    <3>1. handler'[d].pc = "attempt" /\ handler'[d].ts = handler[d].ts
      BY <2>5, Going DEF Steps
    <3>2. QED
      BY <1>1, <1>2, <3>1 DEF HandlerIsSound, Turn!Told
  <2>6. CASE Turn!Set(d, [handler[d] EXCEPT !.pc = "own", !.effect = "notice", !.text = "other"])
    BY <1>4, <1>5, <1>6, <2>6
  <2>7. QED
    BY <2>1, <2>2, <2>3, <2>4, <2>5, <2>6 DEF Turn!Body, Turn!Text
<1>9. QED
  BY <1>1, <1>3, <1>8, StoresStay DEF StoresAgree

(* An attempt that fails is recorded as failed.                            *)
LEMMA FailingKeepsAgreed ==
  ASSUME TurnConstants, TurnTypes, TurnTypes', StoresAgree, NEW d \in Turn!Delivery, HandlerIsSound(d), Stands,
         Turn!FailAttempt(d)
  PROVE  HandlerIsSound(d)' /\ StoresAgree'
<1>1. UNCHANGED <<completion, rt, ledger, booked, own, q>>
  BY DEF Turn!FailAttempt
<1>2. handler[d] \in Handlers /\ handler[d].out = "none" /\ handler[d].ts = 0 /\ handler[d].code # "none"
  BY DEF TurnTypes, HandlerIsSound, Turn!At, Turn!FailAttempt
<1>3. FilesAgree'
  <2>1. \A x \in Turn!Delivery : episode'[x] = "completed" => episode[x] = "completed"
    BY DEF Turn!FailAttempt, TurnTypes
  <2>2. notice' = "sent" => notice = "sent"
    BY DEF Turn!FailAttempt
  <2>3. QED
    BY <1>1, <2>1, <2>2 DEF FilesAgree, StoresAgree
<1>4. HandlerIsSound(d)'
  <2>1. CASE notice = "sent" /\ Turn!Result(d, "failed", own["notice"].ts, "book")
    <3>1. own["notice"].ts \in Turn!Ts /\ own["notice"].state = "succeeded"
      BY <2>1 DEF TurnTypes, Owners, Turn!Effect, StoresAgree, FilesAgree
    <3>2. handler'[d].pc = "book" /\ handler'[d].ts = own["notice"].ts /\ handler'[d].code = "none"
      BY <2>1, <3>1, Resulting DEF Turn!Outcome, Steps
    <3>3. QED
      BY <1>1, <3>1, <3>2 DEF HandlerIsSound, Turn!Told, Answered, Turn!Effect
  <2>2. CASE Turn!Set(d, [handler[d] EXCEPT !.pc = "own", !.effect = "notice", !.text = "first", !.fallback = TRUE])
    <3>1. [handler[d] EXCEPT !.pc = "own", !.effect = "notice", !.text = "first", !.fallback = TRUE] \in Handlers
      BY <1>2 DEF Handlers, Steps, Turn!Effect, Turn!Text
    <3>2. handler'[d] = [handler[d] EXCEPT !.pc = "own", !.effect = "notice", !.text = "first", !.fallback = TRUE]
      BY <2>2, <3>1, Setting
    <3>3. handler'[d].pc = "own" /\ handler'[d].ts = 0
      BY <1>2, <3>2 DEF Handlers
    <3>4. QED
      BY <3>3, Resting
  <2>3. CASE Turn!Goto(d, "bookfail")
    <3>1. handler'[d].pc = "bookfail" /\ handler'[d].ts = 0 /\ handler'[d].out = "none" /\ handler'[d].code # "none"
      BY <1>2, <2>3, Going DEF Steps
    <3>2. QED
      BY <3>1 DEF HandlerIsSound
  <2>4. QED
    BY <2>1, <2>2, <2>3 DEF Turn!FailAttempt
<1>5. QED
  BY <1>1, <1>3, <1>4, StoresStay DEF StoresAgree

(* A reply that was not delivered, and one that was, leave their delivery  *)
(* sound.                                                                  *)
LEMMA UndeliveredIsSound ==
  ASSUME TurnConstants, TurnTypes, NEW d \in Turn!Delivery, NEW c \in {"retry", "final"}, Turn!Undelivered(d, c)
  PROVE  HandlerIsSound(d)'
BY Undelivering DEF HandlerIsSound

LEMMA DeliveredIsSound ==
  ASSUME TurnConstants, TurnTypes, NEW d \in Turn!Delivery, NEW t \in Turn!Ts, Turn!Delivered(d, t),
         own'[handler[d].effect].state = "succeeded", own'[handler[d].effect].ts = t
  PROVE  HandlerIsSound(d)'
<1>1. handler[d].effect \in Turn!Effect
  BY DEF TurnTypes, Handlers
<1>2. Turn!Told(t)'
  BY <1>1 DEF Turn!Told
<1>3. QED
  BY <1>2, Delivering DEF HandlerIsSound, Turn!Told, Confirms

(* Owning the effect, posting it, and what is kept of the answer.          *)
LEMMA SlackKeepsAgreed ==
  ASSUME TurnConstants, TurnTypes, TurnTypes', StoresAgree, PostsAreCounted, NEW d \in Turn!Delivery,
         HandlerIsSound(d), Stands,
         Turn!Own(d) \/ Turn!Post(d) \/ Turn!Confirm(d) \/ Turn!Disown(d)
  PROVE  HandlerIsSound(d)' /\ StoresAgree'
<1>1. UNCHANGED <<completion, rt, ledger, booked, notice, episode, q>>
  BY DEF Turn!Own, Turn!Post, Turn!Confirm, Turn!Disown
<1>2. handler[d] \in Handlers /\ handler[d].effect \in Turn!Effect /\ handler[d].ts \in Turn!Ts
  BY DEF TurnTypes, Handlers
<1>3. ASSUME Turn!Goto(d, "disown") PROVE HandlerIsSound(d)'
  BY <1>3, Going DEF HandlerIsSound, Steps
<1>4. HandlerIsSound(d)'
  <2>1. CASE Turn!Own(d)
    <3>1. CASE Turn!Ownable(d) /\ Turn!Goto(d, "post")
               /\ own' = [own EXCEPT ![handler[d].effect] =
                            [state |-> "claimed", by |-> d, text |-> handler[d].text, ts |-> 0]]
      <4>1. own'[handler[d].effect].state = "claimed" /\ own'[handler[d].effect].by = d
        BY <1>2, <3>1 DEF TurnTypes
      <4>2. /\ handler'[d].pc = "post" /\ handler'[d].ts = handler[d].ts /\ handler'[d].effect = handler[d].effect
        BY <3>1, Going DEF Steps
      <4>3. handler[d].ts = 0 \/ \E e \in Turn!Effect : own'[e].state = "succeeded" /\ own'[e].ts = handler[d].ts
        BY <2>1 DEF Turn!Own, Turn!At, HandlerIsSound, Turn!Told, Stands
      <4>4. QED
        BY <4>1, <4>2, <4>3 DEF HandlerIsSound, Turn!Told
    <3>2. CASE Turn!Ours(d).state = "succeeded" /\ Turn!Delivered(d, Turn!Ours(d).ts) /\ UNCHANGED own
      <4>1. Turn!Ours(d).ts \in Turn!Ts
        BY <1>2 DEF Turn!Ours, TurnTypes, Owners
      <4>2. own'[handler[d].effect].state = "succeeded" /\ own'[handler[d].effect].ts = Turn!Ours(d).ts
        BY <3>2 DEF Turn!Ours
      <4>3. QED
        BY <3>2, <4>1, <4>2, DeliveredIsSound
    <3>3. CASE \E c \in {"retry", "final"} : Turn!Undelivered(d, c)
      BY <3>3, UndeliveredIsSound
    <3>4. QED
      BY <2>1, <3>1, <3>2, <3>3 DEF Turn!Own
  <2>2. CASE Turn!Post(d)
    <3>1. CASE Turn!Set(d, [handler[d] EXCEPT !.pc = "confirm", !.ts = Len(posts) + 1])
      <4>1. [handler[d] EXCEPT !.pc = "confirm", !.ts = Len(posts) + 1] \in Handlers
        BY <1>2, <2>2, Posting DEF Turn!Post, Handlers, Steps
      <4>2. handler'[d] = [handler[d] EXCEPT !.pc = "confirm", !.ts = Len(posts) + 1]
        BY <3>1, <4>1, Setting
      <4>3. handler'[d].pc = "confirm" /\ handler'[d].effect = handler[d].effect
        BY <1>2, <4>2 DEF Handlers
      <4>4. UNCHANGED own /\ own[handler[d].effect].state = "claimed" /\ own[handler[d].effect].by = d
        BY <2>2 DEF Turn!Post, Turn!At, HandlerIsSound
      <4>5. QED
        BY <4>3, <4>4 DEF HandlerIsSound
    <3>2. QED
      BY <1>3, <2>2, <3>1 DEF Turn!Post
  <2>3. CASE Turn!Confirm(d)
    <3>1. CASE own' = Turn!Confirmed(d) /\ Turn!Delivered(d, handler[d].ts)
      <4>1. own'[handler[d].effect].state = "succeeded" /\ own'[handler[d].effect].ts = handler[d].ts
        BY <1>2, <3>1 DEF Turn!Confirmed, TurnTypes, Owners
      <4>2. QED
        BY <1>2, <3>1, <4>1, DeliveredIsSound
    <3>2. QED
      BY <1>3, <2>3, <3>1 DEF Turn!Confirm
  <2>4. CASE Turn!Disown(d)
    BY <2>4, UndeliveredIsSound DEF Turn!Disown
  <2>5. QED
    BY <2>1, <2>2, <2>3, <2>4
<1>5. QED
  BY <1>1, <1>4, StoresStay DEF StoresAgree

(* What is written once the reply is confirmed.                            *)
LEMMA EndingKeepsAgreed ==
  ASSUME TurnConstants, TurnTypes, TurnTypes', StoresAgree, NEW d \in Turn!Delivery, HandlerIsSound(d), Stands,
         Turn!Noted(d) \/ Turn!Complete(d) \/ Turn!Persist(d)
  PROVE  HandlerIsSound(d)' /\ StoresAgree'
<1>1. UNCHANGED <<rt, ledger, booked, own, q>>
  BY DEF Turn!Noted, Turn!Complete, Turn!Persist
<1>2. handler[d] \in Handlers /\ handler[d].ts \in Turn!Ts
  BY DEF TurnTypes, Handlers
<1>3. ASSUME NEW s \in {"failed", "bookfail"}, Turn!Raise(d, "retry", s) PROVE HandlerIsSound(d)'
  BY <1>3, Raising DEF HandlerIsSound, Steps, Turn!Code
<1>4. CASE Turn!Noted(d)
  <2>1. Confirms("notice", handler[d].ts)
    BY <1>4 DEF Turn!Noted, Turn!At, HandlerIsSound
  <2>2. Answered /\ Turn!Told(handler[d].ts)
    BY <2>1 DEF Confirms, Answered, Turn!Told, Turn!Effect
  <2>3. handler'[d].pc = "book" /\ handler'[d].ts = handler[d].ts /\ handler'[d].code = "none"
    BY <1>2, <1>4, Resulting DEF Turn!Noted, Turn!Outcome, Steps
  <2>4. HandlerIsSound(d)'
    BY <1>1, <2>2, <2>3 DEF HandlerIsSound, Turn!Told, Answered
  <2>5. FilesAgree'
    BY <1>1, <1>4, <2>1 DEF FilesAgree, StoresAgree, Turn!Noted, Confirms
  <2>6. QED
    BY <1>1, <1>4, <2>4, <2>5, StoresStay DEF StoresAgree, Turn!Noted
<1>5. CASE Turn!Complete(d)
  <2>1. Confirms("reply", handler[d].ts)
    BY <1>5 DEF Turn!Complete, Turn!At, HandlerIsSound
  <2>2. ASSUME Turn!Goto(d, "persist") PROVE HandlerIsSound(d)'
    <3>1. handler'[d].pc = "persist" /\ handler'[d].ts = handler[d].ts
      BY <2>2, Going DEF Steps
    <3>2. QED
      <4>1. own'["reply"].state = "succeeded" /\ own'["reply"].ts = handler'[d].ts
        BY <1>1, <2>1, <3>1 DEF Confirms
      <4>2. \E e \in Turn!Effect : own'[e].state = "succeeded" /\ own'[e].ts = handler'[d].ts
        BY <4>1 DEF Turn!Effect
      <4>3. Turn!Told(handler[d].ts)' /\ Confirms("reply", handler[d].ts)'
        BY <4>1, <4>2 DEF Turn!Told, Confirms
      <4>4. QED
        BY <3>1, <4>3 DEF HandlerIsSound
  <2>3. HandlerIsSound(d)'
    BY <1>3, <1>5, <2>2 DEF Turn!Complete
  <2>4. FilesAgree'
    BY <1>1, <1>5, <2>1 DEF FilesAgree, StoresAgree, Turn!Complete, Confirms
  <2>5. QED
    BY <1>1, <1>5, <2>3, <2>4, StoresStay DEF StoresAgree, Turn!Complete
<1>6. CASE Turn!Persist(d)
  <2>1. Confirms("reply", handler[d].ts)
    BY <1>6 DEF Turn!Persist, Turn!At, HandlerIsSound
  <2>2. Answered /\ Turn!Told(handler[d].ts)
    BY <2>1 DEF Confirms, Answered, Turn!Told, Turn!Effect
  <2>3. ASSUME NEW o \in {"accepted", "disabled", "replied"}, NEW s \in {"settle", "book"}, Turn!Result(d, o, handler[d].ts, s)
        PROVE  HandlerIsSound(d)'
    <3>1. handler'[d].pc = s /\ handler'[d].ts = handler[d].ts /\ handler'[d].code = "none"
      BY <1>2, <2>3, Resulting DEF Turn!Outcome, Steps
    <3>2. QED
      BY <1>1, <2>2, <3>1 DEF HandlerIsSound, Turn!Told, Answered
  <2>4. HandlerIsSound(d)'
    <3>1. CASE Turn!Raise(d, "retry", Turn!Thrown)
      BY <1>3, <3>1 DEF Turn!Thrown
    <3>2. CASE \E o \in {"accepted", "disabled", "replied"},
                s \in {"settle", "book"} : Turn!Result(d, o, handler[d].ts, s)
      BY <2>3, <3>2
    <3>3. QED
      BY <1>6, <3>1, <3>2 DEF Turn!Persist
  <2>5. CompletionAgrees'
    BY <1>1, <1>6, <2>1 DEF CompletionAgrees, StoresAgree, Turn!Persist, Confirms
  <2>6. QED
    BY <1>1, <1>6, <2>4, <2>5, StoresStay DEF StoresAgree, Turn!Persist
<1>7. QED
  BY <1>4, <1>5, <1>6

Agreed == TurnTypes /\ PostsAreCounted /\ StoresAgree /\ \A d \in Turn!Delivery : HandlerIsSound(d)

(* So every step of a delivery keeps Agreed, and so does the world.        *)
LEMMA StepKeepsAgreed ==
  ASSUME TurnConstants, Agreed, NEW d \in Turn!Delivery, Turn!Deliver(d) \/ Turn!Step(d) \/ Turn!Crash(d)
  PROVE  Agreed'
<1> USE DEF Agreed
<1>1. TurnTypes' /\ Others(d)
  BY QueueKeepsTypes, RuntimeKeepsTypes, AccountingKeepsTypes, BodyKeepsTypes, SlackKeepsTypes DEF Turn!Step
<1>2. Stands /\ Spares(d)
  BY StepStands DEF StoresAgree
<1>3. HandlerIsSound(d)' /\ StoresAgree'
  BY <1>1, <1>2, QueueKeepsAgreed, RuntimeKeepsAgreed, BookKeepsAgreed, WriteKeepsAgreed, ReadingKeepsAgreed,
     BodyKeepsAgreed,
     FailingKeepsAgreed, SlackKeepsAgreed, EndingKeepsAgreed DEF Turn!Step
<1>4. \A x \in Turn!Delivery : HandlerIsSound(x)'
  BY <1>1, <1>2, <1>3, OthersStaySound
<1>5. PostsAreCounted'
  <2>1. CASE Turn!Deliver(d)
    BY <1>1, <2>1, DeliverKeepsCount
  <2>2. CASE Turn!Post(d)
    BY <1>1, <2>2, PostKeepsCount
  <2>3. CASE ~Turn!Deliver(d) /\ ~Turn!Post(d)
    <3>1. /\ d \in MayPost' => d \in MayPost
          /\ UNCHANGED posts /\ msg'.sent = msg.sent /\ handler[d].pc # "off"
      BY <2>3, Entering, Answering DEF Turn!Step
    <3>2. QED
      BY <1>1, <3>1, CountIsKept
  <2>4. QED
    BY <2>1, <2>2, <2>3
<1>6. QED
  BY <1>1, <1>3, <1>4, <1>5

LEMMA WorldKeepsAgreed ==
  ASSUME TurnConstants, Agreed, Turn!Due \/ Turn!A0Completes \/ Turn!Lapse \/ Turn!Expire \/ Turn!Redeliver
  PROVE  Agreed'
<1> USE DEF Agreed
<1>1. TurnTypes' /\ UNCHANGED handler
  BY EventsKeepTypes
<1>2. UNCHANGED <<own, ledger, booked, completion, notice, episode, posts>> /\ msg'.sent = msg.sent
      /\ rt'.by = rt.by
  BY DEF Turn!Due, Turn!A0Completes, Turn!Lapse, Turn!Expire, Turn!Redeliver, Turn!stores, TurnTypes, Messages,
     RuntimeClaims
<1>3. PostsAreCounted'
  BY <1>1, <1>2 DEF PostsAreCounted, MayPost
<1>4. ASSUME NEW d \in Turn!Delivery PROVE HandlerIsSound(d)'
  BY <1>1, <1>2 DEF HandlerIsSound, Turn!Told, Confirms, Answered, Turn!Payload, Turn!Owed
<1>5. Stands
  BY <1>2 DEF Stands, Turn!Owed, Turn!Payload
<1>6. RuntimeAgrees'
  BY <1>2 DEF RuntimeAgrees, StoresAgree, Turn!Told, Turn!Due, Turn!A0Completes, Turn!Lapse, Turn!Expire,
     Turn!Redeliver, Turn!stores, TurnTypes, RuntimeClaims
<1>7. QueueAgrees'
  BY <1>2 DEF QueueAgrees, StoresAgree, Answered, Turn!Due, Turn!A0Completes, Turn!Lapse, Turn!Expire,
     Turn!Redeliver, Turn!stores, TurnTypes, QueueClaims
<1>8. QED
  BY <1>1, <1>2, <1>3, <1>4, <1>5, <1>6, <1>7, StoresStay DEF StoresAgree

(* Agreed is inductive, and says all that the run checks.                  *)
LEMMA AgreedAtFirst == ASSUME TurnConstants, Turn!Init PROVE Agreed
<1> USE DEF Turn!Init
<1>1. TurnTypes
  <2>1. msg \in Messages /\ 0 \in 0..MaxFaults
    BY DEF Messages, TurnConstants
  <2>2. rt \in RuntimeClaims
    <3>1. 0 \in -1..MaxDeliveries /\ -1 \in -1..MaxDeliveries
      BY DEF TurnConstants
    <3>2. QED
      <4>1. /\ [state |-> "none", by |-> 0, live |-> FALSE, ts |-> 0] \in RuntimeClaims
            /\ [state |-> "processing", by |-> -1, live |-> TRUE, ts |-> 0] \in RuntimeClaims
        BY <3>1, Values DEF RuntimeClaims
      <4>2. QED
        BY <4>1 DEF Turn!Nobody, Turn!A0
  <2>3. posts \in Seq(Turn!Effect)
    OBVIOUS
  <2>4. QED
    BY <2>1, <2>2, <2>3, Values DEF TurnTypes, Attempts
<1>2. PostsAreCounted
  <2>1. MayPost = {}
    BY DEF MayPost, Turn!Idle, Early
  <2>2. QED
    BY <2>1, FS_EmptySet, Values DEF PostsAreCounted, Turn!Idle
<1>3. \A d \in Turn!Delivery : HandlerIsSound(d)
  BY DEF HandlerIsSound, Turn!Idle
<1>4. StoresAgree
  BY DEF StoresAgree, CompletionAgrees, RuntimeAgrees, LedgerAgrees, FilesAgree, QueueAgrees, Turn!NoEntry,
     Turn!Free, Turn!A0, Turn!Nobody
<1>5. QED
  BY <1>1, <1>2, <1>3, <1>4 DEF Agreed

LEMMA AgreedIsKept == ASSUME TurnConstants, Agreed, [Turn!Next]_Turn!vars PROVE Agreed'
<1>1. CASE UNCHANGED Turn!vars
  BY <1>1 DEF Turn!vars, Turn!stores, Agreed, TurnTypes, PostsAreCounted, MayPost, HandlerIsSound, StoresAgree,
     CompletionAgrees,
     RuntimeAgrees, LedgerAgrees, FilesAgree, QueueAgrees, Turn!Told, Confirms, Answered, Turn!Payload, Turn!Owed
<1>2. CASE Turn!Next
  BY <1>2, StepKeepsAgreed, WorldKeepsAgreed DEF Turn!Next
<1>3. QED
  BY <1>1, <1>2

LEMMA AgreedIsEnough ==
  ASSUME TurnConstants, Agreed PROVE Turn!TypeOK /\ Turn!RecordsAgree /\ Turn!SucceededIsAnswered /\ Turn!BookedOnce
<1> USE DEF Agreed
<1>1. Turn!TypeOK
  <2>1. Len(posts) \in Turn!Ts
    <3>1. IsFiniteSet(Turn!Delivery)
      BY FS_Interval DEF Turn!Delivery, TurnConstants
    <3>2. Cardinality(MayPost) \in Nat
      BY <3>1, FS_Subset, FS_CardinalityType DEF MayPost
    <3>3. Len(posts) \in Nat /\ msg.sent \in 0..MaxDeliveries
      BY LenProperties DEF TurnTypes, Messages
    <3>4. QED
      BY <3>2, <3>3 DEF PostsAreCounted, Turn!Ts, TurnConstants
  <2>2. QED
    BY <2>1 DEF TurnTypes, Turn!TypeOK, Messages, QueueClaims, RuntimeClaims, Entries, Receipts, Owners,
       Attempts, Handlers
<1>2. Turn!RecordsAgree
  <2>1. \A p \in booked : p.ts # 0 => Turn!Told(p.ts)
    BY DEF StoresAgree, LedgerAgrees, Turn!Owed, Turn!Payload
  <2>2. QED
    BY <2>1 DEF Turn!RecordsAgree, StoresAgree, CompletionAgrees, RuntimeAgrees, Confirms
<1>3. Turn!SucceededIsAnswered
  BY DEF Turn!SucceededIsAnswered, StoresAgree, QueueAgrees, Answered
<1>4. Turn!BookedOnce
  BY DEF Turn!BookedOnce, StoresAgree, LedgerAgrees
<1>5. QED
  BY <1>1, <1>2, <1>3, <1>4

(* Only the owner of a claimed effect posts it, so a confirmed one is not  *)
(* posted again.                                                           *)
LEMMA ConfirmedIsLast ==
  ASSUME TurnConstants, Agreed, [Turn!Next]_Turn!vars, NEW e \in Turn!Effect, own[e].state = "succeeded",
         posts' # posts
  PROVE  posts'[Len(posts')] # e
<1>1. PICK d \in Turn!Delivery : Turn!Post(d)
  <2>1. ASSUME NEW d \in Turn!Delivery, Turn!Deliver(d) \/ Turn!Step(d) \/ Turn!Crash(d), ~Turn!Post(d) PROVE UNCHANGED posts
    BY <2>1, Entering, Answering DEF Turn!Step, Turn!Deliver, Turn!stores, Agreed
  <2>2. Turn!Due \/ Turn!A0Completes \/ Turn!Lapse \/ Turn!Expire \/ Turn!Redeliver \/ UNCHANGED Turn!vars => UNCHANGED posts
    BY DEF Turn!Due, Turn!A0Completes, Turn!Lapse, Turn!Expire, Turn!Redeliver, Turn!vars, Turn!stores
  <2>3. QED
    BY <2>1, <2>2 DEF Turn!Next, Turn!Step
<1>2. handler[d].effect \in Turn!Effect /\ own[handler[d].effect].state = "claimed" /\ posts \in Seq(Turn!Effect)
  BY <1>1 DEF Agreed, HandlerIsSound, Turn!Post, Turn!At, TurnTypes, Handlers
<1>3. posts' = Append(posts, handler[d].effect)
  BY <1>1 DEF Turn!Post
<1>4. Len(posts') = Len(posts) + 1 /\ posts'[Len(posts) + 1] = handler[d].effect
  BY <1>2, <1>3, AppendProperties
<1>5. QED
  BY <1>2, <1>4

(* And nothing that is settled is written over.                            *)
LEMMA SettledStays ==
  ASSUME TurnConstants, Agreed, [Turn!Next]_Turn!vars
  PROVE  /\ \A e \in Turn!Effect : own[e].state = "succeeded" => own'[e] = own[e]
         /\ rt.state = "completed" => rt' = rt
         /\ ledger.state = "written" => ledger' = ledger
         /\ q.state \in {"succeeded", "failed"} => q' = q
<1>1. CASE Turn!Due \/ Turn!A0Completes \/ Turn!Lapse \/ Turn!Expire \/ Turn!Redeliver \/ UNCHANGED Turn!vars
  BY <1>1 DEF Turn!Due, Turn!A0Completes, Turn!Lapse, Turn!Expire, Turn!Redeliver, Turn!vars, Turn!stores
<1>2. ASSUME NEW d \in Turn!Delivery, Turn!Deliver(d) \/ Turn!Step(d) \/ Turn!Crash(d)
      PROVE  /\ \A e \in Turn!Effect : own[e].state = "succeeded" => own'[e] = own[e]
             /\ rt.state = "completed" => rt' = rt
             /\ ledger.state = "written" => ledger' = ledger
             /\ q.state \in {"succeeded", "failed"} => q' = q
  <2>1. \A e \in Turn!Effect : own[e].state = "succeeded" => own'[e] = own[e]
    BY <1>2, StepStands DEF Agreed, StoresAgree, Stands
  <2>2. CASE Turn!Deliver(d) \/ Turn!ClaimQueue(d) \/ Turn!QueueDone(d) \/ Turn!QueueFails(d) \/ Turn!Crash(d)
    BY <2>1, <2>2 DEF Turn!Deliver, Turn!ClaimQueue, Turn!QueueDone, Turn!QueueFails, Turn!Crash, Turn!stores
  <2>3. CASE Turn!Enter(d) \/ Turn!SettleRuntime(d) \/ Turn!Unwind(d)
    BY <2>1, <2>3 DEF Turn!Enter, Turn!SettleRuntime, Turn!Unwind, Turn!MayRelease
  <2>4. CASE Turn!ReadPending(d) \/ Turn!Quota(d) \/ Turn!Book(d) \/ Turn!Write(d)
    BY <2>1, <2>4 DEF Turn!ReadPending, Turn!Quota, Turn!Book, Turn!Write, Turn!stores
  <2>5. CASE Turn!Body(d) \/ Turn!StartAttempt(d) \/ Turn!Generate(d) \/ Turn!Audit(d) \/ Turn!FailAttempt(d)
    BY <2>1, <2>5 DEF Turn!Body, Turn!StartAttempt, Turn!Generate, Turn!Audit, Turn!FailAttempt, Turn!stores
  <2>6. CASE Turn!Own(d) \/ Turn!Post(d) \/ Turn!Confirm(d) \/ Turn!Disown(d) \/ Turn!Noted(d)
              \/ Turn!Complete(d) \/ Turn!Persist(d)
    BY <2>1, <2>6 DEF Turn!Own, Turn!Post, Turn!Confirm, Turn!Disown, Turn!Noted, Turn!Complete, Turn!Persist
  <2>7. QED
    BY <1>2, <2>2, <2>3, <2>4, <2>5, <2>6 DEF Turn!Step
<1>3. QED
  BY <1>1, <1>2 DEF Turn!Next

(* What the run checks of a turn, of every behaviour.                      *)
LEMMA TurnHolds ==
  ASSUME TurnConstants
  PROVE  Turn!Init /\ [][Turn!Next]_Turn!vars =>
           [](Turn!TypeOK /\ Turn!RecordsAgree /\ Turn!SucceededIsAnswered /\ Turn!BookedOnce) /\ Turn!ConfirmedReplyIsLast /\ Turn!SettledIsFinal
<1>1. Turn!Init => Agreed
  BY AgreedAtFirst
<1>2. Agreed /\ [Turn!Next]_Turn!vars => Agreed'
  BY AgreedIsKept
<1>3. Agreed => Turn!TypeOK /\ Turn!RecordsAgree /\ Turn!SucceededIsAnswered /\ Turn!BookedOnce
  BY AgreedIsEnough
<1>4. Agreed /\ [Turn!Next]_Turn!vars =>
        [\A e \in Turn!Effect : (own[e].state = "succeeded" /\ posts' # posts) => posts'[Len(posts')] # e]_Turn!vars
  BY ConfirmedIsLast
<1>5. Agreed /\ [Turn!Next]_Turn!vars =>
        [/\ \A e \in Turn!Effect : own[e].state = "succeeded" => own'[e] = own[e]
         /\ rt.state = "completed" => rt' = rt
         /\ ledger.state = "written" => ledger' = ledger
         /\ q.state \in {"succeeded", "failed"} => q' = q]_Turn!vars
  BY SettledStays
<1>6. QED
  BY <1>1, <1>2, <1>3, <1>4, <1>5, PTL DEF Turn!ConfirmedReplyIsLast, Turn!SettledIsFinal

-----------------------------------------------------------------------------
(* The container.                                                          *)

(* The times are natural numbers.                                          *)
ContainerConstants == Ttl \in Nat /\ Ahead \in Nat /\ Budget \in Nat /\ MaxRevs \in Nat

(* What every variable can hold.                                           *)
Countdowns == {Container!Off, Container!Past} \cup 0 .. Ttl
ObjectHandlers == [at : {"idle", "asked", "validate", "done", "refused"}, ctx : Container!Contexts]
Objects == [ctx : Container!Contexts, alarm : Countdowns, handler : ObjectHandlers, lost : BOOLEAN]
Runs == [at : {"idle", "prepare", "start", "poll", "reconnect", "restart", "destroy", "post", "done", "failed"},
         left : {Container!Off, Container!Past} \cup 0 .. Budget, resumed : BOOLEAN, bad : BOOLEAN]
Boxes == [up : BOOLEAN, proc : {"none", "running", "completed", "exited"}, turns : 0 .. 3, resumes : 0 .. 3]
Requests == [at : {"none", "validate", "lease", "sent"}, ctx : Container!Contexts]
Exchanges == [at : {"idle", "issue", "send", "await"}, ctx : Container!Contexts]

(* A context grows older and stays one; what counts down stays in range.   *)
LEMMA Aging ==
  ASSUME ContainerConstants, NEW c \in Container!Contexts
  PROVE  /\ Container!Aged(c) \in Container!Contexts /\ Container!NoContext \in Container!Contexts
         /\ Container!Aged(c) = Container!NoContext <=> c = Container!NoContext
         /\ Container!Aged(c).left = Container!Less(c.left)
<1>1. Container!NoContext \in Container!Contexts
  BY DEF Container!Contexts
<1>2. CASE c = Container!NoContext
  <2>1. Container!Aged(c) = c
    BY <1>2 DEF Container!Aged, Container!Less, Container!NoContext, Container!Off, Container!Past
  <2>2. QED
    BY <1>1, <1>2, <2>1 DEF Container!NoContext, Container!Less, Container!Off, Container!Past
<1>3. CASE c \in [left : Container!Past .. Ttl, rev : 0 .. MaxRevs]
  <2>1. Container!Less(c.left) \in Container!Past .. Ttl
    BY <1>3 DEF Container!Less, Container!Past, ContainerConstants
  <2>2. Container!Aged(c) \in [left : Container!Past .. Ttl, rev : 0 .. MaxRevs] /\ Container!Aged(c).left = Container!Less(c.left)
    BY <1>3, <2>1 DEF Container!Aged
  <2>3. \A x \in [left : Container!Past .. Ttl, rev : 0 .. MaxRevs] : x # Container!NoContext
    BY DEF Container!NoContext, Container!Off, Container!Past
  <2>4. QED
    BY <1>1, <1>3, <2>2, <2>3 DEF Container!Contexts
<1>4. QED
  BY <1>2, <1>3 DEF Container!Contexts

LEMMA CountingDown ==
  ASSUME ContainerConstants
  PROVE  /\ \A c \in Countdowns : Container!Less(c) \in Countdowns
         /\ \A c \in {Container!Off, Container!Past} \cup 0 .. Budget : Container!Less(c) \in {Container!Off, Container!Past} \cup 0 .. Budget
         /\ \A c \in Container!Past .. Ttl : Container!Less(c) \in Container!Past .. Ttl /\ Container!RefreshDelay(c) \in Countdowns
         /\ \A c \in Container!Contexts : Container!RefreshDelay(c.left) \in Countdowns /\ (c.left > 0 => c.left \in Countdowns)
         /\ Container!Off \in Countdowns /\ Container!Past .. Ttl \subseteq Countdowns
<1>1. \A c \in Container!Contexts : c.left \in {Container!Off} \cup Container!Past .. Ttl
  BY DEF Container!Contexts, Container!NoContext
<1>2. QED
  BY <1>1 DEF ContainerConstants, Countdowns, Container!Less, Container!RefreshDelay, Container!Off,
     Container!Past

ContainerTypes ==
  /\ mode \in Container!Modes /\ conn \in 0 .. MaxRevs
  /\ op \in {"register", "execute", "rejecting", "resolving", "crashed"} \cup Container!Ended
  /\ known \in Container!Past .. Ttl /\ timer \in Countdowns
  /\ refresh \in Exchanges /\ boundary \in Objects /\ run \in Runs /\ box \in Boxes /\ req \in Requests
  /\ posted \in {"no", "attempted", "yes"} /\ told \in {"nothing", "not_attempted", "unknown"}

(* How often the process was started, by the step the execution is at.     *)
GivenOnce ==
  /\ box.turns <= 1 /\ box.resumes <= 1
  /\ run.at \in {"idle", "prepare"} => ~run.resumed
  /\ run.at \in {"reconnect", "restart"} => run.resumed
  /\ ~run.resumed => box.resumes = 0
  /\ run.at \in {"idle", "prepare", "start"} /\ ~run.resumed => box.turns = 0
  /\ run.at \in {"start", "reconnect", "restart"} => box.resumes = 0

(* Who posts has no container any more, and minutes never post.            *)
PostIsAlone ==
  /\ run.at = "post" => ~box.up
  /\ posted # "no" => run.at \in {"post", "done", "failed"} /\ ~box.up
  /\ mode = "minutes" => run.at \in {"idle", "prepare", "done", "failed"}

RunIsSound == GivenOnce /\ PostIsAlone

(* The refresh timer runs only under an execution and never during a       *)
(* refresh; before it there is no context, after it no refresh.            *)
WorkerIsSound ==
  /\ op # "execute" => timer = Container!Off
  /\ op \in {"register"} \cup Container!Ended => refresh = Container!NoRefresh
  /\ refresh.at # "idle" => timer = Container!Off
  /\ op = "register" => boundary.ctx = Container!NoContext /\ ~boundary.lost /\ run.at = "idle"

(* The object works on a refresh the Worker waits for or has lost, and its *)
(* alarm is that of its context.                                           *)
ObjectIsSound ==
  /\ boundary.handler.at # "idle" => refresh.at = "await" \/ boundary.lost
  /\ boundary.ctx # Container!NoContext => boundary.alarm = boundary.ctx.left

Confined == ContainerTypes /\ RunIsSound /\ WorkerIsSound /\ ObjectIsSound /\ Container!EndedIsUnauthorized

runVars == <<run, box, posted>>
workVars == <<op, timer, refresh, boundary>>

(* Every step keeps the types: the execution, the Worker, and the rest.    *)
LEMMA RunKeepsTypes ==
  ASSUME ContainerConstants, ContainerTypes, GivenOnce, Container!Reply
  PROVE  ContainerTypes'
<1>1. run' \in Runs
  <2>1. \A s \in {"done", "failed", "start", "restart", "post"} : Container!Going(s) \in Runs
    BY DEF Container!Going, ContainerTypes, Runs
  <2>2. /\ Container!Broken \in Runs /\ Container!On500 \in Runs /\ [run EXCEPT !.at = "poll", !.left = Budget] \in Runs
        /\ [run EXCEPT !.at = "destroy", !.left = Container!Off] \in Runs
        /\ [run EXCEPT !.at = "start", !.left = Container!Off, !.resumed = TRUE] \in Runs
    <3>1. /\ [run EXCEPT !.at = "destroy", !.left = Container!Off, !.bad = TRUE] \in Runs
          /\ [run EXCEPT !.at = "reconnect", !.left = Container!Off, !.resumed = TRUE] \in Runs
          /\ [run EXCEPT !.at = "poll", !.left = Budget] \in Runs
          /\ [run EXCEPT !.at = "destroy", !.left = Container!Off] \in Runs
          /\ [run EXCEPT !.at = "start", !.left = Container!Off, !.resumed = TRUE] \in Runs
      <4>1. Budget \in {Container!Off, Container!Past} \cup 0 .. Budget
        BY DEF ContainerConstants
      <4>2. QED
        BY <4>1 DEF ContainerTypes, Runs
    <3>2. QED
      BY <3>1 DEF Container!Broken, Container!On500
  <2>3. QED
    BY <2>1, <2>2 DEF Container!Reply, Container!RunStep, Container!OtherExecution, Container!Prepare,
       Container!Start, Container!Poll, Container!PollFails, Container!Claude, Container!Reconnect,
       Container!Parse,
       Container!Destroy, Container!Destroyed, Container!PostBegins, Container!Post, Container!Sleep, ContainerTypes
<1>2. box' \in Boxes
  <2>1. [box EXCEPT !.up = TRUE] \in Boxes /\ [box EXCEPT !.up = FALSE, !.proc = "none"] \in Boxes
    BY DEF ContainerTypes, Boxes
  <2>2. \A p \in {"completed", "exited", "running"} : [box EXCEPT !.proc = p] \in Boxes
    BY DEF ContainerTypes, Boxes
  <2>3. Container!Started \in Boxes
    <3>1. \A t \in 0 .. 3, n \in 0 .. 3 : [box EXCEPT !.proc = "running", !.turns = t, !.resumes = n] \in Boxes
      BY DEF ContainerTypes, Boxes
    <3>2. /\ box.turns \in 0 .. 3 /\ box.turns <= 1 /\ box.resumes \in 0 .. 3 /\ box.resumes <= 1
      BY DEF ContainerTypes, Boxes, GivenOnce
    <3>3. box.turns + 1 \in 0 .. 3 /\ box.resumes + 1 \in 0 .. 3
      BY <3>2
    <3>4. QED
      BY <3>1, <3>2, <3>3 DEF Container!Started
  <2>4. QED
    BY <2>1, <2>2, <2>3 DEF Container!Reply, Container!RunStep, Container!OtherExecution, Container!Prepare,
       Container!Start, Container!Poll, Container!PollFails, Container!Claude, Container!Reconnect,
       Container!Parse,
       Container!Destroy, Container!PostBegins, Container!Post, Container!Sleep, ContainerTypes
<1>3. posted' \in {"no", "attempted", "yes"}
  BY DEF Container!Reply, Container!RunStep, Container!OtherExecution, Container!Prepare, Container!Start,
     Container!Poll, Container!PollFails, Container!Claude, Container!Reconnect, Container!Parse,
     Container!Destroy, Container!PostBegins, Container!Post, Container!Sleep, ContainerTypes
<1>4. UNCHANGED <<mode, conn, op, known, timer, refresh, boundary, req, told>>
  BY DEF Container!Reply, Container!RunStep, Container!OtherExecution, Container!Prepare, Container!Start,
     Container!Poll, Container!PollFails, Container!Claude, Container!Reconnect, Container!Parse,
     Container!Destroy, Container!PostBegins, Container!Post, Container!Sleep, Container!worker
<1>5. QED
  BY <1>1, <1>2, <1>3, <1>4 DEF ContainerTypes

LEMMA WorkerKeepsTypes ==
  ASSUME ContainerConstants, ContainerTypes, Container!Worker
  PROVE  ContainerTypes'
<1> USE Aging, CountingDown DEF ContainerTypes
<1>1. CASE Container!Register
  <2>1. known > 0 => [left |-> known, rev |-> 0] \in Container!Contexts /\ known \in Countdowns
    BY DEF Container!Contexts, Container!Past, ContainerConstants
  <2>2. boundary' \in Objects /\ run' \in Runs /\ timer' \in Countdowns
    BY <1>1, <2>1 DEF Container!Register, Objects, Runs
  <2>3. QED
    BY <1>1, <2>2 DEF Container!Register, Container!Ended
<1>2. CASE Container!TimerFires
  BY <1>2 DEF Container!TimerFires, Exchanges
<1>3. CASE Container!Issue
  <2>1. [left |-> Ttl, rev |-> conn] \in Container!Contexts /\ Ttl \in Container!Past .. Ttl
    BY DEF Container!Contexts, Container!Past, ContainerConstants
  <2>2. refresh' \in Exchanges
    BY <1>3, <2>1 DEF Container!Issue, Exchanges, Container!NoRefresh
  <2>3. QED
    BY <1>3, <2>1, <2>2 DEF Container!Issue, Container!RejectedBy
<1>4. CASE Container!Send
  <2>1. refresh' \in Exchanges /\ boundary' \in Objects
    BY <1>4 DEF Container!Send, Exchanges, Objects, ObjectHandlers
  <2>2. QED
    BY <1>4, <2>1 DEF Container!Send
<1>5. CASE Container!RefreshAnswered
  <2>1. refresh' \in Exchanges /\ boundary' \in Objects
    BY <1>5 DEF Container!RefreshAnswered, Exchanges, Objects, ObjectHandlers, Container!NoRefresh,
       Container!NoHandler
  <2>2. timer' \in Countdowns
    BY <1>5 DEF Container!RefreshAnswered, Exchanges
  <2>3. QED
    BY <1>5, <2>1, <2>2 DEF Container!RefreshAnswered, Container!RejectedBy
<1>6. CASE Container!RefreshLost
  <2>1. refresh' \in Exchanges /\ boundary' \in Objects
    BY <1>6 DEF Container!RefreshLost, Exchanges, Objects, Container!NoRefresh
  <2>2. QED
    BY <1>6, <2>1 DEF Container!RefreshLost, Container!RejectedBy
<1>7. CASE Container!ExecuteSettles
  BY <1>7 DEF Container!ExecuteSettles
<1>8. CASE Container!Finally
  <2>1. boundary' \in Objects
    BY <1>8 DEF Container!Finally, Objects
  <2>2. QED
    BY <1>8, <2>1 DEF Container!Finally, Container!ReplyState, Container!Ended
<1>9. CASE Container!Cancel
  BY <1>9 DEF Container!Cancel, Runs, Container!worker
<1>10. CASE Container!Crash
  <2>1. refresh' \in Exchanges /\ boundary' \in Objects /\ run' \in Runs
    BY <1>10 DEF Container!Crash, Exchanges, Objects, Runs, Container!NoRefresh
  <2>2. QED
    BY <1>10, <2>1 DEF Container!Crash
<1>11. QED
  BY <1>1, <1>2, <1>3, <1>4, <1>5, <1>6, <1>7, <1>8, <1>9, <1>10 DEF Container!Worker

LEMMA RestKeepsTypes ==
  ASSUME ContainerConstants, ContainerTypes,
         Container!Tick \/ Container!Revise \/ Container!Boundary \/ Container!Admit \/ Container!Forward
  PROVE  ContainerTypes'
<1> USE Aging, CountingDown DEF ContainerTypes
<1>1. CASE Container!Tick
  <2>1. refresh' \in Exchanges /\ req' \in Requests
    BY <1>1 DEF Container!Tick, Exchanges, Requests
  <2>2. boundary' \in Objects
    <3>1. Container!Aged(boundary.ctx) \in Container!Contexts /\ Container!Aged(boundary.handler.ctx) \in Container!Contexts /\ Container!Less(boundary.alarm) \in Countdowns
      BY DEF Objects, ObjectHandlers
    <3>2. QED
      BY <1>1, <3>1 DEF Container!Tick, Objects, ObjectHandlers
  <2>3. run' \in Runs
    BY <1>1 DEF Container!Tick, Runs
  <2>4. QED
    BY <1>1, <2>1, <2>2, <2>3 DEF Container!Tick
<1>2. CASE Container!Revise
  BY <1>2 DEF Container!Revise, Container!worker, ContainerConstants
<1>3. CASE Container!RefreshBegins
  <2>1. boundary' \in Objects
    BY <1>3 DEF Container!RefreshBegins, Objects, ObjectHandlers
  <2>2. QED
    BY <1>3, <2>1 DEF Container!RefreshBegins
<1>4. CASE Container!RefreshStores
  <2>1. boundary' \in Objects
    BY <1>4 DEF Container!RefreshStores, Objects, ObjectHandlers, Container!Valid
  <2>2. QED
    BY <1>4, <2>1 DEF Container!RefreshStores
<1>5. CASE Container!Alarm
  <2>1. boundary' \in Objects
    BY <1>5 DEF Container!Alarm, Objects
  <2>2. QED
    BY <1>5, <2>1 DEF Container!Alarm
<1>6. CASE Container!Resolve
  <2>1. boundary' \in Objects /\ req' \in Requests
    BY <1>6 DEF Container!Resolve, Objects, Requests, Container!NoRequest
  <2>2. QED
    BY <1>6, <2>1 DEF Container!Resolve
<1>7. CASE Container!Admit \/ Container!Forward
  <2>1. req' \in Requests
    BY <1>7 DEF Container!Admit, Container!Forward, Requests, Container!NoRequest
  <2>2. QED
    BY <1>7, <2>1 DEF Container!Admit, Container!Forward, Container!worker
<1>8. QED
  BY <1>1, <1>2, <1>3, <1>4, <1>5, <1>6, <1>7 DEF Container!Boundary

(* How the execution of a reply moves: the container, the process and the  *)
(* post, by its step.                                                      *)
LEMMA ReplyMoves ==
  ASSUME ContainerTypes, RunIsSound, Container!Reply
  PROVE  /\ box.turns \in 0 .. 3 /\ box.resumes \in 0 .. 3 /\ box.up \in BOOLEAN /\ run.resumed \in BOOLEAN
         /\ UNCHANGED mode
         /\ \/ run'.at \in {"done", "failed"} /\ mode = "minutes" /\ run.at = "prepare"
               /\ UNCHANGED <<run.resumed, box, posted>>
            \/ run.at = "prepare" /\ run'.at \in {"start", "destroy"} /\ mode # "minutes"
               /\ UNCHANGED <<run.resumed, box.turns, box.resumes, posted>>
            \/ run.at = "start" /\ run'.at \in {"poll", "reconnect", "destroy"} /\ UNCHANGED <<box.up, posted>>
               /\ \/ UNCHANGED <<box.turns, box.resumes>>
                  \/ run.resumed /\ box'.resumes = box.resumes + 1 /\ UNCHANGED box.turns
                  \/ ~run.resumed /\ box'.turns = box.turns + 1 /\ UNCHANGED box.resumes
               /\ \/ run'.at # "reconnect" /\ UNCHANGED run.resumed
                  \/ run'.at = "reconnect" /\ ~run.resumed /\ run'.resumed
            \/ run.at = "poll" /\ run'.at \in {"reconnect", "destroy", "start"}
               /\ UNCHANGED <<box.up, box.turns, box.resumes, posted>>
               /\ \/ run'.at = "destroy" /\ UNCHANGED run.resumed
                  \/ ~run.resumed /\ run'.resumed
            \/ UNCHANGED <<run, box.up, box.turns, box.resumes, posted>>
            \/ run.at \in {"reconnect", "restart"} /\ run'.at \in {"start", "restart", "destroy"}
               /\ UNCHANGED <<run.resumed, box.turns, box.resumes, posted>>
            \/ run.at = "destroy" /\ run'.at \in {"post", "failed"} /\ (run'.at = "post" => ~box'.up)
               /\ UNCHANGED <<run.resumed, box.turns, box.resumes, posted>>
            \/ run.at = "post" /\ run'.at \in {"post", "done", "failed"} /\ UNCHANGED <<run.resumed, box>>
            \/ run.at = "failed" /\ ~box'.up /\ UNCHANGED <<run, box.turns, box.resumes, posted>>
<1> USE DEF ContainerTypes, Runs, Boxes
<1>0. /\ box.turns \in 0 .. 3 /\ box.resumes \in 0 .. 3 /\ box.up \in BOOLEAN /\ run.resumed \in BOOLEAN
  OBVIOUS
<1>1. CASE Container!OtherExecution
  BY <1>0, <1>1 DEF Container!OtherExecution, Container!RunStep, Container!Going, Container!worker
<1>2. CASE Container!Prepare
  <2>1. run.at = "prepare" /\ mode # "minutes" /\ UNCHANGED <<mode, posted>>
    BY <1>2 DEF Container!Prepare, Container!RunStep, Container!worker
  <2>2. run'.at \in {"start", "destroy"} /\ UNCHANGED run.resumed
    BY <1>2 DEF Container!Prepare, Container!RunStep, Container!Going, Container!Broken
  <2>3. UNCHANGED <<box.turns, box.resumes>>
    BY <1>2 DEF Container!Prepare, Container!RunStep
  <2>4. QED
    BY <1>0, <2>1, <2>2, <2>3
<1>3. CASE Container!Start
  <2>1. run.at = "start" /\ UNCHANGED <<mode, posted>>
    BY <1>3 DEF Container!Start, Container!RunStep, Container!worker
  <2>2. /\ \/ run'.at \in {"poll", "destroy"} /\ UNCHANGED run.resumed
           \/ run'.at = "reconnect" /\ ~run.resumed /\ run'.resumed
    BY <1>3 DEF Container!Start, Container!RunStep, Container!Broken, Container!On500
  <2>3. box' \in {box, Container!Started}
    BY <1>3 DEF Container!Start, Container!RunStep
  <2>4. /\ Container!Started.up = box.up
        /\ run.resumed => Container!Started.turns = box.turns /\ Container!Started.resumes = box.resumes + 1
        /\ ~run.resumed => Container!Started.turns = box.turns + 1 /\ Container!Started.resumes = box.resumes
    BY DEF Container!Started
  <2>5. QED
    BY <1>0, <2>1, <2>2, <2>3, <2>4
<1>4. CASE Container!Poll \/ Container!PollFails
  BY <1>0, <1>4 DEF Container!Poll, Container!PollFails, Container!RunStep, Container!Broken, Container!On500,
     Container!worker
<1>5. CASE Container!Claude
  BY <1>0, <1>5 DEF Container!Claude, Container!RunStep, Container!worker
<1>6. CASE Container!Reconnect
  BY <1>0, <1>6 DEF Container!Reconnect, Container!RunStep, Container!Going, Container!Broken, Container!worker
<1>7. CASE Container!Parse
  BY <1>0, <1>7 DEF Container!Parse, Container!RunStep, Container!Broken, Container!worker
<1>8. CASE Container!Destroy
  BY <1>0, <1>8 DEF Container!Destroy, Container!Destroyed, Container!RunStep, Container!Going, Container!worker
<1>9. CASE Container!PostBegins
  BY <1>0, <1>9 DEF Container!PostBegins, Container!worker
<1>10. CASE Container!Post
  BY <1>0, <1>10 DEF Container!Post, Container!Going, Container!worker
<1>11. CASE Container!Sleep
  BY <1>0, <1>11 DEF Container!Sleep, Container!RunStep, Container!worker
<1>12. QED
  BY <1>1, <1>2, <1>3, <1>4, <1>5, <1>6, <1>7, <1>8, <1>9, <1>10, <1>11 DEF Container!Reply

(* So the turn is given once; nobody else starts a process.                *)
LEMMA ReplyKeepsRunSound ==
  ASSUME ContainerTypes, RunIsSound, Container!Reply
  PROVE  RunIsSound'
<1>1. GivenOnce'
  BY ReplyMoves DEF RunIsSound, GivenOnce
<1>2. PostIsAlone'
  BY ReplyMoves DEF RunIsSound, PostIsAlone
<1>3. QED
  BY <1>1, <1>2 DEF RunIsSound

LEMMA OthersKeepRunSound ==
  ASSUME ContainerTypes, RunIsSound, WorkerIsSound,
         Container!Tick \/ Container!Revise \/ Container!Worker \/ Container!Boundary \/ Container!Admit \/ Container!Forward
  PROVE  RunIsSound'
<1> USE DEF RunIsSound, GivenOnce, PostIsAlone, ContainerTypes, Runs
<1>1. CASE Container!Tick
  BY <1>1 DEF Container!Tick
<1>2. CASE Container!Revise \/ Container!Boundary \/ Container!Admit \/ Container!Forward
  BY <1>2 DEF Container!Revise, Container!Boundary, Container!RefreshBegins, Container!RefreshStores,
     Container!Alarm, Container!Resolve, Container!Admit, Container!Forward, Container!worker
<1>3. CASE Container!TimerFires \/ Container!Issue \/ Container!Send \/ Container!RefreshAnswered
            \/ Container!RefreshLost \/ Container!ExecuteSettles \/ Container!Finally
  BY <1>3 DEF Container!TimerFires, Container!Issue, Container!Send, Container!RefreshAnswered,
     Container!RefreshLost, Container!ExecuteSettles, Container!Finally
<1>4. CASE Container!Register
  BY <1>4 DEF Container!Register, WorkerIsSound
<1>5. CASE Container!Cancel \/ Container!Crash
  BY <1>5 DEF Container!Cancel, Container!Crash, Container!worker
<1>6. QED
  BY <1>1, <1>2, <1>3, <1>4, <1>5 DEF Container!Worker

(* The Worker and the boundary object: a context is there only while the   *)
(* operation is registered or executing.                                   *)
LEMMA WorkerKeepsSound ==
  ASSUME ContainerTypes, WorkerIsSound, ObjectIsSound, Container!EndedIsUnauthorized, Container!Worker
  PROVE  WorkerIsSound' /\ ObjectIsSound' /\ Container!EndedIsUnauthorized'
<1> USE DEF WorkerIsSound, ObjectIsSound, Container!EndedIsUnauthorized, Container!Ended, ContainerTypes,
    Objects, Exchanges
<1>1. CASE Container!Register
  <2>1. CASE op' = "execute"
    <3>1. boundary'.handler = boundary.handler /\ boundary'.lost = boundary.lost
      BY <1>1, <2>1 DEF Container!Register
    <3>4. boundary'.alarm = boundary'.ctx.left
      <4>1. boundary' = [boundary EXCEPT !.ctx = [left |-> known, rev |-> 0], !.alarm = known]
        BY <1>1, <2>1 DEF Container!Register
      <4>2. QED
        BY <4>1
    <3>2. refresh'.at = "idle"
      BY <1>1 DEF Container!Register, Container!NoRefresh
    <3>3. QED
      BY <1>1, <2>1, <3>1, <3>2, <3>4 DEF Container!Register
  <2>2. CASE op' = "rejected"
    BY <1>1, <2>2 DEF Container!Register
  <2>3. QED
    BY <1>1, <2>1, <2>2 DEF Container!Register
<1>2. CASE Container!TimerFires
  BY <1>2, CountingDown DEF Container!TimerFires, Container!Off, Container!Past, Container!NoRefresh
<1>3. CASE Container!Issue
  BY <1>3 DEF Container!Issue, Container!RejectedBy, Container!NoRefresh, Container!Stopped
<1>4. CASE Container!Send
  BY <1>4 DEF Container!Send, Container!NoRefresh
<1>5. CASE Container!RefreshAnswered
  BY <1>5 DEF Container!RefreshAnswered, Container!RejectedBy, Container!NoRefresh, Container!NoHandler,
     Container!Stopped
<1>6. CASE Container!RefreshLost
  BY <1>6 DEF Container!RefreshLost, Container!RejectedBy, Container!NoRefresh
<1>7. CASE Container!ExecuteSettles
  BY <1>7 DEF Container!ExecuteSettles
<1>8. CASE Container!Finally
  BY <1>8 DEF Container!Finally, Container!RefreshSettled
<1>9. CASE Container!Cancel
  BY <1>9 DEF Container!Cancel, Container!worker
<1>10. CASE Container!Crash
  <2>1. /\ boundary'.ctx = boundary.ctx /\ boundary'.alarm = boundary.alarm
        /\ boundary'.handler = boundary.handler
        /\ boundary.handler # Container!NoHandler => boundary'.lost
    BY <1>10 DEF Container!Crash
  <2>2. QED
    BY <1>10, <2>1 DEF Container!Crash, Container!NoRefresh, Container!NoHandler
<1>11. QED
  BY <1>1, <1>2, <1>3, <1>4, <1>5, <1>6, <1>7, <1>8, <1>9, <1>10 DEF Container!Worker

LEMMA ObjectKeepsSound ==
  ASSUME ContainerConstants, ContainerTypes, WorkerIsSound, ObjectIsSound, Container!EndedIsUnauthorized,
         Container!Tick \/ Container!Revise \/ Container!Boundary \/ Container!Admit \/ Container!Forward \/ Container!Reply
  PROVE  WorkerIsSound' /\ ObjectIsSound' /\ Container!EndedIsUnauthorized'
<1> USE DEF WorkerIsSound, ObjectIsSound, Container!EndedIsUnauthorized, ContainerTypes, Objects,
    ObjectHandlers, Exchanges
<1>1. CASE Container!Tick
  <2>1. /\ boundary'.ctx = Container!Aged(boundary.ctx) /\ boundary'.alarm = Container!Less(boundary.alarm)
        /\ boundary'.handler.at = boundary.handler.at /\ boundary'.lost = boundary.lost
    BY <1>1 DEF Container!Tick
  <2>2. refresh'.at = refresh.at /\ (refresh = Container!NoRefresh => refresh' = Container!NoRefresh)
    BY <1>1, Aging DEF Container!Tick, Container!NoRefresh
  <2>3. (boundary'.ctx = Container!NoContext <=> boundary.ctx = Container!NoContext) /\ boundary'.ctx.left = Container!Less(boundary.ctx.left)
    BY <2>1, Aging
  <2>4. Container!Less(Container!Off) = Container!Off
    BY DEF Container!Less, Container!Off, Container!Past
  <2>5. UNCHANGED <<op, mode, run.at>> /\ timer' = Container!Less(timer)
    BY <1>1 DEF Container!Tick, Runs
  <2>6. QED
    BY <2>1, <2>2, <2>3, <2>4, <2>5
<1>2. CASE Container!Revise \/ Container!Admit \/ Container!Forward
  BY <1>2 DEF Container!Revise, Container!Admit, Container!Forward, Container!worker
<1>3. CASE Container!RefreshBegins
  BY <1>3 DEF Container!RefreshBegins
<1>4. CASE Container!RefreshStores
  <2>1. /\ boundary.handler.at = "validate" /\ boundary'.handler.at # "idle" /\ boundary'.lost = boundary.lost
        /\ UNCHANGED <<op, mode, timer, refresh, run>>
        /\ \/ boundary'.ctx = boundary.ctx /\ boundary'.alarm = boundary.alarm
           \/ boundary'.alarm = boundary'.ctx.left
    BY <1>4 DEF Container!RefreshStores
  <2>2. refresh.at = "await" \/ boundary.lost
    BY <2>1
  <2>3. op \in {"register"} \cup Container!Ended => boundary.lost /\ op # "register"
    BY <2>1, <2>2 DEF Container!NoRefresh
  <2>4. QED
    BY <2>1, <2>2, <2>3
<1>5. CASE Container!Alarm
  BY <1>5 DEF Container!Alarm
<1>6. CASE Container!Resolve
  BY <1>6 DEF Container!Resolve
<1>7. CASE Container!Reply
  <2>1. UNCHANGED <<mode, op, timer, refresh, boundary>>
    BY <1>7 DEF Container!Reply, Container!RunStep, Container!OtherExecution, Container!Prepare,
       Container!Start, Container!Poll, Container!PollFails, Container!Claude, Container!Reconnect,
       Container!Parse, Container!Destroy,
       Container!PostBegins, Container!Post, Container!Sleep, Container!worker
  <2>2. run.at = "idle" => run' = run
    BY <1>7 DEF Container!Reply, Container!RunStep, Container!OtherExecution, Container!Prepare,
       Container!Start, Container!Poll, Container!PollFails, Container!Claude, Container!Reconnect,
       Container!Parse, Container!Destroy,
       Container!PostBegins, Container!Post, Container!Sleep
  <2>3. QED
    BY <2>1, <2>2
<1>8. QED
  BY <1>1, <1>2, <1>3, <1>4, <1>5, <1>6, <1>7 DEF Container!Boundary

(* Confined is inductive, and says all that the run checks.                *)
LEMMA ConfinedAtFirst == ASSUME ContainerConstants, Container!Init PROVE Confined
<1> USE DEF Container!Init
<1>1. ContainerTypes
  <2>1. Container!NoContext \in Container!Contexts /\ Ttl \in Container!Past .. Ttl /\ 0 \in 0 .. MaxRevs
    BY DEF Container!Contexts, Container!Past, ContainerConstants
  <2>2. boundary \in Objects /\ refresh \in Exchanges /\ req \in Requests /\ run \in Runs /\ box \in Boxes
    BY <2>1 DEF Objects, ObjectHandlers, Exchanges, Requests, Runs, Boxes, Countdowns, Container!NoHandler,
       Container!NoRefresh, Container!NoRequest
  <2>3. QED
    BY <2>1, <2>2 DEF ContainerTypes, Countdowns
<1>2. QED
  BY <1>1 DEF Confined, RunIsSound, GivenOnce, PostIsAlone, WorkerIsSound, ObjectIsSound,
     Container!EndedIsUnauthorized,
     Container!NoRefresh, Container!NoHandler, Container!Ended

LEMMA ConfinedIsKept == ASSUME ContainerConstants, Confined, [Container!Next]_Container!vars PROVE Confined'
<1>1. CASE UNCHANGED Container!vars
  BY <1>1 DEF Container!vars, Confined, ContainerTypes, RunIsSound, GivenOnce, PostIsAlone, WorkerIsSound,
     ObjectIsSound,
     Container!EndedIsUnauthorized
<1>2. CASE Container!Next
  <2>1. ContainerTypes'
    BY <1>2, RunKeepsTypes, WorkerKeepsTypes, RestKeepsTypes DEF Container!Next, Confined, RunIsSound
  <2>2. RunIsSound'
    BY <1>2, ReplyKeepsRunSound, OthersKeepRunSound DEF Container!Next, Confined
  <2>3. WorkerIsSound' /\ ObjectIsSound' /\ Container!EndedIsUnauthorized'
    BY <1>2, WorkerKeepsSound, ObjectKeepsSound DEF Container!Next, Confined
  <2>4. QED
    BY <2>1, <2>2, <2>3 DEF Confined
<1>3. QED
  BY <1>1, <1>2

LEMMA ConfinedIsEnough ==
  ASSUME Confined PROVE Container!TypeOK /\ Container!EndedIsUnauthorized /\ Container!PostedIsSanitized /\ Container!TurnIsGivenOnce
BY DEF Confined, ContainerTypes, Container!TypeOK, Objects, ObjectHandlers, Exchanges, Runs, Boxes, Requests,
   Countdowns, RunIsSound,
   GivenOnce, PostIsAlone, Container!PostedIsSanitized, Container!TurnIsGivenOnce

(* A context is dropped during an execution only when it has expired.      *)
LEMMA ContextIsKept ==
  ASSUME ContainerConstants, Confined, [Container!Next]_Container!vars, op = "execute",
         boundary.ctx # Container!NoContext, boundary'.ctx = Container!NoContext
  PROVE  boundary.ctx.left <= 0
<1> USE DEF Confined, ContainerTypes, Objects, ObjectHandlers
<1>1. CASE Container!Alarm
  BY <1>1 DEF Container!Alarm, ObjectIsSound, Container!Past
<1>2. CASE Container!Resolve
  BY <1>2 DEF Container!Resolve, Container!Expired, Container!Contexts, Container!NoContext, Container!Past,
     ContainerConstants
<1>3. CASE Container!RefreshStores
  BY <1>3 DEF Container!RefreshStores, Container!Valid, Container!NoContext, Container!Off
<1>4. CASE Container!Tick
  BY <1>4, Aging DEF Container!Tick
<1>5. CASE Container!Worker
  BY <1>5 DEF Container!Worker, Container!Register, Container!TimerFires, Container!Issue, Container!Send,
     Container!RefreshAnswered, Container!RefreshLost, Container!ExecuteSettles, Container!Finally,
     Container!Cancel,
     Container!Crash, Container!worker, Container!Ended
<1>6. CASE Container!Revise \/ Container!RefreshBegins \/ Container!Admit \/ Container!Forward
            \/ UNCHANGED Container!vars
  BY <1>6 DEF Container!Revise, Container!RefreshBegins, Container!Admit, Container!Forward, Container!vars
<1>7. CASE Container!Reply
  BY <1>7 DEF Container!Reply, Container!RunStep, Container!OtherExecution, Container!Prepare, Container!Start,
     Container!Poll, Container!PollFails, Container!Claude, Container!Reconnect, Container!Parse,
     Container!Destroy,
     Container!PostBegins, Container!Post, Container!Sleep
<1>8. QED
  BY <1>1, <1>2, <1>3, <1>4, <1>5, <1>6, <1>7 DEF Container!Next, Container!Boundary

(* What the run checks of a container, of every behaviour.                 *)
LEMMA ContainerHolds ==
  ASSUME ContainerConstants
  PROVE  Container!Init /\ [][Container!Next]_Container!vars =>
           [](Container!TypeOK /\ Container!EndedIsUnauthorized /\ Container!PostedIsSanitized /\ Container!TurnIsGivenOnce) /\ Container!NotForgottenEarly
<1>1. Container!Init => Confined
  BY ConfinedAtFirst
<1>2. Confined /\ [Container!Next]_Container!vars => Confined'
  BY ConfinedIsKept
<1>3. Confined => Container!TypeOK /\ Container!EndedIsUnauthorized /\ Container!PostedIsSanitized /\ Container!TurnIsGivenOnce
  BY ConfinedIsEnough
<1>4. Confined /\ [Container!Next]_Container!vars => [(op = "execute" /\ boundary.ctx # Container!NoContext /\ boundary'.ctx = Container!NoContext)
                                   => boundary.ctx.left <= 0]_Container!vars
  BY ContextIsKept
<1>5. QED
  BY <1>1, <1>2, <1>3, <1>4, PTL DEF Container!NotForgottenEarly

-----------------------------------------------------------------------------
(* The suite.                                                              *)

(* The turn and the container side by side: each only moves by its own     *)
(* steps.                                                                  *)
LEMMA RepliesBehave ==
  Spec => /\ Turn!Init /\ [][Turn!Next]_Turn!vars
          /\ Container!Init /\ [][Container!Next]_Container!vars
<1>1. Init => Turn!Init /\ Container!Init
  BY DEF Init
<1>2. [Next]_suiteVars => [Turn!Next]_Turn!vars
  BY DEF Next, TurnMoves, ContainerMoves, suiteVars, turnVars, Turn!vars, Turn!stores
<1>3. [Next]_suiteVars => [Container!Next]_Container!vars
  BY DEF Next, TurnMoves, ContainerMoves, suiteVars, containerVars, Container!vars
<1>4. QED
  BY <1>1, <1>2, <1>3, PTL DEF Spec

(* Whatever is delivered again, fails, expires or dies, the workspace, the *)
(* claims and the Brainbase record of a message say what was posted, an    *)
(* event that succeeded was answered, and its operation is booked once     *)
(* (production-consumer.ts, reply-pipeline.ts), for any number of          *)
(* deliveries and faults.                                                  *)
THEOREM StoresOfAReplyAgree ==
  ASSUME TurnConstants
  PROVE  Spec => []RepliesAgree
BY TurnHolds, RepliesBehave, PTL DEF RepliesAgree

(* A reply that Slack confirmed is not posted again, and a confirmed       *)
(* effect, a completed claim, a written receipt and a settled queue claim  *)
(* are never written over.                                                 *)
THEOREM SettledRepliesStay ==
  ASSUME TurnConstants
  PROVE  Spec => Turn!ConfirmedReplyIsLast /\ Turn!SettledIsFinal
BY TurnHolds, RepliesBehave, PTL

(* The handle of an operation that ended gives no authority, a reply is    *)
(* posted from a destroyed container, and the turn is given to Claude once *)
(* and resumed at most once (tenant-container-operation.ts,                *)
(* tenant-boundary.ts, reply-pipeline.ts), for any lifetime and budget.    *)
THEOREM ContainerStaysConfined ==
  ASSUME ContainerConstants
  PROVE  Spec => []ContainerIsConfined
BY ContainerHolds, RepliesBehave, PTL DEF ContainerIsConfined

(* A context in use is dropped only when it has expired: the alarm of the  *)
(* boundary object is that of the context it holds.                        *)
THEOREM ContextsLiveToTheirEnd ==
  ASSUME ContainerConstants
  PROVE  Spec => Container!NotForgottenEarly
BY ContainerHolds, RepliesBehave, PTL

=============================================================================
