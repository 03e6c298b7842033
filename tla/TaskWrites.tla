----------------------------- MODULE TaskWrites -----------------------------
(***************************************************************************)
(* The task writes of a reply (task-write-proxy.ts, with the durable       *)
(* objects of task-write-budget.ts and task-write-approval.ts).  A program *)
(* in the container calls the proxy with the capability of its request: a  *)
(* slot (the call index) and a payload.  The policy in force denies the    *)
(* write, lets it through or asks for approval: then the call only files a *)
(* pending approval, and the button in Slack calls the proxy again with    *)
(* its payload.  Every write claims its slot in one transaction before the *)
(* task store is called and completes the slot's receipt afterwards.       *)
(* Calls overlap, are repeated with another payload, die between any two   *)
(* awaits and lose answers; the policy changes under pending approvals;    *)
(* capabilities expire and the alarm wipes the slots.                      *)
(***************************************************************************)
EXTENDS Naturals, FiniteSets, Sequences

CONSTANTS
  Requests,      \* request ids with a capability
  Payloads,      \* bodies of a write, as far as their fingerprints differ
  Bodies,        \* the writes that programs ask for: slots and payloads
  Handlers,      \* calls of the proxy in progress at one time (numbers)
  Budget,        \* claims.budget: writes of one request
  MaxWrites,     \* max_writes of the autonomy experiment
  Policies,      \* the policies deployed in turn: sets of matching rules, [effect, weight]
  MaxCalls,      \* bound: calls of the proxy
  MaxFaults      \* bound: calls that die or lose an answer

None == "none"
Slots == Requests \X (1..Budget)
Phases == {"idle", "consume", "ask", "claim", "read", "write", "complete",
           "done", "asked", "pending", "denied", "failed"}
Answered == {"done", "asked", "pending", "denied", "failed"}

VARIABLES
  service,     \* the actor is the autonomy agent: its requests share one budget object
  version,     \* the policy in force, an index of Policies
  expired,     \* requests whose capability has expired
  slot,        \* Slots -> the payload whose fingerprint holds the slot
  receipt,     \* Slots -> "none", "claimed" or "completed"
  approvals,   \* approval number -> [slot, pay, version, lapsed, state]
  calls,       \* Handlers -> the call in progress
  writes,      \* the task store: writes it accepted, [slot, pay, turn, effect, version, approval]
  arrived, faults

vars == <<service, version, expired, slot, receipt, approvals, calls, writes, arrived, faults>>

ClaimCount(r) == Cardinality({s \in Slots : s[1] = r /\ slot[s] # None})
WriteCount == Cardinality({s \in Slots : slot[s] # None})

\* evaluateTaskWritePolicy: a deny rule wins over all, then the most specific rules decide
Decision(rules) ==
  LET most == {m \in rules : \A n \in rules : n.weight <= m.weight}
      has(S, e) == \E m \in S : m.effect = e
  IN IF has(rules, "deny") THEN "deny"
     ELSE IF has(most, "approval") THEN "approval"
     ELSE IF has(most, "auto") THEN "auto" ELSE "deny"

Verified(s) == s[1] \notin expired      \* verifyTaskWriteCapability
ValidClaim(s) == s[1] \notin expired    \* validClaim, at the budget object

NoCall == [pc |-> "idle", slot |-> <<>>, pay |-> None, approval |-> 0, effect |-> None, version |-> 0]

Init ==
  /\ service \in BOOLEAN
  /\ version \in DOMAIN Policies
  /\ expired = {}
  /\ slot = [s \in Slots |-> None]
  /\ receipt = [s \in Slots |-> "none"]
  /\ approvals = <<>>
  /\ calls = [h \in Handlers |-> NoCall]
  /\ writes = {}
  /\ arrived = 0 /\ faults = 0

Go(h, pc) == calls' = [calls EXCEPT ![h].pc = pc]

(***************************************************************************)
(* A call arrives, from the program (approval 0) or from the button.  The  *)
(* capability is verified and the policy evaluated before the first call   *)
(* of a durable object; an approval the policy does not ask for is not     *)
(* looked at.                                                              *)
(***************************************************************************)
Free(h) == calls[h].pc \in {"idle"} \cup Answered
Start(h, s, p, a) ==
  LET effect == Decision(Policies[version])
  IN /\ Free(h) /\ \A g \in Handlers : Free(g) => h <= g   \* they are interchangeable
     /\ arrived < MaxCalls
     /\ arrived' = arrived + 1
     /\ calls' = [calls EXCEPT ![h] =
          [pc |-> IF ~Verified(s) \/ effect = "deny" THEN "denied"
                  ELSE IF effect = "auto" THEN "claim"
                  ELSE IF a # 0 THEN "consume" ELSE "ask",
           slot |-> s, pay |-> p, approval |-> a, effect |-> effect, version |-> version]]
     /\ UNCHANGED <<service, version, expired, slot, receipt, approvals, writes, faults>>

Call(h) == \E b \in Bodies : Start(h, b[1], b[2], 0)

\* the button: the pending approval is peeked at, and its body sent with its capability
Live(a) == ~approvals[a].lapsed /\ approvals[a].slot[1] \notin expired
Click(h) == \E a \in DOMAIN approvals : Live(a) /\ Start(h, approvals[a].slot, approvals[a].pay, a)

\* createTaskWriteApproval and the request posted to the approvers' channel
Ask(h) ==
  LET c == calls[h]
  IN /\ c.pc = "ask"
     /\ approvals' = [a \in 1..(Cardinality(DOMAIN approvals) + 1) |->
          IF a \in DOMAIN approvals THEN approvals[a]
          ELSE [slot |-> c.slot, pay |-> c.pay, version |-> c.version, lapsed |-> FALSE,
                state |-> "pending"]]
     /\ Go(h, "asked")
     /\ UNCHANGED <<service, version, expired, slot, receipt, writes, arrived, faults>>

\* consumeTaskWriteApproval: the transaction, and then the comparison with the caller's decision
Matches(a, c) == a.version = c.version    \* the payload and capability are those of the approval
\* mutants: any version of the policy, and an approval consumed before
ConsumeAnyVersion(h) ==
  LET a == approvals[calls[h].approval]
  IN /\ calls[h].pc = "consume"
     /\ IF ~Live(calls[h].approval) \/ a.state # "pending" THEN Go(h, "denied") /\ UNCHANGED approvals
        ELSE approvals' = [approvals EXCEPT ![calls[h].approval].state = "consumed"] /\ Go(h, "claim")
     /\ UNCHANGED <<service, version, expired, slot, receipt, writes, arrived, faults>>
ConsumeAgain(h) ==
  LET a == approvals[calls[h].approval]
  IN /\ calls[h].pc = "consume"
     /\ approvals' = [approvals EXCEPT ![calls[h].approval].state = "consumed"]
     /\ Go(h, IF Matches(a, calls[h]) THEN "claim" ELSE "denied")
     /\ UNCHANGED <<service, version, expired, slot, receipt, writes, arrived, faults>>
Consume(h) ==
  LET c == calls[h]
      a == approvals[c.approval]
  IN /\ c.pc = "consume"
     /\ IF ~Live(c.approval) \/ a.state # "pending" THEN Go(h, "denied") /\ UNCHANGED approvals
        ELSE /\ approvals' = [approvals EXCEPT ![c.approval].state = "consumed"]
             /\ Go(h, IF Matches(a, c) THEN "claim" ELSE "denied")
     /\ UNCHANGED <<service, version, expired, slot, receipt, writes, arrived, faults>>

(***************************************************************************)
(* The claim transaction of TaskWriteBudget.  A claim of an expired        *)
(* capability is invalid; a slot its own payload holds is a replay.        *)
(***************************************************************************)
\* mutant: one write more than the experiment allows
ExceededLate(r) == ClaimCount(r) >= Budget \/ (service /\ WriteCount > MaxWrites)
Exceeded(r) == ClaimCount(r) >= Budget \/ (service /\ WriteCount >= MaxWrites)
\* mutant: the claim does not look at the expiry of the capability again
ClaimUnexpiring(h) ==
  LET c == calls[h]
      s == c.slot
  IN /\ c.pc = "claim"
     /\ CASE slot[s] = c.pay -> Go(h, "read") /\ UNCHANGED <<slot, receipt>>
          [] slot[s] # c.pay /\ (slot[s] # None \/ Exceeded(s[1])) ->
               Go(h, "denied") /\ UNCHANGED <<slot, receipt>>
          [] OTHER -> /\ slot' = [slot EXCEPT ![s] = c.pay]
                      /\ receipt' = [receipt EXCEPT ![s] = "claimed"]
                      /\ Go(h, "write")
     /\ UNCHANGED <<service, version, expired, approvals, writes, arrived, faults>>
Claim(h) ==
  LET c == calls[h]
      s == c.slot
  IN /\ c.pc = "claim"
     /\ CASE ~ValidClaim(s) -> Go(h, "denied") /\ UNCHANGED <<slot, receipt>>
          [] ValidClaim(s) /\ slot[s] = c.pay -> Go(h, "read") /\ UNCHANGED <<slot, receipt>>
          [] ValidClaim(s) /\ slot[s] # c.pay /\ (slot[s] # None \/ Exceeded(s[1])) ->
               Go(h, "denied") /\ UNCHANGED <<slot, receipt>>
          [] OTHER -> /\ slot' = [slot EXCEPT ![s] = c.pay]
                      /\ receipt' = [receipt EXCEPT ![s] = "claimed"]
                      /\ Go(h, "write")
     /\ UNCHANGED <<service, version, expired, approvals, writes, arrived, faults>>

\* a replay answers from the receipt, and reads the task
\* mutant: a claimed receipt is taken for a completed one
ReadClaimed(h) ==
  /\ calls[h].pc = "read" /\ Go(h, "done")
  /\ UNCHANGED <<service, version, expired, slot, receipt, approvals, writes, arrived, faults>>
Read(h) ==
  /\ calls[h].pc = "read"
  /\ Go(h, IF receipt[calls[h].slot] = "completed" THEN "done" ELSE "pending")
  /\ UNCHANGED <<service, version, expired, slot, receipt, approvals, writes, arrived, faults>>

Accept(h) ==
  writes' = writes \cup {[slot |-> calls[h].slot, pay |-> calls[h].pay, turn |-> Cardinality({w \in writes : w.slot = calls[h].slot}),
                          effect |-> calls[h].effect, version |-> calls[h].version,
                          approval |-> calls[h].approval]}

\* the task store performs the write and answers, or refuses it (a conflict of versions)
Write(h) ==
  /\ calls[h].pc = "write"
  /\ \/ Accept(h) /\ Go(h, "complete")
     \/ Go(h, "failed") /\ UNCHANGED writes
  /\ UNCHANGED <<service, version, expired, slot, receipt, approvals, arrived, faults>>

\* completeTaskWriteReceipt: the receipt may have been wiped meanwhile
\* mutant: the receipt is written whether or not the object still has it
CompleteBlindly(h) ==
  /\ calls[h].pc = "complete" /\ Go(h, "done")
  /\ receipt' = [receipt EXCEPT ![calls[h].slot] = "completed"]
  /\ UNCHANGED <<service, version, expired, slot, approvals, writes, arrived, faults>>
Complete(h) ==
  LET s == calls[h].slot
  IN /\ calls[h].pc = "complete"
     /\ receipt' = [receipt EXCEPT ![s] = IF receipt[s] = "none" THEN "none" ELSE "completed"]
     /\ Go(h, IF receipt[s] = "none" THEN "failed" ELSE "done")
     /\ UNCHANGED <<service, version, expired, slot, approvals, writes, arrived, faults>>

(***************************************************************************)
(* The environment: a call dies, before or after the step it was at took   *)
(* effect; the policy is deployed; capabilities expire and, a minute       *)
(* later, the alarm wipes the object of the request or of the experiment.  *)
(***************************************************************************)
Lost(h) ==
  /\ faults < MaxFaults
  /\ faults' = faults + 1
  /\ calls[h].pc \in {"consume", "ask", "claim", "read", "write", "complete"}
  /\ Go(h, "failed")
  /\ \/ UNCHANGED <<slot, receipt, approvals, writes>>
     \/ /\ calls[h].pc = "write"
        /\ Accept(h)
        /\ UNCHANGED <<slot, receipt, approvals>>
     \/ /\ calls[h].pc = "consume" /\ approvals[calls[h].approval].state = "pending"
        /\ Live(calls[h].approval)
        /\ approvals' = [approvals EXCEPT ![calls[h].approval].state = "consumed"]
        /\ UNCHANGED <<slot, receipt, writes>>
     \/ /\ calls[h].pc = "claim" /\ ValidClaim(calls[h].slot)
        /\ slot[calls[h].slot] = None /\ ~Exceeded(calls[h].slot[1])
        /\ slot' = [slot EXCEPT ![calls[h].slot] = calls[h].pay]
        /\ receipt' = [receipt EXCEPT ![calls[h].slot] = "claimed"]
        /\ UNCHANGED <<approvals, writes>>
  /\ UNCHANGED <<service, version, expired, arrived>>

Deploy ==
  /\ version < Len(Policies) /\ version' = version + 1
  /\ UNCHANGED <<service, expired, slot, receipt, approvals, calls, writes, arrived, faults>>

Expire ==
  /\ \E r \in Requests \ expired : expired' = expired \cup {r}
  /\ UNCHANGED <<service, version, slot, approvals, receipt, calls, writes, arrived, faults>>

\* ttlSeconds of the rule, at most the capability's own time
Lapse ==
  /\ \E a \in DOMAIN approvals : Live(a) /\ approvals' = [approvals EXCEPT ![a].lapsed = TRUE]
  /\ UNCHANGED <<service, version, expired, slot, receipt, calls, writes, arrived, faults>>

\* the time of the alarm is past every capability whose slots the object holds
Wiped == IF service THEN (IF expired = Requests THEN Requests ELSE {}) ELSE expired
Alarm ==
  /\ \E r \in Wiped :
       LET gone == {s \in Slots : s[1] = r \/ service}
       IN /\ \E s \in gone : slot[s] # None
          /\ slot' = [s \in Slots |-> IF s \in gone THEN None ELSE slot[s]]
          /\ receipt' = [s \in Slots |-> IF s \in gone THEN "none" ELSE receipt[s]]
  /\ UNCHANGED <<service, version, expired, approvals, calls, writes, arrived, faults>>

Step(h) == Ask(h) \/ Consume(h) \/ Claim(h) \/ Read(h) \/ Write(h) \/ Complete(h)
Next == \/ \E h \in Handlers : Call(h) \/ Click(h) \/ Step(h) \/ Lost(h)
        \/ Deploy \/ Expire \/ Lapse \/ Alarm
Spec == Init /\ [][Next]_vars
-----------------------------------------------------------------------------
(***************************************************************************)
(* Properties.                                                             *)
(***************************************************************************)
\* The state of task-write-proxy.ts, task-write-budget.ts and
\* task-write-approval.ts has its types, and a slot has a receipt exactly
\* while a payload holds it.
TypeOK ==
  /\ service \in BOOLEAN /\ version \in DOMAIN Policies
  /\ expired \subseteq Requests
  /\ slot \in [Slots -> Payloads \cup {None}]
  /\ receipt \in [Slots -> {"none", "claimed", "completed"}]
  /\ \A s \in Slots : slot[s] = None <=> receipt[s] = "none"
  /\ \A a \in DOMAIN approvals : approvals[a] \in
       [slot : Slots, pay : Payloads, version : Nat, lapsed : BOOLEAN, state : {"pending", "consumed"}]
  /\ \A h \in Handlers : calls[h].pc \in Phases

\* The task store performs at most one write per slot of a request, whatever
\* calls repeat it with the same or another payload, whichever of its answers
\* are lost, and also after the alarm wiped the slot (claim transaction of
\* task-write-budget.ts, before the upstream call of the proxy).
WrittenOnce == \A v, w \in writes : v.slot = w.slot => v = w

\* The writes of an autonomy experiment stay within max_writes over all its
\* requests and concurrent calls, and those of one request within its budget.
WithinBudget ==
  /\ service => Cardinality(writes) <= MaxWrites
  /\ \A r \in Requests : Cardinality({w \in writes : w.slot[1] = r}) <= Budget

\* A write made while the policy asked for approval was approved: for that
\* slot and payload, under the very version of the policy it was evaluated
\* by, and by an approval no other write was made with (consume, and the
\* comparison of task-write-proxy.ts after it).
ApprovedAsWritten ==
  \A w \in writes : w.effect = "approval" =>
    /\ w.approval \in DOMAIN approvals
    /\ LET a == approvals[w.approval]
       IN a.slot = w.slot /\ a.pay = w.pay /\ a.version = w.version /\ a.state = "consumed"

\* Two calls are never past the same approval: a button clicked twice, or
\* redelivered, lets one call through.
ApprovedOnce ==
  \A g, h \in Handlers : g # h /\ calls[g].approval = calls[h].approval /\ calls[g].approval # 0
      /\ calls[g].effect = "approval" /\ calls[h].effect = "approval"
    => ~({calls[g].pc, calls[h].pc} \subseteq {"claim", "write", "complete", "read", "done"})

\* A call answered with the task has been written, by itself or by the call
\* it replays, with the payload it carries: never another one's.
DoneIsWritten ==
  \A h \in Handlers : calls[h].pc = "done" =>
    \E w \in writes : w.slot = calls[h].slot /\ w.pay = calls[h].pay
=============================================================================
