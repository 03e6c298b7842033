------------------------- MODULE AuthorityAdmission -------------------------
(***************************************************************************)
(* How one Slack event is admitted.  Slack delivers it, again when it gets *)
(* no timely answer (slack.ts); the deployed rollout says whether the      *)
(* Company Authority decides about it, the authority's answer is sealed in *)
(* the message of the queue (company-authority-runtime-adapter.ts), and    *)
(* the consumer hands it to a person, runs it as an external effect or     *)
(* gives it to the T0 turn (company-authority-queue-runtime.ts,            *)
(* company-authority-human-handoff.ts, index.ts).                          *)
(*                                                                         *)
(* Every delivery is decided anew, so the messages of one event can carry  *)
(* different decisions; they share the idempotency key.  Slack, the        *)
(* authority and the platform are external.  The effect's own records are  *)
(* ExternalEffect's, the T0 turn's are ReplyTurn's.                        *)
(***************************************************************************)
EXTENDS Naturals, FiniteSets

CONSTANTS
  Attempts,    \* the deliveries of the event by Slack
  MaxTries,    \* deliveries of a message before it is dead (max_retries + 1)
  MaxChanges,  \* bound: changes of the rollout and of the policy
  MaxFaults    \* bound: outages, deaths, expiries

Nobody == 0

VARIABLES
  rollout,   \* what the deployed configuration says of this channel
  policy,    \* what the authority would decide now
  changes, answered,
  slack,     \* Attempts -> what the handler of the delivery is doing
  mail,      \* Attempts -> the message it enqueued
  worker,    \* Attempts -> what the consumer of that message is doing
  claim,     \* the claim of the event's idempotency key
  handoff,   \* the message whose handoff is recorded
  outbox,    \* the message whose external effect has begun
  turn,      \* the runtime claim of the Slack message
  posts,     \* the replies: who posted it, and the last decision it had
  mishaps

admissionVars == <<rollout, policy, changes, answered, slack, mail, worker, claim, handoff,
                   outbox, turn, posts, mishaps>>

Decisions == {"auto", "approval", "human_action"}
Rollouts  == {"disabled", "other", "subject", "trusted"}   \* "other": enabled, this event not selected
NoMail    == [state |-> "none", route |-> "T0", decision |-> "auto", fresh |-> TRUE, tries |-> 0]
Resting   == [pc |-> "idle", decision |-> "auto", refreshed |-> FALSE, posted |-> FALSE]

Init ==
  /\ rollout \in Rollouts /\ policy \in Decisions /\ changes = 0 /\ answered = FALSE
  /\ slack = [a \in Attempts |-> [pc |-> "idle", rollout |-> rollout]]
  /\ mail = [a \in Attempts |-> NoMail]
  /\ worker = [a \in Attempts |-> Resting]
  /\ claim = [state |-> "none", by |-> Nobody, live |-> FALSE]
  /\ handoff = Nobody /\ outbox = Nobody
  /\ turn = [state |-> "none", by |-> Nobody]
  /\ posts = {} /\ mishaps = 0

Mishap == mishaps < MaxFaults /\ mishaps' = mishaps + 1
Selected(r) == r \in {"subject", "trusted"}

-----------------------------------------------------------------------------
(* The world: a deploy, a new policy, a context that runs out.             *)

Change ==
  /\ changes < MaxChanges /\ changes' = changes + 1
  /\ \/ rollout' \in Rollouts \ {rollout} /\ UNCHANGED policy
     \/ policy' \in Decisions \ {policy} /\ UNCHANGED rollout
  /\ UNCHANGED <<answered, slack, mail, worker, claim, handoff, outbox, turn, posts, mishaps>>
Expire(a) ==
  /\ Mishap /\ mail[a].state \in {"queued", "taken"} /\ mail[a].fresh
  /\ mail' = [mail EXCEPT ![a].fresh = FALSE]
  /\ UNCHANGED <<rollout, policy, changes, answered, slack, worker, claim, handoff, outbox, turn, posts>>

-----------------------------------------------------------------------------
(* The delivery by Slack: read the configuration, ask, enqueue, answer.    *)

Idle(a) == slack[a].pc = "idle"
Arrive(a) ==
  /\ ~answered /\ Idle(a) /\ \A b \in Attempts : b < a => ~Idle(b)
  /\ slack' = [slack EXCEPT ![a] = [pc |-> "asking", rollout |-> rollout]]
  /\ UNCHANGED <<rollout, policy, changes, answered, mail, worker, claim, handoff, outbox, turn, posts, mishaps>>

\* an automatic decision about a trusted integration runs as a T0 turn
Route(r, d) == IF Selected(r) /\ ~(d = "auto" /\ r = "trusted") THEN "CA" ELSE "T0"
Ask(a) ==
  /\ slack[a].pc = "asking"
  /\ LET d == IF Selected(slack[a].rollout) THEN policy ELSE "auto" IN
     mail' = [mail EXCEPT ![a] = [NoMail EXCEPT !.state = "sealed", !.decision = d,
                                                !.route = Route(slack[a].rollout, d)]]
  /\ slack' = [slack EXCEPT ![a].pc = "sending"]
  /\ UNCHANGED <<rollout, policy, changes, answered, worker, claim, handoff, outbox, turn, posts, mishaps>>
Send(a) ==
  /\ slack[a].pc = "sending"
  /\ mail' = [mail EXCEPT ![a].state = "queued"]
  /\ slack' = [slack EXCEPT ![a].pc = "answering"]
  /\ UNCHANGED <<rollout, policy, changes, answered, worker, claim, handoff, outbox, turn, posts, mishaps>>
\* an answer Slack no longer waits for is worth nothing
Answer(a) ==
  /\ slack[a].pc = "answering"
  /\ slack' = [slack EXCEPT ![a].pc = "answered"]
  /\ \/ answered' = TRUE /\ UNCHANGED mishaps
     \/ Mishap /\ UNCHANGED answered
  /\ UNCHANGED <<rollout, policy, changes, mail, worker, claim, handoff, outbox, turn, posts>>
\* the authority or the queue is unavailable, or the handler dies
Refuse(a) ==
  /\ slack[a].pc \in {"asking", "sending"} /\ Mishap
  /\ slack' = [slack EXCEPT ![a].pc = "refused"]
  /\ mail' = [mail EXCEPT ![a].state = "none"]
  /\ UNCHANGED <<rollout, policy, changes, answered, worker, claim, handoff, outbox, turn, posts>>

-----------------------------------------------------------------------------
(* The consumer.  A message is delivered, retried, and dead after the last *)
(* try; whoever holds the claim of the key goes on.                        *)

Acked(a) == [mail EXCEPT ![a].state = "acked"]
\* mutant: a message is tried again without end
RetriedForever(a) == [mail EXCEPT ![a].state = "queued"]
Retried(a) == [mail EXCEPT ![a].state = IF mail[a].tries < MaxTries THEN "queued" ELSE "dead"]
Steps(a, pc) == worker' = [worker EXCEPT ![a].pc = pc]
Rests(a) == worker' = [worker EXCEPT ![a] = Resting]
AtStep(a, pc) == worker[a].pc = pc

Deliver(a) ==
  /\ mail[a].state = "queued" /\ AtStep(a, "idle")
  /\ mail' = [mail EXCEPT ![a].state = "taken", ![a].tries = @ + 1]
  /\ Steps(a, "accept")
  /\ UNCHANGED <<rollout, policy, changes, answered, slack, claim, handoff, outbox, turn, posts, mishaps>>

\* mutant: a message of the disabled protocol is acknowledged
RejectDisabled(a) ==
  /\ AtStep(a, "accept")
  /\ \/ mail[a].route = "CA" /\ rollout = "disabled" /\ mail' = Acked(a)
     \/ ~mail[a].fresh /\ (mail[a].route = "CA" => rollout # "disabled") /\ mail' = Acked(a)
  /\ Rests(a)
  /\ UNCHANGED <<rollout, policy, changes, answered, slack, claim, handoff, outbox, turn, posts, mishaps>>
\* a sealed decision is retried while the protocol is disabled; an expired one is dropped
Reject(a) ==
  /\ AtStep(a, "accept")
  /\ \/ mail[a].route = "CA" /\ rollout = "disabled" /\ mail' = Retried(a)
     \/ ~mail[a].fresh /\ (mail[a].route = "CA" => rollout # "disabled") /\ mail' = Acked(a)
  /\ Rests(a)
  /\ UNCHANGED <<rollout, policy, changes, answered, slack, claim, handoff, outbox, turn, posts, mishaps>>

\* the claim is of the key; the sealed context and decision are compared with its holder's
Claim(a) ==
  /\ AtStep(a, "accept") /\ mail[a].fresh /\ (mail[a].route = "CA" => rollout # "disabled")
  /\ \/ /\ claim.state = "none" \/ (claim.state = "claimed" /\ claim.by = a /\ ~claim.live)
        /\ claim' = [state |-> "claimed", by |-> a, live |-> TRUE]
        /\ Steps(a, "route") /\ UNCHANGED mail
     \/ /\ claim.state = "claimed" /\ claim.by = a /\ claim.live
        /\ mail' = Retried(a) /\ Rests(a) /\ UNCHANGED claim
     \/ /\ claim.state # "none" /\ (claim.by # a \/ claim.state = "settled")
        /\ mail' = Acked(a) /\ Rests(a) /\ UNCHANGED claim
  /\ UNCHANGED <<rollout, policy, changes, answered, slack, handoff, outbox, turn, posts, mishaps>>

\* mutant: the last packet wins
HandOffAgain(a) ==
  /\ AtStep(a, "route") /\ mail[a].route = "CA" /\ mail[a].decision # "auto"
  /\ handoff' = a
  /\ Steps(a, IF handoff' = a THEN "settle" ELSE "fail")
  /\ UNCHANGED <<rollout, policy, changes, answered, slack, mail, claim, outbox, turn, posts, mishaps>>
\* persisted once: the same handoff again is no news, another one is a conflict
HandOff(a) ==
  /\ AtStep(a, "route") /\ mail[a].route = "CA" /\ mail[a].decision # "auto"
  /\ handoff' = IF handoff = Nobody THEN a ELSE handoff
  /\ Steps(a, IF handoff' = a THEN "settle" ELSE "fail")
  /\ UNCHANGED <<rollout, policy, changes, answered, slack, mail, claim, outbox, turn, posts, mishaps>>

\* mutant: what a person was to do is done
BeginUnapproved(a) ==
  /\ AtStep(a, "route") /\ mail[a].route = "CA" /\ mail[a].decision # "approval"
  /\ IF outbox = Nobody
     THEN outbox' = a /\ worker' = [worker EXCEPT ![a].pc = "launch", ![a].decision = "auto"]
     ELSE UNCHANGED outbox /\ Steps(a, IF outbox = a THEN "settle" ELSE "fail")
  /\ UNCHANGED <<rollout, policy, changes, answered, slack, mail, claim, handoff, turn, posts, mishaps>>
\* the outbox begins; what has begun is left to its reconciliation
Begin(a) ==
  /\ AtStep(a, "route") /\ mail[a].route = "CA" /\ mail[a].decision = "auto"
  /\ IF outbox = Nobody
     THEN outbox' = a /\ worker' = [worker EXCEPT ![a].pc = "launch", ![a].decision = "auto"]
     ELSE UNCHANGED outbox /\ Steps(a, IF outbox = a THEN "settle" ELSE "fail")
  /\ UNCHANGED <<rollout, policy, changes, answered, slack, mail, claim, handoff, turn, posts, mishaps>>

\* mutant: the runtime claim is not asked
LaunchAnyway(a) ==
  /\ AtStep(a, "launch")
  /\ IF mail[a].fresh
     THEN turn' = [state |-> "processing", by |-> a] /\ Steps(a, "run")
     ELSE UNCHANGED turn /\ Steps(a, "settle")
  /\ UNCHANGED <<rollout, policy, changes, answered, slack, mail, claim, handoff, outbox, posts, mishaps>>
\* the sealed envelope must hold at the container's boundary; one reply per Slack message
Launch(a) ==
  /\ AtStep(a, "launch")
  /\ IF mail[a].fresh /\ turn.state = "none"
     THEN turn' = [state |-> "processing", by |-> a] /\ Steps(a, "run")
     ELSE UNCHANGED turn /\ Steps(a, "settle")
  /\ UNCHANGED <<rollout, policy, changes, answered, slack, mail, claim, handoff, outbox, posts, mishaps>>
\* a long run asks the authority again for a context of the same request
Refresh(a) ==
  /\ AtStep(a, "run") /\ mail[a].route = "CA" /\ ~worker[a].refreshed
  /\ worker' = [worker EXCEPT ![a].refreshed = TRUE, ![a].decision = policy]
  /\ UNCHANGED <<rollout, policy, changes, answered, slack, mail, claim, handoff, outbox, turn, posts, mishaps>>
\* the boundary checks the envelope, or the refreshed context; the turn is completed with the reply
Post(a) ==
  /\ AtStep(a, "run")
  /\ IF mail[a].fresh \/ worker[a].refreshed
     THEN /\ posts' = posts \cup {[by |-> a, decision |-> worker[a].decision]}
          /\ turn' = [turn EXCEPT !.state = "completed"]
          /\ worker' = [worker EXCEPT ![a].pc = "settle", ![a].posted = TRUE]
     ELSE UNCHANGED <<posts, turn>> /\ Steps(a, "fail")
  /\ UNCHANGED <<rollout, policy, changes, answered, slack, mail, claim, handoff, outbox, mishaps>>

\* mutant: a turn in progress is waited for without end
TakeTurnAndWait(a) ==
  /\ AtStep(a, "route") /\ mail[a].route = "T0"
  /\ CASE turn.state = "none" -> turn' = [state |-> "processing", by |-> a] /\ Steps(a, "run")
       [] turn.state = "completed" -> UNCHANGED turn /\ Steps(a, "settle")
       [] OTHER -> FALSE /\ UNCHANGED <<turn, worker>>
  /\ UNCHANGED <<rollout, policy, changes, answered, slack, mail, claim, handoff, outbox, posts, mishaps>>
\* the T0 turn: a reply that was posted is not posted again, one in progress is waited for
TakeTurn(a) ==
  /\ AtStep(a, "route") /\ mail[a].route = "T0"
  /\ CASE turn.state = "none" -> turn' = [state |-> "processing", by |-> a] /\ Steps(a, "run")
       [] turn.state = "completed" -> UNCHANGED turn /\ Steps(a, "settle")
       [] OTHER -> UNCHANGED turn /\ Steps(a, "release")
  /\ UNCHANGED <<rollout, policy, changes, answered, slack, mail, claim, handoff, outbox, posts, mishaps>>

\* the claim succeeds, or fails for good: either way the message is acknowledged
Settle(a) ==
  /\ worker[a].pc \in {"settle", "fail"}
  /\ mail' = Acked(a) /\ Rests(a)
  /\ claim' = IF claim.by = a THEN [claim EXCEPT !.state = "settled"] ELSE claim
  /\ UNCHANGED <<rollout, policy, changes, answered, slack, handoff, outbox, turn, posts, mishaps>>
\* a failure that may pass, that of recording the success included, gives the claim back
Release(a) ==
  /\ \/ AtStep(a, "release") /\ UNCHANGED mishaps
     \/ worker[a].pc \in {"route", "settle"} /\ Mishap
  /\ claim' = IF claim.by = a THEN [state |-> "none", by |-> Nobody, live |-> FALSE] ELSE claim
  /\ mail' = Retried(a) /\ Rests(a)
  /\ UNCHANGED <<rollout, policy, changes, answered, slack, handoff, outbox, turn, posts>>
Die(a) ==
  /\ worker[a].pc \in {"accept", "route", "launch", "run", "settle", "fail"} /\ Mishap
  /\ mail' = Retried(a) /\ Rests(a)
  /\ UNCHANGED <<rollout, policy, changes, answered, slack, claim, handoff, outbox, turn, posts>>
Lapse ==
  /\ claim.state = "claimed" /\ claim.live /\ AtStep(claim.by, "idle")
  /\ claim' = [claim EXCEPT !.live = FALSE]
  /\ UNCHANGED <<rollout, policy, changes, answered, slack, mail, worker, handoff, outbox, turn, posts, mishaps>>

-----------------------------------------------------------------------------
Handle(a) == Ask(a) \/ Send(a) \/ Answer(a)
Consume(a) ==
  \/ Deliver(a) \/ Reject(a) \/ Claim(a) \/ HandOff(a) \/ Begin(a) \/ Launch(a)
  \/ Post(a) \/ TakeTurn(a) \/ Settle(a) \/ (AtStep(a, "release") /\ Release(a))
Next ==
  \/ Change \/ Lapse
  \/ \E a \in Attempts :
       Arrive(a) \/ Handle(a) \/ Refuse(a) \/ Expire(a) \/ Consume(a) \/ Refresh(a) \/ Release(a) \/ Die(a)
Fairness == \A a \in Attempts : WF_admissionVars(Handle(a)) /\ WF_admissionVars(Consume(a))
Spec == Init /\ [][Next]_admissionVars /\ Fairness

-----------------------------------------------------------------------------
TypeOK ==
  /\ rollout \in Rollouts /\ policy \in Decisions /\ changes \in 0..MaxChanges /\ answered \in BOOLEAN
  /\ slack \in [Attempts -> [pc : {"idle", "asking", "sending", "answering", "answered", "refused"},
                             rollout : Rollouts]]
  /\ mail \in [Attempts -> [state : {"none", "sealed", "queued", "taken", "acked", "dead"},
                            route : {"T0", "CA"}, decision : Decisions, fresh : BOOLEAN, tries : 0..MaxTries]]
  /\ worker \in [Attempts -> [pc : {"idle", "accept", "route", "launch", "run", "settle", "fail", "release"},
                              decision : Decisions, refreshed : BOOLEAN, posted : BOOLEAN]]
  /\ claim \in [state : {"none", "claimed", "settled"}, by : Attempts \cup {Nobody}, live : BOOLEAN]
  /\ {handoff, outbox, turn.by} \subseteq Attempts \cup {Nobody}
  /\ turn.state \in {"none", "processing", "completed"}
  /\ posts \subseteq [by : Attempts, decision : Decisions] /\ mishaps \in 0..MaxFaults

\* A sealed decision is followed whatever is deployed or decided later: what is
\* handed to a person was not decided auto, what began or was posted was, and
\* never through the wrong route (processCompanyAuthorityAutoQueueRoute).
FollowedAsSealed ==
  /\ handoff # Nobody => mail[handoff].decision # "auto"
  /\ outbox # Nobody => mail[outbox].decision = "auto" /\ mail[outbox].route = "CA"
  /\ \A p \in posts : mail[p.by].decision = "auto"

\* The event gets one reply, though its messages may take both routes and be
\* claimed one after the other (claimRuntimeEvent of executeCompanyAuthorityReplyOperation).
RepliedOnce == \A p, q \in posts : p = q

\* The packet a person got is never replaced by that of another decision, even
\* after its message gave the claim back (assertSameCompanyAuthorityHumanHandoff).
HandoffIsKept == [][handoff # Nobody => handoff' = handoff]_admissionVars

\* An event Slack was told is accepted is still in the queue, was settled, or
\* expired or ran out of tries: a conflict or a refusal that acknowledges a
\* message leaves another to answer for it (consumeCompanyAuthorityQueueMessage).
AcceptedIsKept ==
  answered =>
    \/ \E a \in Attempts : mail[a].state \in {"queued", "taken", "dead"} \/ ~mail[a].fresh
    \/ claim.state = "settled"

\* While nothing fails any more, an event Slack was told is accepted is settled,
\* dropped as expired, or dead.
AcceptedIsEnded ==
  answered ~> \A a \in Attempts : mail[a].state \in {"none", "acked", "dead"}

=============================================================================
