------------------------------ MODULE DoorsMC -------------------------------
(***************************************************************************)
(* What comes in and what may go out, side by side: part chooses what      *)
(* moves, the others rest in an initial state.                             *)
(* Events: two deliveries of one event, one change                         *)
(* of the rollout or of the policy.  Buttons: two clicks whose work        *)
(* overlaps.  Contracts: an exchange of the tenant context, at four        *)
(* evaluation times, and the way of one decision of the authority, with    *)
(* the connection revoked or changed twice, past two boundaries.           *)
(* Dispatch: one message, two deliveries, two changes.  Request: a body of *)
(* at most five bytes in chunks of one to three, two placements and one    *)
(* change of the connection.  Routing: two destinations of an              *)
(* organization, all their configurations, four connections the deployment *)
(* may trust (either app, another deployment, another tenant), one change  *)
(* of the authority.                                                       *)
(***************************************************************************)
EXTENDS Naturals, FiniteSets

CONSTANTS
  Attempts, MaxTries, MaxChanges, MaxFaults,
  Clicks, MaxToggles, MaxSlips,
  MaxBody, FirstBuffer, Chunks, MaxTurnovers

VARIABLES part,
  rollout, policy, changes, answered, slack, mail, worker, claim, handoff, outbox, turn, posts, mishaps,
  clicks, screen, commands, pause, toggles, slips,
  stage, evaluation, heard, scopes,
  clock, connection, journey, decision, passed, renewals,
  body, accepted, world, message, delivery, acts, reversals,
  progress, bytes, arrival, note, placements, bound, link, lookup, context, turnovers,
  plan, grant, issued, leg, worked, sent, why, shifts

admissionVars == <<rollout, policy, changes, answered, slack, mail, worker, claim, handoff, outbox,
                   turn, posts, mishaps>>
interactionVars == <<clicks, screen, commands, pause, toggles, slips>>
exchangeVars == <<stage, evaluation, heard, scopes>>
decisionVars == <<clock, connection, journey, decision, passed, renewals>>
dispatchVars == <<body, accepted, world, message, delivery, acts, reversals>>
requestVars == <<progress, bytes, arrival, note, placements, bound, link, lookup, context, turnovers>>
routingVars == <<plan, grant, issued, leg, worked, sent, why, shifts>>

Admission == INSTANCE AuthorityAdmission
Interaction == INSTANCE SlackInteraction
Exchange == INSTANCE TenantWire WITH MaxTtl <- 2, Skew <- 1, MaxLease <- 1, WireClock <- 0..3
Decision == INSTANCE AuthorityWire WITH
              MaxTtl <- 2, Skew <- 1, MaxClock <- 4, MaxChanges <- 2, Boundaries <- {"credential", "delivery"}
Dispatch == INSTANCE QueueDispatch WITH
              Projects <- {1, 2}, MaxTries <- 2, MaxChanges <- 2, changes <- reversals
Request == INSTANCE SlackRequest WITH
             MaxChanges <- MaxTurnovers, stage <- progress, body <- bytes, event <- arrival, connection <- link
Connection(workspace, app, tenant, home) == [ws |-> workspace, app |-> app, tenant |-> tenant, home |-> home]
Trusted == {Connection("dst", "A", "ours", "here"), Connection("dst", "B", "ours", "here"),
            Connection("dst", "B", "ours", "away"), Connection("dst", "A", "foreign", "here")}
Routing == INSTANCE DestinationRouting WITH
  Hints <- Trusted, MaxChanges <- 1, source <- issued, at <- leg, posts <- sent, reason <- why, changes <- shifts

Init ==
  /\ part \in {"admission", "interaction", "exchange", "decision", "dispatch", "request", "routing"}
  /\ Admission!Init /\ (part # "admission" => rollout = "disabled" /\ policy = "auto")
  /\ Interaction!Init /\ (part # "interaction" => pause = FALSE)
  /\ Exchange!Init /\ (part # "exchange" => evaluation = 0)
  /\ Decision!Init
  /\ Dispatch!Init
  /\ part # "dispatch" => body = [kind |-> "reply", shape |-> "whole", fits |-> TRUE] /\ accepted.projects = {1}
  /\ Request!Init /\ (part # "request" => bytes = Request!NoBody)
  /\ Routing!Init
  /\ part # "routing" => /\ grant = "ours"
                         /\ plan = [org |-> Routing!Nothing, own |-> [d \in {1, 2} |-> Routing!Nothing],
                                    trusted |-> {}, token |-> FALSE, shared |-> {}]
AdmissionMoves(A) == part = "admission" /\ A /\ UNCHANGED <<part, interactionVars, exchangeVars, decisionVars, dispatchVars, requestVars, routingVars>>
InteractionMoves(A) == part = "interaction" /\ A /\ UNCHANGED <<part, admissionVars, exchangeVars, decisionVars, dispatchVars, requestVars, routingVars>>
Next ==
  \/ AdmissionMoves(Admission!Next) \/ InteractionMoves(Interaction!Next)
  \/ part = "exchange" /\ Exchange!Next /\ UNCHANGED <<part, admissionVars, interactionVars, decisionVars, dispatchVars, requestVars, routingVars>>
  \/ part = "decision" /\ Decision!Next /\ UNCHANGED <<part, admissionVars, interactionVars, exchangeVars, dispatchVars, requestVars, routingVars>>
  \/ part = "dispatch" /\ Dispatch!Next /\ UNCHANGED <<part, admissionVars, interactionVars, exchangeVars, decisionVars, requestVars, routingVars>>
  \/ part = "request" /\ Request!Next /\ UNCHANGED <<part, admissionVars, interactionVars, exchangeVars, decisionVars, dispatchVars, routingVars>>
  \/ part = "routing" /\ Routing!Next /\ UNCHANGED <<part, admissionVars, interactionVars, exchangeVars, decisionVars, dispatchVars, requestVars>>

\* the fairness of the part that moves: Admission!Fairness or Interaction!Fairness
suiteVars == <<part, admissionVars, interactionVars, exchangeVars, decisionVars, dispatchVars, requestVars, routingVars>>
Fairness ==
  /\ \A a \in Attempts : WF_suiteVars(AdmissionMoves(Admission!Consume(a))) /\ WF_suiteVars(AdmissionMoves(Admission!Handle(a)))
  /\ \A c \in Clicks : WF_suiteVars(InteractionMoves(Interaction!Work(c)))
Spec == Init /\ [][Next]_suiteVars /\ Fairness
-----------------------------------------------------------------------------
\* SlackRequest: a body is taken whole, the two events of a mention become one,
\* the order of the placements binds nothing, and a context is admitted for the
\* connection as it is and executed with its projects.
\* AuthorityAdmission: a sealed decision is followed, an event is replied to
\* once whichever routes its messages take, and an accepted event is kept.
EventsAreFollowed ==
  /\ part = "request" => /\ Request!TypeOK /\ Request!BodyIsWhole /\ Request!MentionIsOne /\ Request!OrderBindsNothing
                         /\ Request!ExecutedAsAdmitted /\ Request!AdmittedIsCurrent
  /\ Admission!TypeOK /\ Admission!FollowedAsSealed /\ Admission!RepliedOnce /\ Admission!AcceptedIsKept

\* SlackInteraction: a redo leaves the shared message alone, a choice is queued
\* or its failure told, and the pause of the intake holds.
ButtonsAreAnswered ==
  Interaction!TypeOK /\ Interaction!RedoKeepsStatus /\ Interaction!ChoiceIsAnswered /\ Interaction!PausedIsNotQueued

\* TenantWire, AuthorityWire: the two implementations of a contract agree, an
\* accepted exchange is of one tenant, and what was accepted is refused for its
\* age alone and passes a boundary whole.  QueueDispatch: an effect is made under
\* what its message was accepted with, no branch lets a body fall through to
\* another, and waiting in the queue refuses no command.  DestinationRouting:
\* every message of the minutes goes to the workspace named for the organization,
\* by an app named for it and among the run's own tenant, and a run that was
\* started does not fail for the want of a binding.
VerdictsAgree ==
  /\ part = "exchange" => Exchange!ConsumerIsWithinReference /\ Exchange!AcceptedIsOwn
  /\ Decision!LapsesByAgeOnly /\ Decision!PassedIsWhole
  /\ Dispatch!TypeOK /\ Dispatch!ActsAsAccepted /\ Dispatch!NothingBareActs
  /\ Dispatch!JobIsKept /\ Dispatch!WaitingIsNoRefusal
  /\ part = "routing" => /\ Routing!TypeOK /\ Routing!PostedAsNamed
                         /\ Routing!PostedAmongUs /\ Routing!PreflightIsEnough

\* A handoff is not replaced, a choice not hidden by the click before it, and a
\* context refused as too old not passed later; an accepted event ends, and so
\* does the work of a click.
DoorsGoForward ==
  /\ Admission!HandoffIsKept /\ Interaction!ChoiceStaysVisible /\ Decision!LateStaysLate
  /\ (part = "admission") => Admission!AcceptedIsEnded
  /\ (part = "interaction") => Interaction!ClickIsFinished
=============================================================================
