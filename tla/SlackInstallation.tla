-------------------------- MODULE SlackInstallation --------------------------
(***************************************************************************)
(* Installing the Slack app and following what becomes of it.  An          *)
(* administrator starts an installation, which stores an intent with a     *)
(* secret state; Slack calls back with it, perhaps more than once, and the *)
(* callback that consumes the intent exchanges the code                    *)
(* (slack-oauth-installation.ts).  Lifecycle events then revise the        *)
(* connection they saw (slack-installation-entrypoint.ts).                 *)
(*                                                                         *)
(* Brainbase is external: it keeps the connection and its revision,        *)
(* compares them, and its answers may be lost.                             *)
(***************************************************************************)
EXTENDS Naturals

CONSTANTS
  Intents,      \* installations that are started
  Callbacks,    \* calls of Slack's redirect, some of them repeated
  Events,       \* lifecycle events, each delivered until it is answered
  MaxMisses     \* bound: outages and lost answers

Spaces == {"expected", "other"}   \* the workspace of the intent, another one
VARIABLES
  intents,      \* the intent of each installation
  callbacks,    \* each callback: of which intent, for which workspace, how far
  exchanged,    \* how often the code of each intent was exchanged
  connection,   \* the workspace's connection at Brainbase
  events,       \* each event: what happened, the revision it saw, how far
  misses

installationVars == <<intents, callbacks, exchanged, connection, events, misses>>

Idle == [pc |-> "none", of |-> 0, space |-> "expected"]
NoEvent == [pc |-> "none", kind |-> "none", saw |-> 0, applied |-> 0]
Init ==
  /\ intents = [i \in Intents |-> [state |-> "none", saw |-> 0]]
  /\ callbacks = [c \in Callbacks |-> Idle]
  /\ exchanged = [i \in Intents |-> 0]
  /\ connection = [status |-> "none", revision |-> 0, space |-> "expected"]
  /\ events = [e \in Events |-> NoEvent] /\ misses = 0

Miss == misses < MaxMisses /\ misses' = misses + 1
CallbackTo(c, pc) == callbacks' = [callbacks EXCEPT ![c].pc = pc]
EventTo(e, pc) == events' = [events EXCEPT ![e].pc = pc]
Revised(status, space) == connection' = [status |-> status, revision |-> connection.revision + 1, space |-> space]

-----------------------------------------------------------------------------
\* an intent is stored once, with the connection it is for
Store(i) ==
  /\ intents[i].state = "none"
  /\ intents' = [intents EXCEPT ![i] = [state |-> "open", saw |-> connection.revision]]
\* an authorized administrator starts an installation of the connection as it is
StartInstall(i) ==
  /\ Store(i)
  /\ UNCHANGED <<callbacks, exchanged, connection, events, misses>>
\* ten minutes pass
Outlive(i) ==
  /\ intents[i].state = "open"
  /\ intents' = [intents EXCEPT ![i].state = "expired"]
  /\ UNCHANGED <<callbacks, exchanged, connection, events, misses>>
\* the browser comes back from Slack, with the workspace somebody chose there
CallBack(c) ==
  /\ callbacks[c] = Idle
  /\ \E i \in Intents, s \in Spaces :
       /\ intents[i].state # "none"
       /\ callbacks' = [callbacks EXCEPT ![c] = [pc |-> "claim", of |-> i, space |-> s]]
  /\ UNCHANGED <<intents, exchanged, connection, events, misses>>

\* mutant: the intent is consumed by the exchange that succeeds
ClaimLater(c) ==
  /\ callbacks[c].pc = "claim"
  /\ CallbackTo(c, IF intents[callbacks[c].of].state = "open" THEN "exchange" ELSE "refused")
  /\ UNCHANGED <<intents, exchanged, connection, events, misses>>
\* one callback consumes the intent, before it expires
Claim(c) ==
  /\ callbacks[c].pc = "claim"
  /\ LET i == callbacks[c].of IN
     IF intents[i].state = "open"
     THEN intents' = [intents EXCEPT ![i].state = "consumed"] /\ CallbackTo(c, "exchange")
     ELSE CallbackTo(c, "refused") /\ UNCHANGED intents
  /\ UNCHANGED <<exchanged, connection, events, misses>>

\* the code is exchanged for the workspace and the revision of the intent only
Fits(c) == callbacks[c].space = "expected" /\ intents[callbacks[c].of].saw = connection.revision
\* installed, in conflict, or nobody knows
Exchange(c) ==
  /\ callbacks[c].pc = "exchange"
  /\ exchanged' = [exchanged EXCEPT ![callbacks[c].of] = @ + 1]
  /\ \/ Fits(c) /\ Revised("active", callbacks[c].space) /\ CallbackTo(c, "installed") /\ UNCHANGED misses
     \/ ~Fits(c) /\ CallbackTo(c, "refused") /\ UNCHANGED <<connection, misses>>
     \/ Miss /\ CallbackTo(c, "refused")
        /\ \/ UNCHANGED connection
           \/ Fits(c) /\ Revised("active", callbacks[c].space)
  /\ UNCHANGED <<intents, events>>

-----------------------------------------------------------------------------
\* something happens to an installed app; who tells saw the connection
Happen(e) ==
  /\ events[e] = NoEvent /\ connection.status # "none"
  /\ \E kind \in {"reauthorized", "scope_changed", "app_uninstalled", "tokens_revoked"} :
       events' = [events EXCEPT ![e] = [pc |-> "sent", kind |-> kind, saw |-> connection.revision, applied |-> 0]]
  /\ UNCHANGED <<intents, callbacks, exchanged, connection, misses>>
StatusAfter(kind) ==
  CASE kind = "reauthorized" -> "active"
    [] kind = "scope_changed" -> "reauth_required"
    [] kind = "app_uninstalled" -> "uninstalled"
    [] OTHER -> "revoked"
\* mutant: an event revises the connection whatever it saw
ApplyBlindly(e) ==
  /\ Revised(StatusAfter(events[e].kind), connection.space)
  /\ events' = [events EXCEPT ![e].pc = "answered", ![e].applied = @ + 1]
\* the revision the event saw is revised, a newer one is not
Apply(e) ==
  IF events[e].saw = connection.revision
  THEN /\ Revised(StatusAfter(events[e].kind), connection.space)
       /\ events' = [events EXCEPT ![e].pc = "answered", ![e].applied = @ + 1]
  ELSE EventTo(e, "answered") /\ UNCHANGED connection
\* an event is delivered; a failure or a lost answer has it delivered again
Deliver(e) ==
  /\ events[e].pc = "sent"
  /\ \/ Apply(e) /\ UNCHANGED misses
     \/ Miss /\ UNCHANGED <<connection, events>>
     \/ Miss /\ events[e].saw = connection.revision
        /\ Revised(StatusAfter(events[e].kind), connection.space)
        /\ events' = [events EXCEPT ![e].applied = @ + 1]
  /\ UNCHANGED <<intents, callbacks, exchanged>>

Next ==
  \/ \E i \in Intents : StartInstall(i) \/ Outlive(i)
  \/ \E c \in Callbacks : CallBack(c) \/ Claim(c) \/ Exchange(c)
  \/ \E e \in Events : Happen(e) \/ Deliver(e)
Spec == Init /\ [][Next]_installationVars

-----------------------------------------------------------------------------
TypeOK ==
  /\ intents \in [Intents -> [state : {"none", "open", "expired", "consumed"}, saw : Nat]]
  /\ callbacks \in [Callbacks -> [pc : {"none", "claim", "exchange", "installed", "refused"},
                                  of : Intents \cup {0}, space : Spaces]]
  /\ exchanged \in [Intents -> Nat] /\ misses \in 0..MaxMisses
  /\ connection \in [status : {"none", "active", "reauth_required", "uninstalled", "revoked"},
                     revision : Nat, space : Spaces]
  /\ events \in [Events -> [pc : {"none", "sent", "answered"}, saw : Nat, applied : Nat,
                            kind : {"none", "reauthorized", "scope_changed", "app_uninstalled", "tokens_revoked"}]]

\* However often the callback is called, its code is exchanged once, and the
\* connection is the one of the intent (SlackInstallationIntentStore.claim).
ExchangedOnce == (\A i \in Intents : exchanged[i] <= 1) /\ connection.space = "expected"

\* An event is applied once though it is delivered again, and an event that is late
\* does not bring back what was revoked after it was sent (expected_revision).
EventAppliesOnce == \A e \in Events : events[e].applied <= 1
RevokedStays ==
  [][connection.status \in {"uninstalled", "revoked"} /\ connection'.status = "active"
       => \/ \E c \in Callbacks : callbacks[c].pc = "exchange" /\ callbacks'[c].pc # "exchange"
          \/ \E e \in Events : events[e].kind = "reauthorized" /\ events[e].saw = connection.revision
                               /\ events'[e] # events[e]]_installationVars
=============================================================================
