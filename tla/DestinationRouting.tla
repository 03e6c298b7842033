------------------------- MODULE DestinationRouting -------------------------
(***************************************************************************)
(* Which workspace and which app of Slack the minutes of a run go to.  The *)
(* deployment names a workspace, and perhaps an app, for an organization;  *)
(* a destination may name both itself; the connections the deployment      *)
(* trusts know the app.  All destinations are resolved before a run starts *)
(* its work and the one of the run again for every message.  A message for *)
(* another workspace goes out with that organization's bot token, if there *)
(* is one, and otherwise under a tenant context issued for it.             *)
(***************************************************************************)
EXTENDS Naturals, FiniteSets

CONSTANTS
  Hints,       \* the connections a deployment may trust: [ws, app, tenant, home]
  MaxChanges   \* changes of what the authority grants

VARIABLES
  plan,        \* the configuration: [org, own, trusted, token, shared]
  grant,       \* whose the destination workspace is for the authority
  source,      \* whether the authority still issues the run's own context
  at,          \* the run's step
  worked,      \* Brainbase or GitHub was written
  posts,       \* the messages sent: [step, ws, app, by, owner]
  reason,      \* why the run failed
  changes

vars == <<plan, grant, source, at, worked, posts, reason, changes>>

Destinations == {1, 2}
Mine == 1                       \* the destination of the run
Here == [ws |-> "src", app |-> "A"]
Nothing == [ws |-> "", app |-> ""]
Named == [ws : {"src", "dst"}, app : {"", "A", "B"}]
Own == {Nothing, [ws |-> "dst", app |-> "A"], [ws |-> "dst", app |-> "B"]}
Grants == {"ours", "foreign", "elsewhere", "revoked"}
Init ==
  /\ plan \in [org : Named \cup {Nothing}, own : [Destinations -> Own], trusted : SUBSET Hints,
               token : BOOLEAN, shared : SUBSET {"channel", "board"}]
  /\ grant \in Grants /\ source = "ours"
  /\ at = "preflight" /\ worked = FALSE /\ posts = {} /\ reason = "none" /\ changes = 0
TypeOK ==
  /\ plan \in [org : Named \cup {Nothing}, own : [Destinations -> Own], trusted : SUBSET Hints,
               token : BOOLEAN, shared : SUBSET {"channel", "board"}]
  /\ grant \in Grants /\ source \in {"ours", "revoked"}
  /\ at \in {"preflight", "work", "refresh", "parent", "chunk", "card", "board", "done", "failed"} /\ worked \in BOOLEAN
  /\ posts \subseteq [step : {"parent", "chunk", "card", "board"}, ws : {"src", "dst"}, app : {"A", "B"},
                      by : {"context", "token"}, owner : Grants]
  /\ reason \in {"none", "binding", "shared", "authority"} /\ changes \in 0 .. MaxChanges
-----------------------------------------------------------------------------
\* trustedDestinationConnections: none of the workspace's may be another
\* tenant's; of the rest, those of the run's deployment count.
Of(ws) == {h \in plan.trusted : h.ws = ws}
ForeignUnseen(ws) == FALSE
Foreign(ws) == \E h \in Of(ws) : h.tenant # "ours"
KnownApps(ws) == {h.app : h \in {k \in Of(ws) : k.home = "here"}}

\* resolveMeetingMinutesDestinationSlackBinding
ConfiguredApp(d) == IF plan.own[d].app # "" THEN plan.own[d].app ELSE plan.org.app
Contradicts(d) ==
  \/ plan.own[d] # Nothing /\ plan.own[d].ws # plan.org.ws
  \/ plan.own[d] # Nothing /\ plan.org.app # "" /\ plan.own[d].app # plan.org.app
  \/ Cardinality(KnownApps(plan.org.ws)) > 1
  \/ ConfiguredApp(d) # "" /\ KnownApps(plan.org.ws) # {} /\ KnownApps(plan.org.ws) # {ConfiguredApp(d)}
OwnAppAnywhere(ws) == {Here.app}
OwnApp(ws) == IF ws = Here.ws THEN {Here.app} ELSE {}
Candidates(d) ==
  IF KnownApps(plan.org.ws) # {} THEN KnownApps(plan.org.ws)
  ELSE IF ConfiguredApp(d) # "" THEN {ConfiguredApp(d)}
  ELSE OwnApp(plan.org.ws)
Resolves(d) == plan.org # Nothing /\ ~Contradicts(d) /\ ~Foreign(plan.org.ws) /\ Candidates(d) # {}
Binding(d) == [ws |-> plan.org.ws, app |-> CHOOSE a \in Candidates(d) : TRUE]

Fail(why) == at' = "failed" /\ reason' = why /\ UNCHANGED <<plan, grant, source, worked, posts, changes>>
Step(to) == at' = to /\ UNCHANGED <<plan, grant, source, reason, changes>>

\* The authority learns that a workspace is another's, or revokes it.
Change ==
  /\ changes < MaxChanges /\ changes' = changes + 1
  /\ \/ grant' \in Grants \ {grant} /\ UNCHANGED source
     \/ source = "ours" /\ source' = "revoked" /\ UNCHANGED grant
  /\ UNCHANGED <<plan, at, worked, posts, reason>>

\* preflightMeetingMinutesDestinationSlackBindings, when the clients are made.
CheckedOthers == Destinations \ {Mine}
Checked == Destinations
Preflight ==
  /\ at = "preflight"
  /\ \/ (\A d \in Checked : Resolves(d)) /\ Step("work") /\ UNCHANGED <<worked, posts>>
     \/ (\E d \in Checked : ~Resolves(d)) /\ Fail("binding")

\* The minutes are generated and saved to GitHub, in the run's own context,
\* which is then issued again (refreshAuthorization).
Work ==
  /\ at = "work"
  /\ \/ source = "ours" /\ worked' = TRUE /\ Step("refresh") /\ UNCHANGED posts
     \/ source # "ours" /\ Fail("authority")
Refresh ==
  /\ at = "refresh"
  /\ \/ source = "ours" /\ Step("parent") /\ UNCHANGED <<worked, posts>>
     \/ source # "ours" /\ Fail("authority")

\* resolveCrossWorkspaceMeetingMinutesSlackToken: for another workspace only.
ByTokenAlways(b) == plan.token
ByToken(b) == plan.token /\ b.ws # Here.ws

\* resolveDerivedSlackTenantContext with same_tenant: what the authority issues
\* must be of the run's tenant and deployment.
IssuedToAny(b) == IF b.ws = Here.ws THEN source = "ours" ELSE grant # "revoked"
Issued(b) == IF b.ws = Here.ws THEN source = "ours" ELSE grant = "ours"

\* destinationSlack: the binding is resolved again, then the message is sent.
Send(step, to) ==
  LET b == Binding(Mine)
      Sent(by) == posts' = posts \cup {[step |-> step, ws |-> b.ws, app |-> b.app, by |-> by,
                                        owner |-> IF b.ws = Here.ws THEN source ELSE grant]}
  IN \/ ~Resolves(Mine) /\ Fail("binding")
     \/ Resolves(Mine) /\ ByToken(b) /\ source = "ours" /\ Sent("token") /\ Step(to) /\ UNCHANGED worked
     \/ Resolves(Mine) /\ ByToken(b) /\ source # "ours" /\ Fail("authority")
     \/ Resolves(Mine) /\ ~ByToken(b) /\ Issued(b) /\ Sent("context") /\ Step(to) /\ UNCHANGED worked
     \/ Resolves(Mine) /\ ~ByToken(b) /\ ~Issued(b) /\ Fail("authority")

\* destinationForChannel: a channel that two destinations share is refused.
Ambiguous(what) == what \in plan.shared
Parent == at = "parent" /\ IF Ambiguous("channel") THEN Fail("shared") ELSE Send("parent", "chunk")
Chunk == at = "chunk" /\ IF Ambiguous("channel") THEN Fail("shared") ELSE Send("chunk", "card")
Card == at = "card" /\ Send("card", "board")

\* repairTaskBoard: the only destination of the board, its binding, and for want
\* of a token a context of the board's workspace, which is the organization's.
Board == at = "board" /\ IF Ambiguous("board") THEN Fail("shared") ELSE Send("board", "done")

Next == Change \/ Preflight \/ Work \/ Refresh \/ Parent \/ Chunk \/ Card \/ Board
Spec == Init /\ [][Next]_vars
-----------------------------------------------------------------------------
\* Every message goes to the workspace the deployment names for the organization
\* by an app that the deployment, the destination or a trusted connection names
\* for it, never by the source's app in another workspace.
PostedAsNamed == \A p \in posts :
  /\ p.ws = plan.org.ws
  /\ p.ws # Here.ws =>
       p.app \in {plan.org.app, plan.own[Mine].app} \cup {h.app : h \in {k \in plan.trusted : k.ws = p.ws /\ k.home = "here"}}

\* A message sent under a context is in a workspace of the run's own tenant and
\* deployment when it is sent; a bot token is for other workspaces, and for none
\* that a trusted connection knows as another tenant's.
PostedAmongUs == \A p \in posts :
  /\ p.by = "context" => p.owner = "ours"
  /\ p.by = "token" => p.ws # Here.ws
  /\ \A h \in plan.trusted : h.ws = p.ws => h.tenant = "ours"

\* A run whose work was started does not fail for the want of a binding: what
\* is wrong with the configuration shows before Brainbase or GitHub is written.
PreflightIsEnough == reason = "binding" => ~worked
=============================================================================
