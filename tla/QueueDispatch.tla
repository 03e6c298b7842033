--------------------------- MODULE QueueDispatch ---------------------------
(***************************************************************************)
(* What the Worker's queue handler does with one message: which of its     *)
(* branches takes the body, under which tenant context the work runs, and  *)
(* whether the message is acknowledged, retried or thrown back to the      *)
(* queue.  Batches hold one message.  A context that waited in the queue   *)
(* is issued again before long work, from what the authority says then.    *)
(***************************************************************************)
EXTENDS Naturals, FiniteSets

CONSTANTS
  Projects,     \* the projects a context may be signed for
  MaxTries,     \* deliveries before the platform dead-letters a message
  MaxChanges    \* changes of the authority's or of the deployment's mind

VARIABLES
  body,         \* the message: [kind, shape, fits]
  accepted,     \* the context sealed into it, and the projects it was sealed for
  world,        \* what the authority says now, and what the deployment is configured with
  message,      \* the message at the platform: where, tries, aged, done
  delivery,     \* the invocation under way: its step, its context and whether that is
                \* too old, the configuration it read
  acts,         \* the contexts effects were made under
  changes

vars == <<body, accepted, world, message, delivery, acts, changes>>

Jobs == {"settlement", "ledger", "letter", "authority"}
Reissued == {"redo", "selection", "minutes", "recovery"}
Tenant == Reissued \cup {"board", "reply"}
\* bare: the payload without a context; broken: a candidate that is not well formed
Bodies ==
  [kind : Tenant, shape : {"whole"}, fits : BOOLEAN]
    \cup [kind : Tenant, shape : {"bare", "broken"}, fits : {TRUE}]
    \cup [kind : Jobs, shape : {"whole"}, fits : {TRUE}]
    \cup [kind : {"settlement", "authority"}, shape : {"broken"}, fits : {TRUE}]
ProjectSets == SUBSET Projects \ {{}}
Contexts == [tenant : 0 .. MaxChanges, connection : 0 .. MaxChanges, projects : ProjectSets]
Configurations == [trusted : ProjectSets, bound : BOOLEAN]

Init ==
  /\ body \in Bodies
  /\ accepted \in [tenant : {0}, connection : {0}, projects : ProjectSets]
  /\ world = [signed |-> accepted, deployed |-> [trusted |-> accepted.projects, bound |-> TRUE]]
  /\ message = [at |-> "queued", tries |-> 0, aged |-> FALSE, done |-> FALSE]
  /\ delivery = [at |-> "none", context |-> accepted, old |-> FALSE, config |-> world.deployed]
  /\ acts = {}
  /\ changes = 0
TypeOK ==
  /\ body \in Bodies /\ accepted \in Contexts
  /\ world \in [signed : Contexts, deployed : Configurations]
  /\ message \in [at : {"queued", "taken", "acked", "dead"}, tries : 0 .. MaxTries, aged : BOOLEAN, done : BOOLEAN]
  /\ delivery \in [at : {"none", "taken", "scoped", "reissue", "ready", "working"},
                   context : Contexts, old : BOOLEAN, config : Configurations]
  /\ acts \subseteq Contexts /\ changes \in 0 .. MaxChanges
-----------------------------------------------------------------------------
\* The authority changes what it signs, or a deployment the projects it trusts.
Change ==
  /\ changes < MaxChanges /\ message.at \in {"queued", "taken"} /\ changes' = changes + 1
  /\ \/ world' = [world EXCEPT !.signed.tenant = @ + 1]
     \/ world' = [world EXCEPT !.signed.connection = @ + 1]
     \/ \E projects \in ProjectSets : world' = [world EXCEPT !.signed.projects = projects]
     \/ \E projects \in ProjectSets : world' = [world EXCEPT !.deployed.trusted = projects]
     \/ world' = [world EXCEPT !.deployed.bound = FALSE]
  /\ UNCHANGED <<body, accepted, message, delivery, acts>>
\* The sealed context gets older than its time to live.
Age ==
  /\ message.at = "queued" /\ ~message.aged /\ message' = [message EXCEPT !.aged = TRUE]
  /\ UNCHANGED <<body, accepted, world, delivery, acts, changes>>

Deliver ==
  /\ message.at = "queued"
  /\ message' = [message EXCEPT !.at = "taken", !.tries = @ + 1]
  /\ delivery' = [at |-> "taken", context |-> accepted, old |-> message.aged, config |-> world.deployed]
  /\ UNCHANGED <<body, accepted, world, acts, changes>>

At(step) == message.at = "taken" /\ delivery.at = step /\ UNCHANGED <<body, accepted, world, changes>>
Goes(step) == delivery' = [delivery EXCEPT !.at = step] /\ UNCHANGED <<message, acts>>
Leave(where, done) ==
  /\ message' = [message EXCEPT !.at = where, !.done = done]
  /\ delivery' = [delivery EXCEPT !.at = "none"] /\ UNCHANGED acts
Acked(done) == Leave("acked", done)
\* a retry asked for and an error thrown out of the handler are one to the platform
Retried == Leave(IF message.tries = MaxTries THEN "dead" ELSE "queued", FALSE)

\* A settlement is acknowledged when every stage of it is done, a ledger event or
\* the notice of a dead one when it was processed; a broken settlement is kept.
RunJob ==
  /\ At("taken") /\ body.kind \in {"settlement", "ledger", "letter"}
  /\ \/ body.shape = "whole" /\ Acked(TRUE)
     \/ Retried
\* A body that looks like an authority envelope never leaves this branch.
KeepCandidateAcked == At("taken") /\ body.kind = "authority" /\ body.shape = "broken" /\ Acked(FALSE)
KeepCandidate ==
  /\ At("taken") /\ body.kind = "authority"
  /\ body.shape = "broken" \/ ~delivery.config.bound
  /\ Retried
ConsumeCandidate ==
  /\ At("taken") /\ body.kind = "authority" /\ body.shape = "whole" /\ delivery.config.bound
  /\ Acked(TRUE) \/ Retried
\* A tenant body that cannot be dispatched, and a payload without its context.
DropUnroutable ==
  /\ At("taken") /\ body.kind \in Tenant /\ body.shape # "whole"
  /\ Acked(FALSE)

\* The payload must name what the envelope names, and the signed projects be the
\* ones the deployment trusts, or hold the one the chosen destination needs.
Fits == body.fits
Scoped(context) ==
  /\ Fits
  /\ \/ body.kind = "recovery"
     \/ /\ delivery.config.bound
        /\ IF body.kind \in {"selection", "board"}
           THEN delivery.config.trusted \cap context.projects # {}
           ELSE delivery.config.trusted = context.projects
IgnoreUnplaced ==
  /\ At("taken") /\ body.kind = "reply" /\ body.shape = "whole" /\ ~delivery.config.bound
  /\ Acked(FALSE)
RefuseScope ==
  /\ At("taken") /\ body.kind \in Tenant /\ body.shape = "whole" /\ ~Scoped(accepted)
  /\ \/ body.kind \notin {"reply", "recovery"} /\ Retried
     \/ body.kind = "reply" /\ delivery.config.bound /\ Acked(FALSE)
AcceptScope ==
  /\ At("taken") /\ body.kind \in Tenant /\ body.shape = "whole"
  /\ Scoped(accepted) \/ body.kind = "recovery"
  /\ Goes(IF body.kind \in Reissued THEN "reissue" ELSE "ready")

\* A context issued again must be of the same tenant, connection and projects,
\* both of the same revision; a recovery compares the projects and not the
\* connection's revision, and the authority holds it to the tenant's.
SameBinding(fresh) ==
  /\ fresh.tenant = accepted.tenant
  /\ body.kind # "recovery" => fresh.connection = accepted.connection
SameAuthorityUnscoped(fresh) == SameBinding(fresh)
SameAuthority(fresh) == SameBinding(fresh) /\ fresh.projects = accepted.projects
ReissueSkipped == At("reissue") /\ Goes("ready")
Reissue ==
  /\ At("reissue")
  /\ LET fresh == world.signed IN
     \/ /\ SameAuthority(fresh) /\ Scoped(fresh)
        /\ delivery' = [delivery EXCEPT !.at = "ready", !.context = fresh, !.old = FALSE]
        /\ UNCHANGED <<message, acts>>
     \/ ~(SameAuthority(fresh) /\ Scoped(fresh)) /\ body.kind # "recovery" /\ Retried
     \/ ~(SameAuthority(fresh) /\ Scoped(fresh)) /\ body.kind = "recovery" /\ Acked(FALSE)
     \/ Retried                       \* the authority did not answer

\* What the context says is still what the authority says.
Current(context) == context.tenant = world.signed.tenant /\ context.connection = world.signed.connection
Validate ==
  /\ At("ready")
  /\ \/ Current(delivery.context) /\ ~delivery.old /\ Goes("working")
     \/ (~Current(delivery.context) \/ delivery.old) /\ Acked(FALSE)
     \/ Retried                       \* the snapshot could not be read
Act ==
  /\ At("working")
  /\ \/ Current(delivery.context) /\ acts' = acts \cup {delivery.context} /\ UNCHANGED <<message, delivery>>
     \/ ~Current(delivery.context) /\ Acked(FALSE)
\* Long work refreshes its context before it expires; a refusal ends the work.
Refresh ==
  /\ At("working") /\ body.kind \in {"redo", "selection"}
  /\ ~SameAuthority(world.signed) /\ Acked(FALSE)
Finish == At("working") /\ (Acked(TRUE) \/ Retried)

Consume == RunJob \/ KeepCandidate \/ ConsumeCandidate \/ DropUnroutable
Next ==
  \/ Change \/ Age \/ Deliver \/ Consume
  \/ IgnoreUnplaced \/ RefuseScope \/ AcceptScope \/ Reissue \/ Validate \/ Act \/ Refresh \/ Finish
Spec == Init /\ [][Next]_vars
-----------------------------------------------------------------------------
(* Whatever is reissued, redeployed and retried on the way, an effect is   *)
(* made under the tenant revision and the projects the message was         *)
(* accepted with, and under its connection's revision but for a recovery   *)
(* (reissueLongRunningTenantContext, expected...Scope).                    *)
ActsAsAccepted ==
  \A act \in acts :
    /\ act.tenant = accepted.tenant /\ act.projects = accepted.projects
    /\ body.kind # "recovery" => act.connection = accepted.connection

\* No effect comes of a body without its context, broken or at odds with it.
NothingBareActs == acts # {} => body.shape = "whole" /\ body.fits

\* An authority envelope, a settlement and a ledger event are acknowledged by
\* their consumer alone, never by the branches they could fall through to.
JobIsKept == body.kind \in Jobs /\ message.at = "acked" => message.done

\* A command or a file that waited past its context's life is not lost for it:
\* dropped undone, something of its authority or configuration has changed.
WaitingIsNoRefusal ==
  body.kind \in Reissued /\ body.shape = "whole" /\ body.fits /\ message.at = "acked" /\ ~message.done
    => changes > 0
=============================================================================
