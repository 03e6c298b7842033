---------------------------- MODULE AuthorityWire ----------------------------
(***************************************************************************)
(* One decision of the company authority on its way through the runtime:   *)
(* asked for and accepted at the ingress, sealed and queued, accepted      *)
(* again by the consumer of the queue, its tenant context verified at each *)
(* boundary of the execution, and asked for anew when it is too old.  The  *)
(* clock moves, and the connection may be revoked or changed, between any  *)
(* two of them.  A decision is the set of its flaws, its own window and    *)
(* the tenant context nested in it; the checks are those of                *)
(* company-authority/v1/reference/wire.mjs, which the runtime runs, and    *)
(* of company-authority-runtime-adapter.ts.                                *)
(***************************************************************************)
EXTENDS Naturals, FiniteSets, Sequences, TenantEnvelope

CONSTANTS MaxClock, MaxChanges, Boundaries

VARIABLES clock,       \* the clock of the Workers
          connection,  \* the authoritative connection: status, tenant, revision, contract
          journey,     \* how far the decision is: its stage and the code it was refused with
          decision,    \* the signed decision in hand
          passed,      \* boundaries the nested context passed, and those that refused it as too old
          renewals     \* connection changes and decisions asked for anew, a bound

authorityVars == <<clock, connection, journey, decision, passed, renewals>>

Verdicts == {"auto", "approval", "human_action", "deny"}
DecisionFlaws == {"identity", "two_bodies", "extra", "authority", "subject", "organization", "project",
                  "audience", "deployment", "marker", "correlation", "capability", "effect", "resource",
                  "delivery", "outer_jws", "nested_jws", "nested_shape"}
NestedFlaws == {"extra", "constants", "revision", "method", "jws_shape"}
Nested(d) == [flaws |-> d.nested, issued |-> d.issued, expires |-> d.expires, tenant |-> "own",
              connection |-> d.connection, contract |-> 0]

Nobody == [stage |-> "idle", code |-> "none"]
At(s) == journey.stage = s
Goes(s, code) == journey' = [stage |-> s, code |-> code]

\* what the authority can have signed at this time: any verdict and window, and
\* an automatic decision with one flaw
Signed(c) ==
  {[flaws |-> f[1], nested |-> f[2], verdict |-> f[3], issued |-> i, expires |-> i + l, connection |-> c] :
     i \in {clock, clock + 2}, l \in 0..MaxTtl + 1,
     f \in ({{}} \X {{}} \X Verdicts) \cup ({{x} : x \in DecisionFlaws} \X {{}} \X {"auto"})
             \cup ({{}} \X {{x} : x \in NestedFlaws} \X {"auto"})}
Unsigned == [flaws |-> {}, nested |-> {}, verdict |-> "deny", issued |-> 0, expires |-> 0, connection |-> 0]

Init ==
  /\ clock = 0
  /\ connection = [status |-> "active", tenant |-> "own", revision |-> 0, contract |-> 0]
  /\ journey = Nobody /\ decision = Unsigned
  /\ passed = [by |-> {}, late |-> {}] /\ renewals = 0

-----------------------------------------------------------------------------
(* What the runtime refuses of a request before it asks.                   *)
(***************************************************************************)
EffectOf(capability, mapped) ==
  Verdict(<< <<mapped = "none", "DESIRED_EFFECT_REQUIRED">>,
             <<capability = "runtime.execute" /\ mapped # "external_side_effect", "DESIRED_EFFECT_REQUIRED">> >>)

ObservedRequest(flaw) ==
  Verdict(<< <<flaw = "authority_field", "AUTHORITY_CONTEXT_INVALID_SIGNATURE">>,
             <<flaw = "keys", "AUTHORITY_CONTEXT_INVALID_SIGNATURE">>,
             <<flaw = "no_capability", "COMPANY_AUTHORITY_REQUIRED">>,
             <<flaw = "no_effect", "DESIRED_EFFECT_REQUIRED">> >>)

\* An observation of Slack becomes a request, or nothing is asked.
Observe ==
  /\ At("idle")
  /\ \E verified \in BOOLEAN, capability \in {"runtime.execute", "task.write"},
        mapped \in {"none", "write", "external_side_effect"},
        flaw \in {"none", "authority_field", "keys", "no_capability", "no_effect"} :
       LET code == IF ~verified THEN "PROVIDER_NOT_IMPLEMENTED"
                   ELSE IF EffectOf(capability, mapped) # "accepted" THEN EffectOf(capability, mapped)
                   ELSE ObservedRequest(flaw)
       IN IF code = "accepted" THEN Goes("asked", "none") ELSE Goes("refused", code)
  /\ UNCHANGED <<clock, connection, decision, passed, renewals>>

-----------------------------------------------------------------------------
(* What the reference checks of the decision.                              *)
(***************************************************************************)
Invalid == "AUTHORITY_CONTEXT_INVALID_SIGNATURE"

\* the window of the authority: what is too old has a code of its own
AuthorityWindow(d, now) ==
  << <<d.expires <= d.issued \/ d.expires > d.issued + MaxTtl, Invalid>>,
     <<d.expires + Skew < now, "AUTHORITY_CONTEXT_EXPIRED">>,
     <<d.issued > now + Skew, Invalid>> >>

Integrity(flaws) == << <<flaws \cap {"method", "jws_shape"} # {}, Invalid>> >>

NestedContext(d, now) ==
  << <<d.nested \cap {"extra", "constants", "revision"} # {} \/ "nested_shape" \in d.flaws, Invalid>> >>
  \o AuthorityWindow(d, now) \o Integrity(d.nested)

AuthorityPart(d) == << <<"authority" \in d.flaws, Invalid>> >>

\* the nested context speaks of the actor, the organisation and the project of the decision
LayersBind(d) ==
  << <<"subject" \in d.flaws, "AUTHORITY_SCOPE_MISMATCH">>,
     <<"organization" \in d.flaws, "AUTHORITY_CROSS_ORG">>,
     <<"project" \in d.flaws, "AUTHORITY_SCOPE_MISMATCH">>,
     <<"delivery" \in d.flaws, "AUTHORITY_SCOPE_MISMATCH">> >>

\* and with the request at hand, the decision answers that request
RequestBinds(d) ==
  << <<"correlation" \in d.flaws, "AUTHORITY_SCOPE_MISMATCH">>,
     <<"capability" \in d.flaws, "COMPANY_AUTHORITY_REQUIRED">>,
     <<"effect" \in d.flaws, "COMPANY_AUTHORITY_EFFECT_MISMATCH">>,
     <<"resource" \in d.flaws, "AUTHORITY_SCOPE_MISMATCH">> >>

ExecutionContext(d, now, asked) ==
  << <<"extra" \in d.flaws, Invalid>> >> \o NestedContext(d, now) \o AuthorityPart(d) \o AuthorityWindow(d, now)
  \o << <<"audience" \in d.flaws, Invalid>>, <<"deployment" \in d.flaws, "AUTHORITY_SCOPE_MISMATCH">> >>
  \o LayersBind(d) \o << <<"marker" \in d.flaws, "COMPANY_AUTHORITY_REQUIRED">> >>
  \o (IF asked THEN RequestBinds(d) ELSE <<>>)

\* the structure is judged at the time the decision was issued
Structure(d) ==
  << <<d.flaws \cap {"identity", "two_bodies"} # {}, Invalid>> >> \o ExecutionContext(d, d.issued, FALSE)

Signatures(d) == << <<d.flaws \cap {"outer_jws", "nested_jws"} # {}, Invalid>> >>

\* acceptCompanyAuthorityResponse: the structure, both signatures, the same
\* checks at the time of the caller, and only then the decision itself.
Accepts(d, now) ==
  Verdict(Structure(d) \o Signatures(d) \o ExecutionContext(d, now, TRUE)
          \o << <<d.verdict = "deny", "COMPANY_AUTHORITY_DENIED">> >>)

-----------------------------------------------------------------------------
\* The client fails or has no decision: nothing is executed.
Unresolved ==
  /\ At("asked")
  /\ \E state \in {"no_data", "unknown", "partial", "not_collected"} : Goes("refused", "AUTHORITY_UNAVAILABLE")
  /\ UNCHANGED <<clock, connection, decision, passed, renewals>>

\* The authority answers with a signed error; the reference passes it on.
Answered ==
  /\ At("asked") /\ Goes("refused", "PERSON_UNKNOWN")
  /\ UNCHANGED <<clock, connection, decision, passed, renewals>>

Resolve ==
  /\ At("asked")
  /\ \E d \in Signed(connection.revision) :
       IF Accepts(d, clock) = "accepted" THEN decision' = d /\ Goes("queued", "none")
       ELSE Goes("refused", Accepts(d, clock)) /\ UNCHANGED decision
  /\ UNCHANGED <<clock, connection, passed, renewals>>

\* The consumer knows its own envelopes, names what is wrong with one that is
\* malformed, and accepts the decision again at its own time.
Diagnosed(flaw) ==
  Verdict(<< <<flaw = "correlation", "AUTHORITY_SCOPE_MISMATCH">>,
             <<flaw \in {"schema", "response", "shape"}, "AUTHORITY_ENVELOPE_INVALID">> >>)
Consume ==
  /\ At("queued")
  /\ \E flaw \in {"none", "correlation", "schema", "response", "shape"} :
       LET code == IF Diagnosed(flaw) # "accepted" THEN Diagnosed(flaw) ELSE Accepts(decision, clock)
       IN IF code = "accepted" THEN Goes("executing", "none") /\ UNCHANGED decision
          ELSE Goes(IF flaw = "none" THEN "lapsed" ELSE "refused", code) /\ decision' = Unsigned
  /\ UNCHANGED <<clock, connection, passed, renewals>>

TooOld == {"EXPIRED", "WORKSPACE_CONNECTION_REVOKED", "WORKSPACE_CONNECTION_STALE_REVISION"}

\* A boundary verifies the nested context at its own time.
Boundary(b) ==
  /\ At("executing")
  /\ \E hasKey \in BOOLEAN, lost \in {l \in SUBSET ScopeFaults : Cardinality(l) <= 1} :
       LET code == TenantBoundary(Nested(decision), clock, hasKey, connection, lost)
       IN passed' = [by |-> IF code = "accepted" THEN passed.by \cup {b} ELSE passed.by \ {b},
                     late |-> IF code \in TooOld THEN passed.late \cup {b} ELSE passed.late]
  /\ UNCHANGED <<clock, connection, journey, decision, renewals>>

\* The delivery asks for a decision anew, and takes only an automatic one.
Reissue ==
  /\ At("executing") /\ passed.late # {} /\ renewals < MaxChanges
  /\ renewals' = renewals + 1
  /\ \E d \in Signed(connection.revision) :
       IF Accepts(d, clock) # "accepted" \/ d.verdict # "auto"
       THEN /\ Goes("refused", IF Accepts(d, clock) # "accepted" THEN Accepts(d, clock)
                               ELSE "AUTHORITY_SCOPE_MISMATCH")
            /\ UNCHANGED <<decision, passed>>
       ELSE decision' = d /\ passed' = [by |-> {}, late |-> {}] /\ UNCHANGED journey
  /\ UNCHANGED <<clock, connection>>

\* While a decision is on its way time passes; an administrator of the tenant revokes the connection, or connects anew.
Tick ==
  /\ journey.stage \in {"queued", "executing"} /\ clock < MaxClock /\ clock' = clock + 1
  /\ UNCHANGED <<connection, journey, decision, passed, renewals>>
Revoke ==
  /\ journey.stage \in {"queued", "executing"} /\ connection.status = "active" /\ renewals < MaxChanges
  /\ connection' = [connection EXCEPT !.status = "revoked"] /\ renewals' = renewals + 1
  /\ UNCHANGED <<clock, journey, decision, passed>>
Reconnect ==
  /\ journey.stage \in {"queued", "executing"} /\ renewals < MaxChanges /\ renewals' = renewals + 1
  /\ connection' = [connection EXCEPT !.status = "active", !.revision = @ + 1]
  /\ UNCHANGED <<clock, journey, decision, passed>>

Next ==
  \/ Observe \/ Unresolved \/ Answered \/ Resolve \/ Consume \/ Reissue
  \/ \E b \in Boundaries : Boundary(b)
  \/ Tick \/ Revoke \/ Reconnect
Spec == Init /\ [][Next]_authorityVars
-----------------------------------------------------------------------------
(***************************************************************************)
(* The two acceptances of one decision agree: what the ingress accepted    *)
(* and the queue delivered whole is refused there for its age alone, so no *)
(* other check of the consumer can strand a decision that was taken.       *)
(***************************************************************************)
LapsesByAgeOnly == journey.stage = "lapsed" => journey.code = "AUTHORITY_CONTEXT_EXPIRED"

(***************************************************************************)
(* No boundary passes a context again that it refused as too old, nor one  *)
(* that another boundary did: neither the clock nor the connection goes    *)
(* back, whatever the order the boundaries are reached in.  Only another   *)
(* decision, an automatic one, clears them.                                *)
(***************************************************************************)
LateStaysLate ==
  [][ /\ passed.late # {} /\ passed'.late # {} => passed'.by \subseteq passed.by
      /\ decision' # decision /\ At("executing") => decision'.verdict = "auto" ]_authorityVars

(***************************************************************************)
(* Whatever passed a boundary carries an automatic, approved or human      *)
(* decision, with no flaw in it or in the context nested in it.            *)
(***************************************************************************)
PassedIsWhole ==
  passed.by # {} => /\ decision.verdict # "deny" /\ decision.flaws = {} /\ decision.nested = {}
                    /\ connection.tenant = "own"
=============================================================================
