----------------------------- MODULE TenantWire -----------------------------
(***************************************************************************)
(* One exchange of the tenant-context protocol, message by message: the    *)
(* negotiation, the tenant context, the credential lease, the quota        *)
(* decision, a usage event, the receipt and the idempotency claim.  Every  *)
(* message is judged by Mana's canonical consumer and by the reference of  *)
(* the contract; the consumer goes on to the next message when it accepts  *)
(* one and ends the exchange when it does not.  What a message says of the *)
(* tenant, the connection and the revisions is its scope: that of the      *)
(* context of the exchange, "own", or another.                             *)
(***************************************************************************)
EXTENDS Naturals, FiniteSets, Sequences, TenantEnvelope

CONSTANTS MaxLease, WireClock   \* MAX_LEASE_TTL_SECONDS; the evaluation times tried

VARIABLES stage,      \* the message that comes next, or "accepted", "refused"
          evaluation, \* evaluation_time of the exchange
          heard,      \* the last message and the two verdicts on it
          scopes      \* the scopes of the accepted messages that carry one

wireVars == <<stage, evaluation, heard, scopes>>

Stages == <<"negotiation", "context", "lease", "quota", "usage", "receipt", "claim", "scope">>
After(s) == Stages[(CHOOSE i \in DOMAIN Stages : Stages[i] = s) + 1]
Nothing == [kind |-> "none", mana |-> "accepted", reference |-> "accepted", selected |-> "none"]

Init ==
  /\ stage = "negotiation" /\ evaluation \in WireClock
  /\ heard = Nothing /\ scopes = {}

\* The verdict of the consumer decides whether the exchange goes on.
Judge(kind, mana, reference, selected, scope) ==
  /\ stage = kind
  /\ heard' = [kind |-> kind, mana |-> mana, reference |-> reference, selected |-> selected]
  /\ stage' = IF mana = "accepted" THEN After(kind) ELSE "refused"
  /\ scopes' = IF mana = "accepted" THEN scopes \cup scope ELSE scopes
  /\ UNCHANGED evaluation

-----------------------------------------------------------------------------
(* Negotiation.  A version is its major and minor; a peer asks for exactly *)
(* the required capabilities, for more, or for fewer.                      *)
(***************************************************************************)
Versions == {<<1, 0>>, <<1, 1>>, <<2, 0>>}
Mutual(asked, offered) == {v \in asked \cap offered : v[1] = 1}
Highest(vs) == CHOOSE v \in vs : \A w \in vs : w[2] <= v[2]
Capabilities == {"exact", "more", "fewer"}

ConsumerNegotiates(asked, offered, caps, selected, form) ==
  Verdict(<< <<form = "range", "PROTOCOL_VERSION_UNSUPPORTED">>,
             <<\E v \in asked \cup offered : v[1] # 1, "PROTOCOL_VERSION_UNSUPPORTED">>,
             <<caps # "exact", "PROTOCOL_CAPABILITY_UNSUPPORTED">>,
             <<form = "optional", "SCHEMA_INVALID">>,
             <<Mutual(asked, offered) = {}, "PROTOCOL_VERSION_UNSUPPORTED">>,
             <<Mutual(asked, offered) # {} /\ selected # Highest(Mutual(asked, offered)),
               "PROTOCOL_VERSION_UNSUPPORTED">> >>)

\* the reference selects: its answer is a version or the code of its refusal
ReferenceNegotiates(asked, offered, caps, form) ==
  LET v == Verdict(<< <<form = "range", "PROTOCOL_VERSION_UNSUPPORTED">>,
                      <<Mutual(asked, offered) = {}, "PROTOCOL_VERSION_UNSUPPORTED">>,
                      <<caps = "fewer", "PROTOCOL_CAPABILITY_UNSUPPORTED">> >>)
  IN [verdict |-> v, version |-> IF v = "accepted" THEN Highest(Mutual(asked, offered)) ELSE "none"]

Negotiate ==
  \E asked \in SUBSET Versions \ {{}}, offered \in SUBSET Versions \ {{}}, caps \in Capabilities,
     selected \in Versions, form \in {"good", "range", "optional"} :
    LET r == ReferenceNegotiates(asked, offered, caps, form)
    IN Judge("negotiation", ConsumerNegotiates(asked, offered, caps, selected, form), r.verdict,
             IF r.verdict = "accepted" /\ r.version # selected THEN "other" ELSE "same", {})

-----------------------------------------------------------------------------
\* The tenant context: at most two flaws, any window.
Context ==
  \E flaws \in {f \in SUBSET EnvelopeFlaws : Cardinality(f) <= 2}, issued \in WireClock, life \in 0..MaxTtl + 1 :
    LET e == [flaws |-> flaws, issued |-> issued, expires |-> issued + life]
    IN Judge("context", ConsumerEnvelope(e, evaluation, TRUE), ReferenceEnvelope(e, evaluation, TRUE),
             "same", {"own"})

-----------------------------------------------------------------------------
(* The lease: a request for a time to live and its answer.  A binding is   *)
(* the one of the context, that of another, or malformed.                  *)
(***************************************************************************)
Bindings == {"own", "other", "form", "revision"}

BindingChecks(b) ==
  << <<b = "form", "SCHEMA_INVALID">>, <<b = "revision", "REVISION_INVALID">> >>

ConsumerLease(q, r, now) ==
  Verdict(<< <<r.form = "extra", "CREDENTIAL_LEASE_INVALID">>,
             <<r.form = "uses", "CREDENTIAL_LEASE_INVALID">>,
             <<q.ttl \notin 1..MaxLease, "CREDENTIAL_LEASE_TTL_INVALID">> >>
          \o BindingChecks(q.binding) \o BindingChecks(r.binding)
          \o << <<r.form = "token", "SCHEMA_INVALID">>,
                <<q.binding # r.binding \/ r.contract # q.binding, "CREDENTIAL_LEASE_BINDING_MISMATCH">> >>
          \o WindowChecks(r, MaxLease, now)
          \o << <<r.expires > r.issued + q.ttl, "CREDENTIAL_LEASE_TTL_INVALID">> >>)

ReferenceLease(q, r, now) ==
  Verdict(<< <<q.ttl \notin 1..MaxLease, "CREDENTIAL_LEASE_TTL_INVALID">>,
             <<r.form = "uses", "CREDENTIAL_LEASE_INVALID">>,
             <<q.binding = "revision", "REVISION_INVALID">>,
             <<q.binding # r.binding \/ r.contract # q.binding, "CREDENTIAL_LEASE_BINDING_MISMATCH">> >>
          \o WindowChecks(r, MaxLease, now)
          \o << <<r.expires > r.issued + q.ttl, "CREDENTIAL_LEASE_TTL_INVALID">> >>)

Lease ==
  \E ttl \in 0..MaxLease + 1, asked \in Bindings, bound \in Bindings, contract \in {"own", "other"},
     form \in {"good", "extra", "uses", "token"}, issued \in WireClock, life \in 0..MaxLease + 1 :
    LET q == [ttl |-> ttl, binding |-> asked]
        r == [binding |-> bound, contract |-> contract, form |-> form, issued |-> issued,
              expires |-> issued + life]
    IN Judge("lease", ConsumerLease(q, r, evaluation), ReferenceLease(q, r, evaluation), "same", {asked})

-----------------------------------------------------------------------------
(* Quota, usage and receipt.  A number is null, negative, zero, positive   *)
(* or infinite, which JSON.parse reads a large literal as.                 *)
(***************************************************************************)
Numbers == {"null", "negative", "zero", "positive", "infinite"}
Counted == {"zero", "positive"}           \* typeof number, finite, not negative

ConsumerQuota(m) ==
  Verdict(<< <<m.form = "id", "SCHEMA_INVALID">>, <<m.form = "revision", "REVISION_INVALID">>,
             <<m.decision = "unknown", "QUOTA_DECISION_INVALID">>,
             <<m.decision = "unavailable" /\ m.values # {"null"}, "QUOTA_UNAVAILABLE_VALUE_INVALID">>,
             <<m.decision # "unavailable" /\ ~(m.values \subseteq Counted), "QUOTA_VALUE_INVALID">> >>)
ReferenceQuota(m) ==
  Verdict(<< <<m.form = "revision", "REVISION_INVALID">>,
             <<m.decision = "unknown", "QUOTA_DECISION_INVALID">>,
             <<m.decision = "unavailable" /\ m.values # {"null"}, "QUOTA_UNAVAILABLE_VALUE_INVALID">>,
             <<m.decision # "unavailable" /\ m.values \cap {"null", "negative"} # {}, "QUOTA_VALUE_INVALID">> >>)
Quota ==
  \E decision \in {"allowed", "unavailable", "unknown"}, values \in SUBSET Numbers \ {{}},
     form \in {"good", "id", "revision"}, scope \in {"own", "other"} :
    LET m == [decision |-> decision, values |-> values, form |-> form]
    IN Judge("quota", ConsumerQuota(m), ReferenceQuota(m), "same", {scope})

\* mutant: a collected zero needs no reason
ConsumerCollectionAnyZero(m) ==
  << <<m.collected = "unknown", "COLLECTION_STATE_INVALID">>,
     <<m.form = "outcome", "OUTCOME_INVALID">>,
     <<m.collected = "not_collected" /\ m.quantity # "null", "USAGE_NOT_COLLECTED_HAS_QUANTITY">>,
     <<m.collected = "partial" /\ ~m.unknown, "USAGE_PARTIAL_UNKNOWN_FIELDS_REQUIRED">>,
     <<m.collected = "collected" /\ m.quantity \notin Counted, "USAGE_COLLECTED_QUANTITY_REQUIRED">>,
     <<m.collected = "collected" /\ m.unknown, "USAGE_COLLECTED_UNKNOWN_FIELDS_FORBIDDEN">>,
     <<m.quantity # "null" /\ m.quantity \notin Counted, "USAGE_COLLECTED_QUANTITY_REQUIRED">> >>
\* what was collected, and what is said of what was not
ConsumerCollection(m) ==
  << <<m.collected = "unknown", "COLLECTION_STATE_INVALID">>,
     <<m.form = "outcome", "OUTCOME_INVALID">>,
     <<m.collected = "not_collected" /\ m.quantity # "null", "USAGE_NOT_COLLECTED_HAS_QUANTITY">>,
     <<m.collected = "partial" /\ ~m.unknown, "USAGE_PARTIAL_UNKNOWN_FIELDS_REQUIRED">>,
     <<m.collected = "collected" /\ m.quantity \notin Counted, "USAGE_COLLECTED_QUANTITY_REQUIRED">>,
     <<m.collected = "collected" /\ m.unknown, "USAGE_COLLECTED_UNKNOWN_FIELDS_FORBIDDEN">>,
     <<m.collected = "collected" /\ m.quantity = "zero" /\ ~m.noData, "USAGE_ZERO_REQUIRES_NO_DATA">>,
     <<m.quantity # "null" /\ m.quantity \notin Counted, "USAGE_COLLECTED_QUANTITY_REQUIRED">> >>
ConsumerUsage(m) ==
  Verdict(<< <<m.form = "extra", "SCHEMA_INVALID">>, <<m.form = "revision", "REVISION_INVALID">>,
             <<m.form = "key", "IDEMPOTENCY_KEY_INVALID">> >> \o ConsumerCollection(m))
ReferenceUsage(m) ==
  Verdict(<< <<m.form = "extra", "SCHEMA_INVALID">>, <<m.form = "revision", "REVISION_INVALID">>,
             <<m.collected = "unknown", "COLLECTION_STATE_INVALID">>,
             <<m.form = "outcome", "OUTCOME_INVALID">>,
             <<m.collected = "not_collected" /\ m.quantity # "null", "USAGE_NOT_COLLECTED_HAS_QUANTITY">>,
             <<m.collected = "partial" /\ ~m.unknown, "USAGE_PARTIAL_UNKNOWN_FIELDS_REQUIRED">>,
             <<m.collected = "collected" /\ m.quantity \in {"null", "negative"},
               "USAGE_COLLECTED_QUANTITY_REQUIRED">>,
             <<m.collected = "collected" /\ m.unknown, "USAGE_COLLECTED_UNKNOWN_FIELDS_FORBIDDEN">>,
             <<m.collected = "collected" /\ m.quantity = "zero" /\ ~m.noData, "USAGE_ZERO_REQUIRES_NO_DATA">> >>)
Usage ==
  \E collected \in {"collected", "partial", "not_collected", "unknown"}, quantity \in Numbers,
     unknown \in BOOLEAN, noData \in BOOLEAN, form \in {"good", "extra", "revision", "key", "outcome"},
     scope \in {"own", "other"} :
    LET m == [collected |-> collected, quantity |-> quantity, unknown |-> unknown, noData |-> noData,
              form |-> form]
    IN Judge("usage", ConsumerUsage(m), ReferenceUsage(m), "same", {scope})

\* the receipt proves at most one reply, none of them by the legacy path
ConsumerReceipt(m) ==
  Verdict(<< <<m.form = "extra", "SCHEMA_INVALID">>, <<m.form = "revision", "REVISION_INVALID">>,
             <<m.form = "key", "IDEMPOTENCY_KEY_INVALID">>, <<m.form = "quota", "QUOTA_DECISION_INVALID">>,
             <<m.form = "collection", "COLLECTION_STATE_INVALID">>, <<m.form = "outcome", "OUTCOME_INVALID">>,
             <<m.replies > 1 \/ m.legacy # 0 \/ m.form = "reply", "REPLY_OWNERSHIP_INVALID">> >>)
ReferenceReceipt(m) ==
  Verdict(<< <<m.form = "extra", "SCHEMA_INVALID">>, <<m.form = "revision", "REVISION_INVALID">>,
             <<m.form = "collection", "COLLECTION_STATE_INVALID">>, <<m.form = "outcome", "OUTCOME_INVALID">>,
             <<m.replies > 1 \/ m.legacy # 0, "REPLY_OWNERSHIP_INVALID">> >>)
Receipt ==
  \E form \in {"good", "extra", "revision", "key", "quota", "collection", "outcome", "reply"},
     replies \in 0..2, legacy \in 0..1, scope \in {"own", "other"} :
    LET m == [form |-> form, replies |-> replies, legacy |-> legacy]
    IN Judge("receipt", ConsumerReceipt(m), ReferenceReceipt(m), "same", {scope})

-----------------------------------------------------------------------------
\* The claim: its owner by its scope, and the key derived from it.
ConsumerClaim(m) ==
  Verdict(<< <<"extra" \in m, "SCHEMA_INVALID">>, <<"owner" \in m, "IDEMPOTENCY_OWNER_INVALID">>,
             <<"form" \in m, "SCHEMA_INVALID">>, <<"key" \in m, "IDEMPOTENCY_KEY_INVALID">> >>)
ReferenceClaim(m) ==
  Verdict(<< <<"extra" \in m, "SCHEMA_INVALID">>, <<"owner" \in m, "IDEMPOTENCY_OWNER_INVALID">>,
             <<"key" \in m, "IDEMPOTENCY_KEY_INVALID">> >>)
Claimed ==
  \E m \in SUBSET {"extra", "owner", "form", "key"} :
    Judge("claim", ConsumerClaim(m), ReferenceClaim(m), "same", {})

\* Only at the end are the messages compared with the context they came with.
Compare ==
  /\ stage = "scope"
  /\ stage' = IF scopes \subseteq {"own"} THEN "accepted" ELSE "refused"
  /\ heard' = Nothing
  /\ UNCHANGED <<evaluation, scopes>>

Exchange == Negotiate \/ Context \/ Lease \/ Quota \/ Usage \/ Receipt \/ Claimed \/ Compare
Settled == stage \in {"accepted", "refused"} /\ UNCHANGED wireVars
Next == Exchange \/ Settled
Spec == Init /\ [][Next]_wireVars
-----------------------------------------------------------------------------
(***************************************************************************)
(* Two implementations of one contract: what the consumer accepts the      *)
(* reference accepts, on the same version.  A test runs the fixtures of    *)
(* the contract; this runs the messages with every flaw, and the context   *)
(* with every two.                                                         *)
(***************************************************************************)
ConsumerIsWithinReference ==
  heard.mana = "accepted" => heard.reference = "accepted" /\ heard.selected \in {"same", "none"}

(***************************************************************************)
(* An exchange accepted in full is of one tenant, whichever of its         *)
(* messages named another.                                                 *)
(***************************************************************************)
AcceptedIsOwn == stage = "accepted" => scopes = {"own"}
=============================================================================
