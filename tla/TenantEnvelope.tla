--------------------------- MODULE TenantEnvelope ---------------------------
(***************************************************************************)
(* The signed tenant context and the two programs that verify it: Mana's   *)
(* canonical consumer (canonical-consumer.ts, envelope.ts) and the         *)
(* contract's reference (tenant-context/v1/reference/wire.mjs).  A context *)
(* is the set of its flaws, its validity window and the connection, by     *)
(* revision, it was issued for.  A verifier is the sequence of its checks  *)
(* in the order the code runs them, and its verdict the code of the first  *)
(* that fails.  Time is counted in units of the clock skew.                *)
(***************************************************************************)
LOCAL INSTANCE Naturals
LOCAL INSTANCE Sequences
LOCAL INSTANCE SequencesExt

CONSTANTS MaxTtl, Skew   \* MAX_ENVELOPE_TTL_SECONDS, MAX_CLOCK_SKEW_SECONDS

\* a check is <<what fails, the code it fails with>>
Verdict(checks) ==
  LET i == SelectInSeq(checks, LAMBDA c : c[1]) IN IF i = 0 THEN "accepted" ELSE checks[i][2]

\* What can be wrong with a context: a key outside the list, a protocol
\* constant, a revision that is no decimal, an identifier or a profile of the
\* wrong form, an idempotency key of the wrong form or of another operation, a
\* key outside the list of its integrity, its method, and its detached JWS.
EnvelopeFlaws == {"extra", "constants", "revision", "form", "key_form", "key", "integrity_extra",
                  "method", "jws_shape", "jws_header", "signature"}

\* the window [issued, expires] against the clock of the verifier
WindowChecks(w, ttl, now) ==
  << <<w.expires <= w.issued, "TIME_ORDER_INVALID">>,
     <<w.expires > w.issued + ttl, "TTL_EXCEEDED">>,
     <<w.issued > now + Skew, "NOT_YET_VALID">>,
     <<w.expires + Skew < now, "EXPIRED">> >>

ConsumerShape(e) ==
  << <<"extra" \in e.flaws, "SCHEMA_INVALID">>,
     <<"constants" \in e.flaws, "SCHEMA_INVALID">>,
     <<"revision" \in e.flaws, "REVISION_INVALID">>,
     <<"form" \in e.flaws, "SCHEMA_INVALID">>,
     <<"key_form" \in e.flaws, "IDEMPOTENCY_KEY_INVALID">>,
     <<"integrity_extra" \in e.flaws, "SCHEMA_INVALID">>,
     <<"method" \in e.flaws, "JWS_PROTECTED_HEADER_INVALID">> >>

\* the consumer compares the key it derives with the one that came
KeyChecks(e) == << <<"key" \in e.flaws \/ "key_form" \in e.flaws, "IDEMPOTENCY_KEY_INVALID">> >>

ConsumerSignature(e) ==
  << <<"jws_shape" \in e.flaws, "JWS_MALFORMED">>,
     <<"jws_header" \in e.flaws, "JWS_PROTECTED_HEADER_INVALID">>,
     <<"signature" \in e.flaws, "TENANT_CONTEXT_SIGNATURE_INVALID">> >>

\* the consumer verifies nothing without a key: hasKey is what the resolver found
ConsumerEnvelope(e, now, hasKey) ==
  Verdict(ConsumerShape(e) \o WindowChecks(e, MaxTtl, now) \o KeyChecks(e)
          \o << <<~hasKey, "TENANT_CONTEXT_SIGNATURE_INVALID">> >> \o ConsumerSignature(e))

ReferenceShape(e) ==
  << <<"extra" \in e.flaws \/ "integrity_extra" \in e.flaws, "SCHEMA_INVALID">>,
     <<"revision" \in e.flaws, "REVISION_INVALID">>,
     <<"constants" \in e.flaws, "SCHEMA_INVALID">>,
     <<"method" \in e.flaws, "JWS_PROTECTED_HEADER_INVALID">> >>

ReferenceSignature(e) ==
  << <<"jws_shape" \in e.flaws, "JWS_MALFORMED">>,
     <<"jws_header" \in e.flaws, "JWS_PROTECTED_HEADER_INVALID">>,
     <<"signature" \in e.flaws, "TENANT_CONTEXT_SIGNATURE_INVALID">> >>

\* the reference skips the signature when it is given no key
ReferenceEnvelope(e, now, hasKey) ==
  Verdict(ReferenceShape(e) \o WindowChecks(e, MaxTtl, now) \o KeyChecks(e)
          \o (IF hasKey THEN ReferenceSignature(e) ELSE <<>>))

-----------------------------------------------------------------------------
\* envelope.ts: a boundary verifies the context, then compares it with the
\* connection as it stands and with the scope the boundary expects.  lost is
\* what the expected scope differs in.
ScopeFaults == {"audience", "workspace", "channel", "actor", "project", "project_set", "capability",
                "deployment"}

SnapshotChecks(e, connection) ==
  << <<connection.status # "active", "WORKSPACE_CONNECTION_REVOKED">>,
     <<connection.tenant # e.tenant, "CROSS_TENANT_CANDIDATE">>,
     <<connection.revision # e.connection, "WORKSPACE_CONNECTION_STALE_REVISION">>,
     <<connection.contract # e.contract, "WORKSPACE_CONNECTION_STALE_REVISION">> >>

ScopeChecks(lost) ==
  << <<"audience" \in lost, "AUDIENCE_SCOPE_MISMATCH">>,
     <<"workspace" \in lost, "WORKSPACE_OR_APP_MISMATCH">>,
     <<"channel" \in lost, "DELIVERY_SCOPE_MISMATCH">>,
     <<"actor" \in lost, "ACTOR_SCOPE_MISMATCH">>,
     <<"project" \in lost \/ "project_set" \in lost, "PROJECT_SCOPE_MISMATCH">>,
     <<"capability" \in lost, "CAPABILITY_SCOPE_MISMATCH">>,
     <<"deployment" \in lost, "CROSS_TENANT_CANDIDATE">> >>

TenantBoundary(e, now, hasKey, connection, lost) ==
  IF ~hasKey THEN "TENANT_CONTEXT_SIGNATURE_INVALID"
  ELSE IF ConsumerEnvelope(e, now, hasKey) # "accepted" THEN ConsumerEnvelope(e, now, hasKey)
  ELSE Verdict(SnapshotChecks(e, connection) \o ScopeChecks(lost))
=============================================================================
