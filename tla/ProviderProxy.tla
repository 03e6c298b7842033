--------------------------- MODULE ProviderProxy ---------------------------
(***************************************************************************)
(* The runner of Claude in a tenant container: a loopback proxy that       *)
(* passes Claude's requests to the provider and is closed when Claude      *)
(* ends, and the bounded trace of a traced run, as the runner writes it    *)
(* and the Worker reads it.                                                *)
(***************************************************************************)
EXTENDS Naturals, FiniteSets, Sequences, SequencesExt

CONSTANTS
  Requests,  \* requests of Claude
  MaxTrace,  \* events a trace keeps
  MaxNoise   \* events of standard output, of progress and foreign lines

VARIABLES
  request,   \* each request: its handler, its abort signal, its client, the provider's body
  child,     \* Claude: running, then ended
  server,     \* the proxy: open, closing, closed
  counted,   \* requests the runner counted
  written,   \* lifecycle events the runner wrote
  trace,     \* the events the Worker has kept of those it read
  noise      \* events of MaxNoise

vars == <<request, child, server, counted, written, trace, noise>>
-----------------------------------------------------------------------------
(* The trace *)

\* An event by how soon it is evicted: progress, standard output, lifecycle; a
\* line with the prefix of the trace that is no event is kept like lifecycle.
Progress == 0
Stdout == 1
Lifecycle == 2
Foreign == 3
\* The first event of the lowest priority there is gives way; with lifecycle
\* events alone, the oldest.
Trim(t) ==
  LET low == {i \in DOMAIN t : t[i].priority = Progress}
      out == {i \in DOMAIN t : t[i].priority = Stdout}
  IN  IF Len(t) <= MaxTrace THEN t
      ELSE IF low # {} THEN RemoveAt(t, Min(low))
      ELSE IF out # {} THEN RemoveAt(t, Min(out))
      ELSE Tail(t)
Write(t, priority, n) == Trim(Append(t, [priority |-> priority, count |-> n]))
\* The requests the Worker tells: the most any event it kept and understands names.
RequestCount(t) == Max({0} \cup {t[i].count : i \in {j \in DOMAIN t : t[j].priority # Foreign}})
-----------------------------------------------------------------------------
(* The proxy *)

New == [handler |-> "none", aborted |-> FALSE, client |-> "open", fetch |-> "none", body |-> "none", answer |-> "none"]
Active(r) == request[r].handler \in {"reading", "fetching", "streaming"}

Init ==
  /\ request = [r \in Requests |-> New]
  /\ child = "running"
  /\ server = "open"
  /\ counted = 0
  /\ written = 0
  /\ trace = <<>>
  /\ noise = 0

Logs(priority) == trace' = Write(trace, priority, IF priority = Foreign THEN 0 ELSE counted) /\ UNCHANGED written
LogsLifecycle(events) ==
  /\ trace' = FoldLeft(LAMBDA t, i : Write(t, Lifecycle, counted'), trace, [i \in 1 .. events |-> i])
  /\ written' = written + events
Quiet == UNCHANGED <<counted, written, trace, noise>>

Arrive(r) ==
  /\ child = "running" /\ server = "open" /\ request[r] = New
  /\ request' = [request EXCEPT ![r].handler = "reading"]
  /\ UNCHANGED <<child, server>> /\ Quiet

\* The body is read and the request forwarded with the signal; the traced fetch
\* counts it.
Forward(r) ==
  /\ request[r].handler = "reading" /\ ~request[r].aborted
  /\ request' = [request EXCEPT ![r].handler = "fetching", ![r].fetch = "pending"]
  /\ counted' = counted + 1
  /\ LogsLifecycle(1)
  /\ UNCHANGED <<child, server, noise>>

\* The provider answers: an answer that comes after the abort is cancelled, which
\* is traced as its failure.
ProviderAnswers(r) ==
  /\ request[r].fetch = "pending"
  /\ request' = [request EXCEPT ![r].fetch = "answered",
                   ![r].body = IF request[r].aborted THEN "cancelled" ELSE "live",
                   ![r].handler = IF request[r].aborted THEN @ ELSE "streaming"]
  /\ UNCHANGED <<child, server, counted, noise>>
  /\ LogsLifecycle(IF request[r].aborted THEN 2 ELSE 1)

\* The fetch fails by itself, or its signal ends it.
ProviderFails(r) ==
  /\ request[r].fetch = "pending"
  /\ request' = [request EXCEPT ![r].fetch = "failed"]
  /\ UNCHANGED <<child, server, counted, noise>>
  /\ LogsLifecycle(1)

\* The body is passed on to its end, or breaks before.
BodyEnds(r) ==
  /\ request[r].handler = "streaming" /\ request[r].body = "live"
  /\ \/ request' = [request EXCEPT ![r].body = "ended", ![r].handler = "done", ![r].answer = "sent"]
     \/ request' = [request EXCEPT ![r].body = "broken"]
  /\ UNCHANGED <<child, server, counted, noise>>
  /\ LogsLifecycle(1)

\* abortRequest: the signal is set and the body, if there is one, cancelled.
Abort(q) == [q EXCEPT !.aborted = TRUE, !.body = IF @ = "live" THEN "cancelled" ELSE @]

\* Claude drops the request: the body was not complete, or the answer not.
ClientLeaves(r) ==
  /\ Active(r) /\ request[r].client = "open" /\ server = "open"
  /\ request' = [request EXCEPT ![r] = [Abort(request[r]) EXCEPT !.client = "gone"]]
  /\ UNCHANGED <<child, server, counted, noise>>
  /\ LogsLifecycle(IF request[r].body = "live" THEN 1 ELSE 0)

\* The handler leaves its try block after an abort or a failure: nothing can be
\* said to a client that is gone or to any once the proxy closes; before the
\* headers the failure is told with 502, after them the connection is cut.
Leaves(r) == request[r].aborted \/ request[r].fetch = "failed" \/ request[r].body = "broken"
Unwind(r) ==
  /\ Active(r) /\ Leaves(r)
  /\ request' = [request EXCEPT ![r].handler = "done",
                   ![r].answer = IF request[r].aborted \/ server # "open" \/ request[r].client = "gone" THEN "cut"
                                 ELSE IF request[r].handler = "streaming" THEN "cut"
                                 ELSE "502"]
  /\ UNCHANGED <<child, server>> /\ Quiet

\* Claude ends, or never started; main closes the proxy whatever its end was.
ChildEnds ==
  /\ child = "running"
  /\ child' = "ended"
  /\ UNCHANGED <<request, server, counted, noise>>
  /\ LogsLifecycle(2)

\* close: no connection is accepted any more, every active request is aborted
\* and its connections destroyed.
Close ==
  /\ child = "ended" /\ server = "open"
  /\ server' = "closing"
  /\ request' = [r \in Requests |-> IF Active(r) THEN [Abort(request[r]) EXCEPT !.client = "gone"] ELSE request[r]]
  /\ UNCHANGED <<child, counted, noise>>
  /\ LogsLifecycle(1 + Cardinality({r \in Requests : request[r].body = "live"}))

\* The server has no connection left: what close promised.
Closed ==
  /\ server = "closing"
  /\ server' = "closed"
  /\ UNCHANGED <<request, child, counted, noise>>
  /\ LogsLifecycle(1)

\* Progress of a body, a line of standard output, a line of the standard error
\* of Claude that looks like a trace.
Noise ==
  /\ noise < MaxNoise
  /\ child = "running"
  /\ noise' = noise + 1
  /\ \/ (\E r \in Requests : request[r].body = "live") /\ Logs(Progress)
     \/ Logs(Stdout)
     \/ Logs(Foreign)
  /\ UNCHANGED <<request, child, server, counted>>

Runner == Close \/ Closed \/ \E r \in Requests : Unwind(r)
Next ==
  \/ \E r \in Requests :
       Arrive(r) \/ Forward(r) \/ ProviderAnswers(r) \/ ProviderFails(r) \/ BodyEnds(r) \/ ClientLeaves(r)
  \/ Runner \/ ChildEnds \/ Noise
Spec == Init /\ [][Next]_vars
-----------------------------------------------------------------------------
(* Properties *)

TypeOK ==
  /\ \A r \in Requests :
       /\ request[r].handler \in {"none", "reading", "fetching", "streaming", "done"}
       /\ request[r].fetch \in {"none", "pending", "answered", "failed"}
       /\ request[r].body \in {"none", "live", "cancelled", "ended", "broken"}
       /\ request[r].answer \in {"none", "sent", "502", "cut"}
  /\ child \in {"running", "ended"} /\ server \in {"open", "closing", "closed"}
  /\ counted \in 0 .. Cardinality(Requests) /\ Len(trace) <= MaxTrace

\* A closed proxy holds nothing of the provider: no body is open, and an answer
\* that comes later opens none; and no answer is told to a client that left.
ClosedIsQuiet ==
  /\ server # "open" => \A r \in Requests : request[r].body # "live"
  /\ \A r \in Requests :
       /\ request[r].handler = "done" => request[r].body # "live"
       /\ request[r].client = "gone" => request[r].answer \in {"none", "cut"}

\* Standard output never costs the trace a lifecycle event while it holds any
\* less worth keeping, and the requests are counted whatever was evicted.
TraceKeepsLifecycle ==
  LET held(p) == Cardinality({i \in DOMAIN trace : trace[i].priority \in p}) IN
  /\ held({Progress, Stdout, Foreign}) = 0 \/ held({Lifecycle}) = written \/ held({Progress, Stdout}) = 0
  /\ counted > 0 /\ held({Foreign}) = 0 => RequestCount(trace) = counted
=============================================================================
