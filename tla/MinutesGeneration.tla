------------------------- MODULE MinutesGeneration -------------------------
(***************************************************************************)
(* The generation of minutes in a container, as the pipeline and its probe *)
(* run it, and the choice of a destination by the same means: the context  *)
(* receipt is resolved from Brainbase, the prompt written, Claude run, its *)
(* stream of events read for the minutes, the container destroyed, and the *)
(* minutes bound to the receipt.  A text of the stream is known by what    *)
(* its parser makes of it; one Claude session is "own", another "other".   *)
(***************************************************************************)
EXTENDS Naturals, FiniteSets, Sequences, SequencesExt

CONSTANTS
  MaxEvents, \* events of a stream, the last of them a result
  MaxOdd     \* of them, those that are not what a good run says

VARIABLES
  purpose,   \* what is asked, and for minutes the context mode
  step,      \* where the worker is
  tries,     \* requests of the context
  receipt,   \* the context receipt that was accepted
  stream,    \* the events Claude wrote
  process,   \* Claude
  sandbox,   \* its container
  report,      \* the diagnostics of the run
  minutes    \* what the worker has of the answer

vars == <<purpose, step, tries, receipt, stream, process, sandbox, report, minutes>>
-----------------------------------------------------------------------------
(* What Claude writes *)

Sessions == {"own", "other", "none"}
\* What the parser of one text finds: minutes, the example of the prompt, minutes
\* with a field that is invalid, or no minutes.
Texts == {"minutes", "placeholder", "field", "prose"}
Happens(kind, by, texts) == [kind |-> kind, by |-> by, texts |-> texts]

\* The result holds a structured output and a text, each may be absent.
Results ==
  {Happens("result", s, <<t, "absent">>) : s \in Sessions, t \in Texts}
  \cup {Happens("result", "own", <<t, u>>) : t \in {"absent", "field", "prose"}, u \in Texts}
\* A result or an assistant message that reports an error, told in detail or not.
Specific == {"RATE_LIMITED", "PROVIDER_STATUS"}
Faults == {Happens("fault", "own", <<k, c>>) : k \in {"result", "assistant"}, c \in Specific \cup {"UNKNOWN"}}
Plain ==
  {Happens("assistant", "own", <<"prose">>), Happens("call", "own", <<"exact">>),
   Happens("returned", "own", <<"receipt">>), Happens("hook", "own", <<"audited">>),
   Happens("result", "own", <<"minutes", "absent">>), Happens("result", "own", <<"prose", "absent">>)}
Odd ==
  ({Happens("assistant", s, <<t>>) : s \in Sessions, t \in Texts}
   \cup {Happens("call", s, <<t>>) : s \in Sessions, t \in {"exact", "wrong", "elsewhere"}}
   \cup {Happens("returned", s, <<t>>) : s \in Sessions, t \in {"receipt", "mismatch"}}
   \cup {Happens("hook", s, <<t>>) : s \in {"other", "none"}, t \in {"audited"}}
   \cup {Happens("hook", "own", <<"failed">>)}
   \cup Results \cup Faults) \ Plain
OddIn(s) == Cardinality({i \in DOMAIN s : s[i] \notin Plain})

IsResult(e) == e.kind = "result" \/ (e.kind = "fault" /\ e.texts[1] = "result")
LastResult(s) == LET rs == {i \in DOMAIN s : IsResult(s[i])} IN IF rs = {} THEN 0 ELSE Max(rs)
-----------------------------------------------------------------------------
(* Reading the stream *)

\* mutant: an assistant message of another session is read too
TriedOfAnySession(s, r) ==
  LET by(t) == [text |-> t, by |-> s[r].by]
      sameSession(e) == TRUE
      said == SelectSeq(Reverse(SubSeq(s, 1, r - 1)), LAMBDA e : e.kind = "assistant" /\ sameSession(e))
  IN  [i \in 1..2 |-> by(s[r].texts[i])] \o [i \in DOMAIN said |-> [text |-> said[i].texts[1], by |-> said[i].by]]
\* The texts tried for the minutes: those of the last result, then those the
\* assistant said before it, the latest first, unless in another session.
Tried(s, r) ==
  LET by(t) == [text |-> t, by |-> s[r].by]
      sameSession(e) == e.by = s[r].by \/ "none" \in {e.by, s[r].by}
      said == SelectSeq(Reverse(SubSeq(s, 1, r - 1)), LAMBDA e : e.kind = "assistant" /\ sameSession(e))
  IN  [i \in 1..2 |-> by(s[r].texts[i])] \o [i \in DOMAIN said |-> [text |-> said[i].texts[1], by |-> said[i].by]]

\* The first text with minutes is the answer, unless an example of the prompt is
\* met before; else a field of the structured output is blamed.
Found(s) ==
  LET r == LastResult(s)
      decisive == SelectSeq(Tried(s, r), LAMBDA c : c.text \in {"minutes", "placeholder"})
      answer(code, by) == [code |-> code, at |-> r, by |-> by]
  IN  IF r = 0 THEN answer("result_missing", "none")
      ELSE IF s[r].kind = "fault" THEN answer("result_error", "none")
      ELSE IF decisive # <<>>
             THEN answer(IF Head(decisive).text = "minutes" THEN "ok" ELSE "placeholder_output", Head(decisive).by)
      ELSE answer(IF s[r].texts[1] = "field" THEN "invalid_field" ELSE "schema_invalid", "none")

\* parseReceiptBoundGeneratedMeetingMinutesOutput: the minutes of a result that
\* names its session.
ReceiptBound(s) ==
  LET f == Found(s) IN
  IF f.code = "ok" /\ s[f.at].by = "none" THEN [f EXCEPT !.code = "session_missing"] ELSE f

\* parseAuditedGeneratedMeetingMinutesOutput: one call of the context tool, with
\* the exact input, answered with the receipt and audited by the hook before any
\* other call and before the result, all in one session.
Audited(s) ==
  LET calls == {i \in DOMAIN s : s[i].kind = "call" /\ s[i].texts[1] # "elsewhere"}
      c == Min(calls)
      f == Found(s)
      between == {i \in DOMAIN s : c < i /\ i < f.at}
      answers == {i \in between : s[i].kind = "returned"}
      a == Min(answers)
      audits == {i \in between : /\ s[i].kind = "hook" /\ s[i].texts[1] = "audited"
                                 /\ \A j \in between : j < i => s[j].kind # "call"}
      h == Min(audits)
  IN  IF calls = {} THEN "tool_not_called"
      ELSE IF Cardinality(calls) # 1 \/ s[c].texts[1] # "exact" THEN "tool_input_mismatch"
      ELSE IF f.code # "ok" THEN f.code
      ELSE IF "none" \in {s[c].by, s[f.at].by} THEN "session_missing"
      ELSE IF f.at <= c THEN "session_mismatch"
      ELSE IF answers = {} THEN "tool_result_mismatch"
      ELSE IF s[a].texts[1] # "receipt" THEN "tool_result_mismatch"
      ELSE IF s[a].by = "none" THEN "session_missing"
      ELSE IF audits = {} THEN "not_audited"
      ELSE IF {s[c].by, s[a].by} # {s[f.at].by} \/ s[h].by \notin {"none", s[f.at].by} THEN "session_mismatch"
      ELSE "ok"

\* classifyGenerationStdout: the latest error that says what it is, else the
\* latest error.
StdoutCode(s) ==
  LET faults == SelectSeq(s, LAMBDA e : e.kind = "fault")
      specific == SelectSeq(faults, LAMBDA e : e.texts[2] \in Specific)
  IN  IF specific # <<>> THEN Last(specific).texts[2]
      ELSE IF faults # <<>> THEN Last(faults).texts[2]
      ELSE "none"
-----------------------------------------------------------------------------
(* The worker *)

\* Statuses of a receipt: resolved stands for confirmed_empty too, and partial for
\* unavailable.
Usable == {"resolved"}
Unresolved == [status |-> "none", own |-> FALSE]
NoMinutes == [from |-> "none", session |-> "none", refs |-> {}, receipt |-> FALSE, warned |-> FALSE]
Untold == [outcome |-> "none", code |-> "none", stdout |-> "none", prompt |-> FALSE, exec |-> FALSE]

Init ==
  /\ purpose \in {"required", "observe", "routing"}
  /\ step = IF purpose = "routing" THEN "prepare" ELSE "context"
  /\ tries = 0
  /\ receipt = Unresolved
  /\ stream = <<>>
  /\ process = "none"
  /\ sandbox = "up"
  /\ report = Untold
  /\ minutes = NoMinutes

\* The request of the receipt: a timeout or a network error is tried once more,
\* any other failure is final.
RequestFails ==
  /\ step = "context" /\ tries < 2
  /\ \E retryable \in BOOLEAN :
       /\ tries' = tries + 1
       /\ IF retryable /\ tries' < 2
            THEN UNCHANGED <<step, report>>
            ELSE step' = "ended" /\ report' = [report EXCEPT !.code = "context_request_failed"]
  /\ UNCHANGED <<purpose, receipt, stream, process, sandbox, minutes>>

\* Brainbase answers: a redirect, an error, a receipt of another run or without
\* its parts is refused, and so is one that is not usable where it is required.
Answers ==
  [status : Usable \cup {"partial"}, own : {TRUE}] \cup {[status |-> "resolved", own |-> FALSE], Unresolved}
RequestAnswered ==
  /\ step = "context" /\ tries < 2
  /\ \E answer \in Answers :
       LET code == IF answer = Unresolved THEN "invalid_receipt"
                   ELSE IF ~answer.own THEN "identity_mismatch"
                   ELSE IF purpose = "required" /\ answer.status \notin Usable THEN "context_unusable"
                   ELSE "none"
       IN  IF code = "none"
             THEN /\ receipt' = answer
                  /\ step' = "prepare" /\ tries' = 0
                  /\ UNCHANGED report
             ELSE /\ step' = "ended"
                  /\ report' = [report EXCEPT !.code = code]
                  /\ UNCHANGED <<tries, receipt>>
  /\ UNCHANGED <<purpose, stream, process, sandbox, minutes>>

\* The failure of a generation is told once and the container destroyed next; a
\* destination that cannot be chosen is no failure.
Fails(outcome, code) ==
  /\ report' = IF purpose = "routing" THEN report
             ELSE [report EXCEPT !.outcome = outcome, !.code = code]
  /\ step' = "destroy"

\* The prompt and the MCP configuration are written; a context too large for the
\* prompt, or a file that cannot be written, fails the generation.
PreparePrompt ==
  /\ step = "prepare"
  /\ \/ step' = "start" /\ report' = [report EXCEPT !.prompt = TRUE]
     \/ Fails("transport_failure", "generation_failed")
  /\ UNCHANGED <<purpose, tries, receipt, stream, process, sandbox, minutes>>

\* Claude is started, and its start noted in the run before its end is awaited:
\* when the note fails, the execution is left to itself.
StartClaude ==
  /\ step = "start"
  /\ process' = "running"
  /\ \/ step' = "running" /\ report' = [report EXCEPT !.exec = TRUE]
     \/ /\ purpose # "routing"
        /\ report' = [report EXCEPT !.exec = TRUE, !.outcome = "transport_failure", !.code = "generation_failed"]
        /\ step' = "destroy"
  /\ UNCHANGED <<purpose, tries, receipt, stream, sandbox, minutes>>

\* Claude writes an event; nothing follows a result.
Claude ==
  /\ process = "running" /\ sandbox = "up" /\ purpose # "routing" /\ step = "running"
  /\ Len(stream) < MaxEvents
  /\ LastResult(stream) = 0
  /\ \E e \in IF OddIn(stream) < MaxOdd THEN Plain \cup Odd ELSE Plain :
       /\ stream' = Append(stream, e)
       /\ Len(stream') = MaxEvents => IsResult(e)
  /\ UNCHANGED <<purpose, step, tries, receipt, process, sandbox, report, minutes>>

\* The execution ends: by itself, by its time limit (which an adapter tells, or
\* exit code 124 with the time used), or as an error of the connection, which may
\* be a timeout as well and keeps nothing of the stream.
ClaudeEnds ==
  /\ step = "running"
  /\ \E end \in {"success", "nonzero_exit", "timeout", "lost"} :
       /\ process' = end
       /\ CASE end = "success" -> step' = "exited" /\ UNCHANGED report
            [] end = "lost" -> \E outcome \in {"timeout", "transport_failure"} : Fails(outcome, "generation_failed")
            [] OTHER -> /\ step' = "destroy"
                        /\ report' = IF purpose = "routing" THEN report
                                   ELSE [report EXCEPT !.outcome = end, !.code = "generation_failed",
                                                     !.stdout = StdoutCode(stream)]
       /\ stream' = IF end = "lost" THEN <<>> ELSE stream
  /\ UNCHANGED <<purpose, tries, receipt, sandbox, minutes>>

\* The minutes are read from the stream; a stream that is too large, or of which
\* no line is an event, is not read.  What cannot be read is told as a failure of
\* the transport.
ReadMinutes ==
  /\ step = "exited" /\ purpose # "routing"
  /\ LET f == ReceiptBound(stream) IN
     \/ /\ f.code = "ok"
        /\ \E refs \in SUBSET {"known", "unknown"} :
             minutes' = [NoMinutes EXCEPT !.from = f.by, !.session = stream[f.at].by, !.refs = refs]
        /\ report' = [report EXCEPT !.outcome = "success"]
        /\ step' = "destroy"
     \/ f.code # "ok" /\ Fails("transport_failure", f.code) /\ UNCHANGED minutes
     \/ \E c \in {"stream_too_large"} \cup (IF stream = <<>> THEN {"stream_malformed"} ELSE {}) :
          Fails("transport_failure", c) /\ UNCHANGED minutes
  /\ UNCHANGED <<purpose, tries, receipt, stream, process, sandbox>>

\* The destination: the first answer that names a project of the candidates and
\* gives a reason.
ReadDestination ==
  /\ step = "exited" /\ purpose = "routing"
  /\ \E answers \in [1..2 -> {"candidate", "no_reason", "unsure", "stranger"}] :
       LET named == SelectSeq(answers, LAMBDA a : a = "candidate") IN
       minutes' = [NoMinutes EXCEPT !.from = IF named = <<>> THEN "none" ELSE Head(named)]
  /\ step' = "destroy"
  /\ UNCHANGED <<purpose, tries, receipt, stream, process, sandbox, report>>

\* Whatever happened, the container is destroyed; if that is not proven, the
\* refusal replaces what the generation had to say.
Destroy ==
  /\ step = "destroy"
  /\ process' = IF process = "running" THEN "killed" ELSE process
  /\ \/ /\ sandbox' = "destroyed"
        /\ step' = IF report.outcome = "success" THEN "bind" ELSE "ended"
        /\ UNCHANGED <<report, minutes>>
     \/ /\ sandbox' = "unproven"
        /\ step' = "ended"
        /\ report' = [report EXCEPT !.outcome = "none", !.code = "sanitization_unproven", !.stdout = "none"]
        /\ minutes' = NoMinutes
  /\ stream' = <<>>
  /\ UNCHANGED <<purpose, tries, receipt>>

\* The minutes are bound to the receipt; a source the receipt does not list is
\* refused where the context is required, and struck out where it is observed.
BindContext ==
  /\ step = "bind"
  /\ IF purpose = "required" /\ "unknown" \in minutes.refs
       THEN /\ minutes' = NoMinutes
            /\ report' = [report EXCEPT !.code = "source_ref_unknown"]
       ELSE /\ minutes' = [minutes EXCEPT !.refs = @ \ {"unknown"}, !.receipt = TRUE, !.warned = "unknown" \in minutes.refs]
            /\ UNCHANGED report
  /\ step' = "ended"
  /\ UNCHANGED <<purpose, tries, receipt, stream, process, sandbox>>

Worker == PreparePrompt \/ StartClaude \/ ReadMinutes \/ ReadDestination \/ Destroy \/ BindContext
Brainbase == RequestFails \/ RequestAnswered
Next == Worker \/ Brainbase \/ Claude \/ ClaudeEnds
Spec == Init /\ [][Next]_vars
-----------------------------------------------------------------------------
(* Properties *)

TypeOK ==
  /\ purpose \in {"required", "observe", "routing"}
  /\ step \in {"context", "prepare", "start", "running", "exited", "destroy", "bind", "ended"}
  /\ tries \in 0..2 /\ Len(stream) <= MaxEvents
  /\ process \in {"none", "running", "killed", "success", "nonzero_exit", "timeout", "lost"}
  /\ sandbox \in {"up", "destroyed", "unproven"}

\* Minutes that leave the worker are of the session their attestation names, come
\* from a container that was destroyed, carry a receipt of the run that the mode
\* allows, and cite no source it does not list.
MinutesAreAttested ==
  minutes.receipt =>
    /\ minutes.session # "none" /\ minutes.from \in {minutes.session, "none"}
    /\ sandbox = "destroyed" /\ process = "success" /\ report.outcome = "success"
    /\ receipt.own /\ (purpose = "required" => receipt.status \in Usable)
    /\ minutes.refs \subseteq {"known"} /\ (minutes.warned => purpose = "observe")

\* A stream the audited parser accepts shows, in one session, the call of the
\* tool, its answer with the receipt and the audit, all before a result that the
\* other parser accepts, with no second call of Brainbase.
AuditIsProof ==
  Audited(stream) = "ok" =>
    LET r == LastResult(stream)
        by == stream[r].by
    IN  /\ ReceiptBound(stream).code = "ok"
        /\ \E c, a, h \in 1 .. r - 1 :
             /\ c < a /\ c < h
             /\ stream[c] = Happens("call", by, <<"exact">>)
             /\ stream[a] = Happens("returned", by, <<"receipt">>)
             /\ stream[h] \in {Happens("hook", by, <<"audited">>), Happens("hook", "none", <<"audited">>)}
             /\ \A i \in 1 .. h : stream[i].kind = "call" => i = c \/ (i < c /\ stream[i].texts = <<"elsewhere">>)

\* A run that failed outside its parser is told with the error its stream names
\* in detail, if there is one, whatever vaguer error came after.
DiagnosisIsSpecific ==
  (/\ process \in {"nonzero_exit", "timeout"}
   /\ \E i \in DOMAIN stream : stream[i].kind = "fault" /\ stream[i].texts[2] \in Specific)
  => purpose = "routing" \/ report.stdout \in Specific

\* No generation that wrote a prompt ends with its container, or Claude, at work.
EndedIsDestroyed == step = "ended" /\ report.prompt => sandbox # "up" /\ process # "running"
=============================================================================
