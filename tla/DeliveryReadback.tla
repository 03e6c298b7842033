-------------------------- MODULE DeliveryReadback --------------------------
(***************************************************************************)
(* Whether Slack stores a message that was posted                          *)
(* (readSlackDeliveryReadback of multitenancy/slack-delivery-readback.ts). *)
(* It reads the pages of the message's window one request after another,   *)
(* until the expiry of the attempt, and says "confirmed" or a reason why   *)
(* it does not know.  What Slack holds is a sequence of pages; the last    *)
(* one ends the history, or points back to an earlier one, or says there   *)
(* is more without saying where.                                           *)
(***************************************************************************)
EXTENDS Naturals, Sequences, FiniteSets

CONSTANTS MaxPages,     \* the requests of one attempt
          Histories     \* the page sequences Slack may hold

VARIABLES history,      \* [pages, ends]
          asked,        \* "channel", or the message is the "root" or a "reply" of the thread read
          late,         \* the clock is past the expiry of the attempt
          attempt       \* [at, page, seen, tally, matching, wrong, verdict]

vars == <<history, asked, late, attempt>>

\* A message of the history: at the observed timestamp or another, posted by
\* this app and bot or by others, its thread field, and its text.
Message(at, ours, thread, text) == [at |-> at, ours |-> ours, thread |-> thread, text |-> text]

Valid == [at |-> "start", page |-> 1, seen |-> {}, requests |-> 0, tally |-> 0, matching |-> 0,
          wrong |-> FALSE, verdict |-> "none"]
Reasons == {"invalid_input", "expired", "timeout", "rate_limited", "pagination_incomplete", "not_found",
            "ambiguous", "message_mismatch"}
Init ==
  /\ history \in Histories /\ asked \in {"channel", "root", "reply"} /\ late = FALSE
  /\ attempt = Valid
-----------------------------------------------------------------------------
\* A message of the channel names no thread, a root none or its own, a reply its own.
MessageMatches(m) ==
  /\ m.ours
  /\ CASE asked = "channel" -> m.thread = "absent"
       [] asked = "root" -> m.thread \in {"absent", "asked"}
       [] asked = "reply" -> m.thread = "asked"
Exact(m) == m.at /\ MessageMatches(m) /\ m.text = "same"

Ends(verdict) == attempt' = [attempt EXCEPT !.at = "done", !.verdict = verdict]
Unknown(reason) == /\ Ends(reason) /\ UNCHANGED <<history, asked, late>>

InvalidInput == attempt.at = "start" /\ Unknown("invalid_input")
Expired == attempt.at \in {"start", "request", "decide"} /\ late /\ Unknown("expired")
Begin ==
  /\ attempt.at = "start" /\ ~late
  /\ attempt' = [attempt EXCEPT !.at = "request"] /\ UNCHANGED <<history, asked, late>>

TooManyPages == attempt.at = "request" /\ attempt.requests >= MaxPages /\ Unknown("pagination_incomplete")
RequestFails ==
  /\ attempt.at = "request" /\ attempt.requests < MaxPages /\ ~late
  /\ \E reason \in {"timeout", "rate_limited"} : Unknown(reason)

\* The page at hand, its messages counted, and where it points to.
Page == history.pages[attempt.page]
Here == {i \in DOMAIN Page : Page[i].at}
Matching == {i \in DOMAIN Page : Exact(Page[i])}
Last == attempt.page = Len(history.pages)
NextCursor == IF ~Last THEN attempt.page + 1 ELSE IF history.ends = "loop" THEN 1 ELSE 0
ReadPage ==
  /\ attempt.at = "request" /\ attempt.requests < MaxPages /\ ~late
  /\ LET read == [attempt EXCEPT !.requests = @ + 1, !.tally = @ + Cardinality(Here),
                                 !.matching = @ + Cardinality(Matching), !.wrong = @ \/ Here # Matching] IN
     attempt' =
       IF (Last /\ history.ends = "more") \/ (NextCursor # 0 /\ NextCursor \in attempt.seen)
       THEN [read EXCEPT !.at = "done", !.verdict = "pagination_incomplete"]
       ELSE IF NextCursor = 0 THEN [read EXCEPT !.at = "decide"]
       ELSE [read EXCEPT !.page = NextCursor, !.seen = @ \cup {NextCursor}]
  /\ UNCHANGED <<history, asked, late>>

\* One message at the timestamp, and it is the exact one.
DecideAny == IF attempt.matching >= 1 THEN "confirmed"
             ELSE IF attempt.tally > 0 /\ attempt.wrong THEN "message_mismatch" ELSE "not_found"
Decide == IF attempt.tally > 1 \/ attempt.matching > 1 THEN "ambiguous"
          ELSE IF attempt.matching = 1 THEN "confirmed"
          ELSE IF attempt.tally > 0 /\ attempt.wrong THEN "message_mismatch" ELSE "not_found"
Decides ==
  /\ attempt.at = "decide" /\ ~late
  /\ Unknown(Decide)

Expires ==
  /\ ~late /\ attempt.at # "done" /\ late' = TRUE
  /\ UNCHANGED <<history, asked, attempt>>

Reading == InvalidInput \/ Expired \/ Begin \/ TooManyPages \/ RequestFails \/ ReadPage \/ Decides
Next == Reading \/ Expires
Spec == Init /\ [][Next]_vars
-----------------------------------------------------------------------------
TypeOK ==
  /\ attempt.at \in {"start", "request", "decide", "done"} /\ late \in BOOLEAN
  /\ attempt.requests \in 0 .. MaxPages
  /\ attempt.verdict \in Reasons \cup {"none", "confirmed"}

\* A confirmed message is in Slack's history exactly once, whatever page it is
\* on, as it was posted and where, and nothing else is at its timestamp; and the
\* whole history was read before the expiry.
At(h) == {<<p, i>> \in (DOMAIN h.pages) \X (1 .. 2) : i \in DOMAIN h.pages[p] /\ h.pages[p][i].at}
ConfirmedIsThere ==
  attempt.verdict = "confirmed" =>
    /\ history.ends = "whole" /\ ~late
    /\ \E x \in At(history) : At(history) = {x} /\ Exact(history.pages[x[1]][x[2]])
\* And a reading that was not disturbed finds it.
MissingIsMissing ==
  attempt.verdict \in {"not_found", "message_mismatch"} => ~\E x \in At(history) : Exact(history.pages[x[1]][x[2]])
=============================================================================
