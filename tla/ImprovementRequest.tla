------------------------- MODULE ImprovementRequest -------------------------
(***************************************************************************)
(* How somebody asks Mana for an improvement: a slash command opens a form *)
(* (slack-command.ts), the form is submitted (mana-improvement-slack.ts),  *)
(* and behind Slack's answer the request is announced in the channel and   *)
(* queued as a development job (index.ts).  Between the command and the    *)
(* submission the form rests at Slack, while the placements are deployed   *)
(* anew and the authority's grant may go.                                  *)
(*                                                                         *)
(* The answer of a submission may not reach Slack, which leaves the form   *)
(* open; a second submission has another body, hence another event.  What  *)
(* the job does then is DevelopmentTerminal's.  The queue fallback of the  *)
(* command is not reached: the Worker always passes openModal.             *)
(***************************************************************************)
EXTENDS Naturals, FiniteSets

CONSTANTS
  Forms,        \* commands typed; each opens one form at most
  Submissions,  \* submissions of the forms, numbered as they come
  Askers,       \* who asks where: a user in a channel
  Allowed,      \* deployment -> the askers its development placements allow
  MaxSlips      \* bound: calls that fail, answers that are lost, grants that go

VARIABLES
  deployed,     \* the deployment that answers now
  granted,      \* the authority issues a context
  form,         \* Forms -> the form and its private metadata
  submission,   \* Submissions -> the work behind the answer
  announced,    \* Mana's messages, each the root of a thread
  jobs,         \* what the queue was given
  slips

improvementVars == <<deployed, granted, form, submission, announced, jobs, slips>>

Effects  == {"isolated_change", "investigate_only"}     \* what the form offers
Required == {"problem", "outcome"}                      \* the fields that may not be blank
Ranges   == Effects \cup {"draft_pr"}                   \* what a request may carry
NoForm   == [state |-> "none", asker |-> 0]
NoThread == 0
NoWork   == [pc |-> "none", form |-> 0, asker |-> 0, blanks |-> {}, chosen |-> "isolated_change",
             effect |-> "isolated_change", under |-> 0, thread |-> NoThread, named |-> "none"]

Init ==
  /\ deployed = 1 /\ granted = TRUE
  /\ form = [f \in Forms |-> NoForm]
  /\ submission = [s \in Submissions |-> NoWork]
  /\ announced = {} /\ jobs = {} /\ slips = 0

Slip == slips < MaxSlips /\ slips' = slips + 1

-----------------------------------------------------------------------------
(* The command: who may is answered at once, the form opens behind it.     *)

\* mutant: whoever could open the form may submit it
MayAtFirst(asker) == asker \in Allowed[1]
May(asker) == asker \in Allowed[deployed]
Command(f, asker) ==
  /\ form[f].state = "none"
  /\ form' = [form EXCEPT ![f] = [state |-> IF May(asker) THEN "opening" ELSE "refused", asker |-> asker]]
  /\ UNCHANGED <<deployed, granted, submission, announced, jobs, slips>>

\* the form carries who asked where; nothing tells the asker that it did not open
Open(f) ==
  /\ form[f].state = "opening"
  /\ \/ granted /\ form' = [form EXCEPT ![f].state = "open"] /\ UNCHANGED slips
     \/ ~granted /\ form' = [form EXCEPT ![f].state = "lost"] /\ UNCHANGED slips
     \/ Slip /\ form' = [form EXCEPT ![f].state = "lost"]
  /\ UNCHANGED <<deployed, granted, submission, announced, jobs>>

-----------------------------------------------------------------------------
(* The submission: the form's scope, the placement of this deployment, the *)
(* required fields; then the request is taken and Slack answered.          *)

IsNext(s) == submission[s].pc = "none" /\ \A r \in Submissions : r < s => submission[r].pc # "none"

\* mutant: the range the form chose is not looked at
EffectDefault(chosen) == "isolated_change"
Effect(chosen) == IF chosen \in {"investigate_only", "draft_pr"} THEN chosen ELSE "isolated_change"

\* mutant: the first field of the form is always blamed
FirstField(blanks) == "problem"
NamedField(blanks) == IF "problem" \in blanks THEN "problem" ELSE "outcome"

Answer(f, asker, blanks) ==
  CASE form[f].asker # asker  -> "scope_invalid"
    [] ~May(form[f].asker)    -> "forbidden"
    [] blanks # {}            -> "errors"
    [] OTHER                  -> "taken"

Submit(s, f, asker, blanks, chosen) ==
  /\ IsNext(s) /\ form[f].state = "open"
  /\ LET answer == Answer(f, asker, blanks) IN
     /\ submission' = [submission EXCEPT ![s] =
          [NoWork EXCEPT !.pc = IF answer = "taken" THEN "resolve" ELSE answer, !.form = f, !.asker = asker,
                         !.blanks = blanks, !.chosen = chosen, !.effect = Effect(chosen), !.under = deployed,
                         !.named = IF answer = "errors" THEN NamedField(blanks) ELSE "none"]]
     /\ \/ form' = [form EXCEPT ![f].state = IF answer = "taken" THEN "closed" ELSE @] /\ UNCHANGED slips
        \/ answer = "taken" /\ Slip /\ UNCHANGED form      \* the answer is lost: Slack leaves the form open
  /\ UNCHANGED <<deployed, granted, announced, jobs>>

-----------------------------------------------------------------------------
(* The work behind the answer.  Only the log hears of what fails in it.    *)

At(s, pc) == submission[s].pc = pc
Goes(s, pc) == submission' = [submission EXCEPT ![s].pc = pc]
\* a context for the submission, then one for the thread of the announcement
Resolve(s) ==
  /\ At(s, "resolve") \/ At(s, "rethread")
  /\ Goes(s, IF ~granted THEN "dropped" ELSE IF At(s, "resolve") THEN "announce" ELSE "send")
  /\ UNCHANGED <<deployed, granted, form, announced, jobs, slips>>

Announcement(s) == [thread |-> s, asker |-> submission[s].asker, effect |-> submission[s].effect]
Announce(s) ==
  /\ At(s, "announce") /\ announced' = announced \cup {Announcement(s)}
  /\ \/ submission' = [submission EXCEPT ![s].pc = "rethread", ![s].thread = s] /\ UNCHANGED slips
     \/ Slip /\ Goes(s, "dropped")                         \* posted, and Slack's answer lost
  /\ UNCHANGED <<deployed, granted, form, jobs>>

\* mutant: the job stays in the thread the submission was resolved for
JobOfView(s) == [event |-> s, thread |-> NoThread, asker |-> submission[s].asker, effect |-> submission[s].effect]
Job(s) == [event |-> s, thread |-> submission[s].thread, asker |-> submission[s].asker,
           effect |-> submission[s].effect]
Enqueue(s) ==
  /\ At(s, "send") /\ jobs' = jobs \cup {Job(s)}
  /\ \/ Goes(s, "queued") /\ UNCHANGED slips
     \/ Slip /\ Goes(s, "dropped")                         \* queued, and its answer lost
  /\ UNCHANGED <<deployed, granted, form, announced>>

\* a call refused or the Worker evicted: nobody takes the work up again
Drop(s) ==
  /\ submission[s].pc \in {"resolve", "announce", "rethread", "send"} /\ Slip /\ Goes(s, "dropped")
  /\ UNCHANGED <<deployed, granted, form, announced, jobs>>

-----------------------------------------------------------------------------
Deploy ==
  /\ deployed + 1 \in DOMAIN Allowed /\ deployed' = deployed + 1
  /\ UNCHANGED <<granted, form, submission, announced, jobs, slips>>
Withdraw == Slip /\ granted' = FALSE /\ granted /\ UNCHANGED <<deployed, form, submission, announced, jobs>>

Ask == \E f \in Forms, a \in Askers : Command(f, a)
Fill == \E s \in Submissions, f \in Forms, a \in Askers, blanks \in SUBSET Required, e \in Effects :
          Submit(s, f, a, blanks, e)
Next ==
  \/ Ask \/ (\E f \in Forms : Open(f)) \/ Fill
  \/ \E s \in Submissions : Resolve(s) \/ Announce(s) \/ Enqueue(s) \/ Drop(s)
  \/ Deploy \/ Withdraw
Spec == Init /\ [][Next]_improvementVars

-----------------------------------------------------------------------------
TypeOK ==
  /\ deployed \in DOMAIN Allowed /\ granted \in BOOLEAN /\ slips \in 0..MaxSlips
  /\ \A f \in Forms : form[f].state \in {"none", "refused", "opening", "lost", "open", "closed"}
  /\ \A s \in Submissions :
       /\ submission[s].pc \in {"none", "scope_invalid", "forbidden", "errors", "resolve", "announce", "rethread",
                                "send", "queued", "dropped"}
       /\ submission[s].effect \in Ranges

\* A job is queued in a thread of Mana's own whose root names the same asker and
\* the same range (index.ts, accept), however many submissions a form had.
QueuedIsAnnounced ==
  \A j \in jobs : [thread |-> j.thread, asker |-> j.asker, effect |-> j.effect] \in announced

\* A job was asked by the one who opened the form, whom the deployment that
\* took the submission allowed, and it may do no more than the form said.
QueuedIsAllowed ==
  \A j \in jobs : LET s == submission[j.event] IN
    /\ j.asker = form[s.form].asker /\ j.asker \in Allowed[s.under] /\ j.effect = s.chosen

\* A form is sent back naming a field that is empty (mana-improvement-slack.ts).
BlamedIsBlank == \A s \in Submissions : At(s, "errors") => submission[s].named \in submission[s].blanks
=============================================================================
