--------------------------- MODULE MinutesStatus ---------------------------
(***************************************************************************)
(* What the thread of a recording shows of its run                         *)
(* (meeting-minutes-slack.ts, called through the effect guard of           *)
(* index.ts).  The selector asks for a destination; the first operation    *)
(* posts a status card and ends the selector; every operation tells its    *)
(* outcome on the card, with the buttons that may help, and a completed    *)
(* card is read back from Slack before the run counts as shown.  A redo    *)
(* turns the card into the selector of the next revision.                  *)
(*                                                                         *)
(* An operation is one click; the Queue delivers it again after a failure  *)
(* or a crash.  The claims of an operation keep the effects that           *)
(* succeeded.  Slack may lose an answer or an update it answered, and may  *)
(* or may not remember the message of an earlier revision by its client    *)
(* message id.                                                             *)
(***************************************************************************)
EXTENDS Naturals, FiniteSets

CONSTANTS MaxOps, MaxTroubles, MaxRev

VARIABLES file,       \* the saved run
          redoing,    \* a redo command that waits or is at work
          op,         \* the operation at work
          claims,     \* effect id -> result, of the current operation
          held,       \* the Queue will deliver the operation again
          msgs,       \* Slack timestamp -> what the message shows
          spent       \* [ops, troubles]

vars == <<file, redoing, op, claims, held, msgs, spent>>

Stamps == 1 .. 2 + MaxRev
Selector == 1
NoCard == [kind |-> "none"]
Choose == [kind |-> "choose"]
Chosen == [kind |-> "chosen"]
Working == [kind |-> "working"]
Notice == [kind |-> "notice"]         \* the one-shot fallback: a code and no button
RedoFailed == [kind |-> "redo failed"]

NewRun == [rev |-> 0, phase |-> "awaiting", failure |-> "none", diag |-> "none", task |-> "none",
           proj |-> FALSE, projected |-> "none", readback |-> FALSE,
           selection |-> Selector, processing |-> 0, stamp |-> 0]
Idle == [at |-> "idle", run |-> NewRun, outcome |-> "none"]
-----------------------------------------------------------------------------
\* The failures that no further attempt can cure, of the minutes or of their tasks.
AuthenticationFailure(run) == run.failure = "auth" \/ run.task = "auth"
ProjectBindingFailure(run) == run.failure = "binding" \/ run.task = "binding"
PermanentBrainbaseFailure(run) == AuthenticationFailure(run) \/ ProjectBindingFailure(run)

Retryable(run) == IF run.diag # "none" THEN run.diag = "retryable" ELSE TRUE

CompletedStatus(run) ==
  IF run.failure = "stored placeholder" THEN "placeholder"
  ELSE IF AuthenticationFailure(run) THEN "auth"
  ELSE IF ProjectBindingFailure(run) THEN "binding"
  ELSE IF run.task # "none" THEN "tasks pending" ELSE "healthy"
FailedRun(run) ==
  IF run.failure = "placeholder" THEN "placeholder"
  ELSE IF run.failure = "channel" THEN "channel"
  ELSE IF ProjectBindingFailure(run) THEN "binding"
  ELSE IF AuthenticationFailure(run) THEN "auth"
  ELSE IF Retryable(run) THEN "retry" ELSE "operator"

\* Whether the card names a failure: any the run still keeps.
LifecycleFailure(run) == run.failure # "none" \/ run.proj \/ run.diag # "none" \/ run.task # "none"

CompletedCard(run) ==
  [kind |-> "completed", about |-> CompletedStatus(run), told |-> LifecycleFailure(run), rev |-> run.rev,
   buttons |-> {"redo"} \cup (IF run.task # "none" /\ ~PermanentBrainbaseFailure(run) THEN {"retry"} ELSE {})]
FailedButtons(run) ==
  IF PermanentBrainbaseFailure(run) \/ ~Retryable(run) THEN {}
  ELSE {"retry"} \cup (IF run.failure = "channel" THEN {"redo"} ELSE {})
FailedCard(run) ==
  [kind |-> "failed", about |-> FailedRun(run), told |-> TRUE, rev |-> run.rev, buttons |-> FailedButtons(run)]
Card(run, outcome) == IF outcome = "completed" THEN CompletedCard(run) ELSE FailedCard(run)

Offers(button, m) == m.kind \in {"completed", "failed"} /\ button \in m.buttons
Card0 == msgs[file.processing]
-----------------------------------------------------------------------------
Init ==
  /\ file = NewRun /\ redoing = "no" /\ op = Idle /\ claims = {} /\ held = FALSE
  /\ msgs = [t \in Stamps |-> IF t = Selector THEN Choose ELSE NoCard]
  /\ spent = [ops |-> 0, troubles |-> 0]

Smooth == UNCHANGED spent
Trouble == spent.troubles < MaxTroubles /\ spent' = [spent EXCEPT !.troubles = @ + 1]
Saved(run) == [run EXCEPT !.stamp = @ + 1]
PostId == <<"processing", "none", 0>>
Claimed(id) == \E c \in claims : c.id = id
Claims(id, result) == claims' = claims \cup {[id |-> id, result |-> result]}

\* A selector that is not the card itself is ended once the card is there; its
\* failure is only logged.
TerminalizeOverCard(m, run, ts) == [m EXCEPT ![run.selection] = Chosen]
TerminalizeDestinationSelection(m, run, ts) ==
  IF run.selection = ts THEN m ELSE [m EXCEPT ![run.selection] = Chosen]
Closings(m, run, ts) == {TerminalizeDestinationSelection(m, run, ts), m}

\* A person presses a button: an operation of its own, with no claims yet.
Press ==
  /\ op.at = "idle" /\ ~held /\ redoing # "shown" /\ spent.ops < MaxOps
  /\ \/ \E t \in Stamps : msgs[t] = Choose
     \/ file.processing # 0 /\ Offers("retry", Card0)
  /\ held' = TRUE /\ claims' = {} /\ spent' = [spent EXCEPT !.ops = @ + 1]
  /\ UNCHANGED <<file, redoing, op, msgs>>

\* The Queue delivers: minutes that are kept are only completed further.
Deliver ==
  /\ op.at = "idle" /\ held /\ redoing # "shown"
  /\ op' = [Idle EXCEPT !.at = IF file.phase = "completed" THEN "tasks"
                               ELSE IF file.processing = 0 THEN "post" ELSE "work",
                        !.run = IF file.phase = "completed" THEN file
                                ELSE [Saved(file) EXCEPT !.phase = "running", !.failure = "none"]]
  /\ file' = op'.run
  /\ UNCHANGED <<redoing, claims, held, msgs>> /\ Smooth

\* Another approver or destination: refused, and told as a failure of the run.
Refuse ==
  /\ op.at = "idle" /\ held /\ redoing # "shown" /\ Trouble
  /\ op' = [Idle EXCEPT !.at = "status", !.run = file, !.outcome = "failed"]
  /\ UNCHANGED <<file, redoing, claims, held, msgs>>

\* The status card is posted, or found by its client message id: surely the one
\* of this revision, perhaps the card of the revision before.
Cards == {ts \in Stamps \ {Selector} : msgs[ts] # NoCard}
Found == IF \E ts \in Cards : msgs[ts] = Working THEN {ts \in Cards : msgs[ts] = Working}
         ELSE Cards \cup {Cardinality(Cards) + 2}
PostProcessingStatus ==
  /\ op.at = "post" /\ ~Claimed(PostId)
  /\ \E ts \in Found :
       /\ msgs' \in Closings([msgs EXCEPT ![ts] = IF @ = NoCard THEN Working ELSE @], op.run, ts)
       /\ op' = [op EXCEPT !.at = "complete", !.run.processing = ts]
  /\ UNCHANGED <<file, redoing, claims, held>> /\ Smooth
PostReplayed ==
  /\ op.at = "post"
  /\ \E c \in claims : c.id = PostId /\ op' = [op EXCEPT !.at = "posted", !.run.processing = c.result]
  /\ UNCHANGED <<file, redoing, claims, held, msgs>> /\ Smooth
PostFails ==
  /\ op.at = "post" /\ ~Claimed(PostId) /\ Trouble
  /\ op' = [op EXCEPT !.at = "status", !.outcome = "failed", !.run =
              [Saved(@) EXCEPT !.phase = "failed", !.failure = "plain", !.diag = "retryable"]]
  /\ file' = op'.run
  /\ UNCHANGED <<redoing, claims, held, msgs>>
PostCompleted ==
  /\ op.at = "complete" /\ Claims(PostId, op.run.processing)
  /\ op' = [op EXCEPT !.at = "posted"]
  /\ UNCHANGED <<file, redoing, held, msgs>> /\ Smooth
SavePosted ==
  /\ op.at = "posted"
  /\ op' = [op EXCEPT !.at = "work", !.run = Saved(@)] /\ file' = op'.run
  /\ UNCHANGED <<redoing, claims, held, msgs>> /\ Smooth

\* The pipeline ends: failed with a class and whether it may be retried, or
\* completed with or without its tasks; an earlier diagnosis of another stage
\* stays with the run.
Ends(run, outcome) ==
  /\ op' = [op EXCEPT !.at = "status", !.outcome = outcome, !.run = Saved(run)] /\ file' = op'.run
  /\ UNCHANGED <<redoing, claims, held, msgs>>
TasksOf(run, t) ==
  IF t = "none" THEN [run EXCEPT !.phase = "completed", !.task = t, !.diag = IF run.task = "none" THEN @ ELSE "none"]
  ELSE [run EXCEPT !.phase = "completed", !.task = t, !.failure = "none",
                   !.diag = IF t = "plain" THEN "retryable" ELSE "permanent"]
Work ==
  /\ op.at = "work"
  /\ \/ Smooth /\ Ends(TasksOf(op.run, "none"), "completed")
     \/ Trouble /\ \E t \in {"plain", "auth", "binding"} : Ends(TasksOf(op.run, t), "completed")
     \/ Trouble /\ \E f \in {"plain", "placeholder", "channel", "auth", "binding"} :
          \E d \in {"retryable", "permanent"} :
            /\ f \in {"auth", "binding"} <=> d = "permanent" /\ f # "plain"
            /\ Ends([op.run EXCEPT !.phase = "failed", !.failure = f, !.diag = d], "failed")
Tasks ==
  /\ op.at = "tasks"
  /\ \/ Smooth /\ Ends(TasksOf(op.run, "none"), "completed")
     \/ Trouble /\ \E t \in {"plain", "auth", "binding"} : Ends(TasksOf(op.run, t), "completed")
     \/ Trouble /\ Ends([op.run EXCEPT !.failure = "stored placeholder"], "completed")
-----------------------------------------------------------------------------
\* A completed run is shown without the failure of an earlier display.
Shown == IF op.outcome = "completed" THEN [op.run EXCEPT !.proj = FALSE] ELSE op.run
StatusId == <<"status", op.outcome, op.run.stamp>>
Confirms == IF op.outcome = "completed" THEN "confirm" ELSE "record"

UpdateRunStatus ==
  /\ op.at = "status" /\ op.run.processing # 0 /\ ~Claimed(StatusId)
  /\ \/ Smooth /\ msgs' \in Closings([msgs EXCEPT ![op.run.processing] = Card(Shown, op.outcome)],
                               op.run, op.run.processing)
     \/ Trouble /\ op.outcome = "completed" /\ msgs' = msgs        \* answered, and not stored
  /\ Claims(StatusId, op.run.processing)
  /\ op' = [op EXCEPT !.at = Confirms, !.run = Shown]
  /\ UNCHANGED <<file, redoing, held>>
StatusReplayed ==
  /\ op.at = "status" /\ op.run.processing # 0 /\ Claimed(StatusId)
  /\ op' = [op EXCEPT !.at = Confirms, !.run = Shown]
  /\ UNCHANGED <<file, redoing, claims, held, msgs>> /\ Smooth
StatusFails ==
  /\ op.at = "status"
  /\ \/ op.run.processing = 0 /\ Smooth
     \/ op.run.processing # 0 /\ ~Claimed(StatusId) /\ Trouble
  /\ msgs' \in {msgs} \cup (IF op.run.processing = 0 THEN {}
                            ELSE {[msgs EXCEPT ![op.run.processing] = Card(Shown, op.outcome)]})
  /\ op' = [op EXCEPT !.at = "failure", !.run = Shown]
  /\ UNCHANGED <<file, redoing, claims, held>>

\* The exact final message is what Slack stores, or the run is not confirmed.
ConfirmedUnread == TRUE
ConfirmTerminalRunStatus == msgs[op.run.processing] = Card(op.run, "completed")
Confirm ==
  /\ op.at = "confirm"
  /\ IF ConfirmTerminalRunStatus
     THEN \/ Smooth /\ op' = [op EXCEPT !.at = "record", !.run.readback = TRUE]
          \/ Trouble /\ op' = [op EXCEPT !.at = "failure"]
     ELSE Smooth /\ op' = [op EXCEPT !.at = "failure"]
  /\ UNCHANGED <<file, redoing, claims, held, msgs>>

\* A failed run is thrown on, so that its message is delivered again.
RecordProjectionSuccess ==
  /\ op.at = "record"
  /\ file' = [Saved(op.run) EXCEPT !.proj = FALSE, !.projected = op.outcome]
  /\ op' = Idle /\ held' = (held /\ op.outcome = "failed")
  /\ UNCHANGED <<redoing, claims, msgs>> /\ Smooth
RecordProjectionFailure ==
  /\ op.at = "failure"
  /\ op' = [op EXCEPT !.at = "fallback", !.run = [Saved(@) EXCEPT !.proj = TRUE, !.projected = "none"]]
  /\ file' = op'.run
  /\ UNCHANGED <<redoing, claims, held, msgs>> /\ Smooth
\* One fallback per outcome and operation, never a second status.
FallbackId == <<"fallback", op.outcome, 0>>
ProjectStatusFailure ==
  /\ op.at = "fallback" /\ op' = Idle
  /\ \/ /\ op.run.processing # 0 /\ ~Claimed(FallbackId) /\ Smooth
        /\ msgs' = [msgs EXCEPT ![op.run.processing] = Notice] /\ Claims(FallbackId, op.run.processing)
     \/ /\ op.run.processing # 0 /\ ~Claimed(FallbackId) /\ Trouble /\ UNCHANGED <<msgs, claims>>
     \/ /\ (op.run.processing = 0 \/ Claimed(FallbackId)) /\ Smooth /\ UNCHANGED <<msgs, claims>>
  /\ held' = (op.run.processing # 0 \/ op.outcome = "failed")
  /\ UNCHANGED <<file, redoing>>
-----------------------------------------------------------------------------
\* The redo of a completed run, or of one whose channel refuses Mana: the card
\* becomes the selector of the next revision.  What its failure shows is the
\* button again, or a code without one.
RedoAvailable ==
  /\ op.at = "idle" /\ file.processing # 0
  /\ file.phase = "completed" \/ (file.phase = "failed" /\ file.failure = "channel")
PressRedo ==
  /\ ~held /\ redoing = "no" /\ file.rev < MaxRev
  /\ RedoAvailable /\ (Offers("redo", Card0) \/ Card0 = RedoFailed)
  /\ redoing' = "asked"
  /\ UNCHANGED <<file, op, claims, held, msgs>> /\ Smooth
ShowDestinationSelection ==
  /\ redoing = "asked" /\ RedoAvailable
  /\ redoing' = "shown" /\ msgs' = [msgs EXCEPT ![file.processing] = Choose]
  /\ UNCHANGED <<file, op, claims, held>> /\ Smooth
ShowRedoFailure ==
  /\ redoing = "asked" /\ RedoAvailable /\ Trouble
  /\ redoing' = "no" /\ msgs' \in {[msgs EXCEPT ![file.processing] = m] : m \in {RedoFailed, Notice, Card0}}
  /\ file' = Saved(file)
  /\ UNCHANGED <<op, claims, held>>
RedoNotAvailable ==
  /\ redoing = "asked" /\ op.at = "idle" /\ ~RedoAvailable
  /\ redoing' = "no"
  /\ UNCHANGED <<file, op, claims, held, msgs>> /\ Smooth
NextRevision ==
  /\ redoing = "shown"
  /\ redoing' = "no"
  /\ file' = [Saved(NewRun) EXCEPT !.rev = file.rev + 1, !.stamp = file.stamp + 1, !.diag = file.diag,
                                   !.proj = file.proj, !.selection = file.processing]
  /\ UNCHANGED <<op, claims, held, msgs>> /\ Smooth
RedoDies ==
  /\ redoing = "shown" /\ Trouble /\ redoing' = "asked"
  /\ UNCHANGED <<file, op, claims, held, msgs>>

Dies ==
  /\ op.at # "idle" /\ Trouble /\ op' = Idle
  /\ UNCHANGED <<file, redoing, claims, held, msgs>>

Operation ==
  \/ Deliver \/ Refuse \/ PostProcessingStatus \/ PostReplayed \/ PostFails \/ PostCompleted \/ SavePosted
  \/ Work \/ Tasks \/ UpdateRunStatus \/ StatusReplayed \/ StatusFails \/ Confirm
  \/ RecordProjectionSuccess \/ RecordProjectionFailure \/ ProjectStatusFailure
Next ==
  \/ Press \/ Operation \/ PressRedo \/ ShowDestinationSelection \/ ShowRedoFailure \/ RedoNotAvailable
  \/ NextRevision \/ RedoDies
  \/ Dies
Spec == Init /\ [][Next]_vars
-----------------------------------------------------------------------------
TypeOK ==
  /\ file.rev \in 0 .. MaxRev /\ file.processing \in {0} \cup Stamps /\ file.selection \in Stamps
  /\ held \in BOOLEAN /\ redoing \in {"no", "asked", "shown"}
  /\ op.at \in {"idle", "post", "complete", "posted", "work", "tasks", "status", "confirm", "record",
                "failure", "fallback"}
  /\ spent.ops \in 0 .. MaxOps /\ spent.troubles \in 0 .. MaxTroubles

Resting == op.at = "idle" /\ ~held /\ redoing = "no"

\* A run counts as shown completed only when Slack stores exactly that message,
\* and from then on only a redo takes the card: no late closing of a selector,
\* fallback or replayed effect writes over it.  (confirmTerminalRunStatus: an
\* answer of chat.update is no evidence.)
CompletedIsShown ==
  /\ op.at = "record" /\ op.outcome = "completed" => msgs[op.run.processing] = CompletedCard(op.run)
  /\ Resting /\ file.projected = "completed" =>
       \/ Card0.kind = "completed" /\ Card0.rev = file.rev
       \/ Card0 \in {Choose, RedoFailed, Notice} /\ spent.troubles > 0

\* A run that is told as failed can be taken up again from its card, unless
\* trying again cannot help; and a run whose failure no attempt cures offers none.
\* (updateRunStatus's buttons, with what earlier attempts left in the run.)
FailedHasAWayOn ==
  op.at = "record" /\ op.outcome = "failed" /\ op.run.phase = "failed" =>
    (Offers("retry", msgs[op.run.processing]) <=> ~PermanentBrainbaseFailure(op.run) /\ op.run.diag # "permanent")

\* The status card is never ended as a selector, also where it was one before.
\* (terminalizeDestinationSelection, after a redo.)
CardIsNotClosed == file.processing # 0 => Card0 # Chosen
=============================================================================
