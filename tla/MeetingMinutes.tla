--------------------------- MODULE MeetingMinutes ---------------------------
(***************************************************************************)
(* One meeting minutes run (meeting-minutes-pipeline.ts, -lifecycle.ts,    *)
(* -recovery.ts, -task-integration.ts, -run-receipt.ts and their wiring in *)
(* index.ts): the selection of a destination, the staged work with its     *)
(* checkpoints, the watchdog that judges an interrupted run, the redo that *)
(* takes a revision back, and the receipt delivered to Brainbase.          *)
(*                                                                         *)
(* The run is a file in a workspace without compare-and-swap: a handler    *)
(* loads it, works on its own copy and saves the whole copy.  Overlaps     *)
(* says whether handlers of one run may be under way together.             *)
(***************************************************************************)
EXTENDS Integers, FiniteSets

CONSTANTS
    MaxClicks,  \* bound on selections and admin retries
    MaxRedos,   \* bound on confirmed redo buttons
    MaxRev,     \* bound on revisions of the run
    MaxRecases, \* bound on corrections of the outcome case
    MaxFaults,  \* bound on failures, lost answers and crashes
    Overlaps    \* handlers of the run may overlap

ASSUME BoundAssumption ==
    /\ {MaxClicks, MaxRedos, MaxRev, MaxRecases, MaxFaults} \subseteq Nat
    /\ Overlaps \in BOOLEAN

VARIABLES
    file,       \* the stored run
    world,      \* revisions whose GitHub record, task, shared post exist
    ledger,     \* run receipts Brainbase holds
    msgs,       \* queue messages: selections, recoveries, redos
    sel,        \* handler of a selection
    rec,        \* handler of a recovery (the watchdog)
    redo,       \* handler of a redo
    active,     \* the deployment gate counts the run as active
    clicks, redos, faults,
    exhausted,  \* a selection ran out of queue attempts
    shows,      \* watchdog status updates sent to Slack in this lifecycle
    cleared     \* revisions whose pending task marker a redo cleared

vars == <<file, world, ledger, msgs, sel, rec, redo, active, clicks, redos, faults,
          exhausted, shows, cleared>>
counters == <<clicks, redos>>

Cases == 0 .. 2             \* 0: no outcome case
Actions == 1 .. MaxClicks
Revs == 0 .. MaxRev
Undoings == {"github", "task", "shared"}

FreshLife(a) == [action |-> a, claimed |-> FALSE, attempted |-> FALSE,
                 outcome |-> FALSE, projected |-> FALSE]

Runs == [rev : Revs, phase : {"awaiting", "running", "failed", "completed"},
         dest : BOOLEAN, github : BOOLEAN, shared : BOOLEAN, bad : BOOLEAN,
         task : {"none", "pending", "registered"},
         trouble : {"none", "registration", "not_ready", "publish"},
         life : [action : 0 .. MaxClicks, claimed : BOOLEAN, attempted : BOOLEAN,
                 outcome : BOOLEAN, projected : BOOLEAN],
         undone : SUBSET Undoings, opened : BOOLEAN,
         shown : {"none", "completed", "failed"}, unshown : BOOLEAN,
         receipt : {"none", "pending", "delivered"}, case : Cases,
         rrev : 0 .. MaxRecases]

Selections == [kind : {"selection"}, action : Actions, case : Cases, fits : BOOLEAN]
Recoveries == [kind : {"recovery"}, action : Actions]
RedoCommands == [kind : {"redo"}, click : 1 .. MaxRedos, rev : Revs]

Nothing == [kind |-> "none"]
Idle(run) == [at |-> "idle", msg |-> Nothing, run |-> run]

\* startMeetingMinutesRuns has saved the run and posted its selection.
NewRun == [rev |-> 0, phase |-> "awaiting", dest |-> FALSE, github |-> FALSE,
           shared |-> FALSE, bad |-> FALSE, task |-> "none", trouble |-> "none",
           life |-> FreshLife(0), undone |-> {}, opened |-> FALSE, shown |-> "none",
           unshown |-> FALSE, receipt |-> "none", case |-> 0, rrev |-> 0]

Init ==
    /\ file = NewRun
    /\ world = [github |-> {}, task |-> {}, shared |-> {}]
    /\ ledger = {}
    /\ msgs = {}
    /\ sel = Idle(NewRun) /\ rec = Idle(NewRun) /\ redo = Idle(NewRun)
    /\ active = FALSE
    /\ clicks = 0 /\ redos = 0 /\ faults = 0
    /\ exhausted = FALSE
    /\ shows = 0
    /\ cleared = {}

TypeOK ==
    /\ file \in Runs /\ sel.run \in Runs /\ rec.run \in Runs /\ redo.run \in Runs
    /\ world \in [{"github", "task", "shared"} -> SUBSET Revs]
    /\ ledger \subseteq [rev : Revs, rrev : 0 .. MaxRecases, case : Cases]
    /\ msgs \subseteq Selections \cup Recoveries \cup RedoCommands
    /\ sel.at \in {"idle", "mark", "send", "resume", "prepare", "github", "share", "task",
                   "create", "publish", "project", "emit", "failed", "refused"}
    /\ rec.at \in {"idle", "project"}
    /\ redo.at \in {"idle", "recover", "github", "task", "shared", "show"}
    /\ {sel.msg, rec.msg, redo.msg} \subseteq msgs \cup {Nothing}
    /\ active \in BOOLEAN /\ exhausted \in BOOLEAN
    /\ clicks \in 0 .. MaxClicks /\ redos \in 0 .. MaxRedos /\ faults \in 0 .. MaxFaults
    /\ shows \in 0 .. 2
    /\ cleared \subseteq Revs

-----------------------------------------------------------------------------
(* Faults, saving and finishing *)

Fault == faults < MaxFaults /\ faults' = faults + 1
NoFault == UNCHANGED faults

Handlers == {sel, rec, redo}
Alone == Overlaps \/ \A h \in Handlers : h.at = "idle"
Free(m) == \A h \in Handlers : h.msg # m

\* Mutant: the handler that ended still holds its message.
LeftHolding == [at |-> "idle", msg |-> sel.msg, run |-> NewRun]

\* Every exit of a handler forgets its copy.
Left == Idle(NewRun)

\* Mutant: the gate is not told.
MarkTerminalForgotten == active' = active

\* MeetingMinutesDeploymentGate.markTerminal
MarkTerminal == active' = FALSE

Has(kind, rev) == [world EXCEPT ![kind] = @ \cup {rev}]
Lacks(kind, rev) == [world EXCEPT ![kind] = @ \ {rev}]

-----------------------------------------------------------------------------
(* Commands entering the queue *)

\* The Slack button, or the authenticated retry route, which needs a judged run
\* and may carry an outcome case.  A click of another operator, or for another
\* destination than the run's, does not fit.
Select ==
    /\ clicks < MaxClicks
    /\ clicks' = clicks + 1
    /\ \E c \in Cases, fits \in BOOLEAN :
        /\ c # 0 => file.dest /\ file.phase \in {"failed", "completed"} /\ fits
        /\ ~fits => file.dest
        /\ msgs' = msgs \cup {[kind |-> "selection", action |-> clicks', case |-> c, fits |-> fits]}
    /\ UNCHANGED <<file, world, ledger, sel, rec, redo, active, redos, faults, exhausted, shows, cleared>>

\* The confirmed redo button of a completed run's status, of this revision or,
\* from a message left in the thread, of an earlier one.
PressRedo ==
    /\ redos < MaxRedos
    /\ redos' = redos + 1
    /\ \E r \in 0 .. file.rev :
        /\ r < MaxRev
        /\ r = file.rev => file.shown = "completed" \/ file.bad
        /\ msgs' = msgs \cup {[kind |-> "redo", click |-> redos', rev |-> r]}
    /\ UNCHANGED <<file, world, ledger, sel, rec, redo, active, clicks, faults, exhausted, shows, cleared>>

\* A message used up its queue attempts.
Exhaust ==
    /\ ~exhausted /\ Fault
    /\ \E m \in msgs :
        /\ m.kind = "selection" /\ Free(m)
        /\ msgs' = msgs \ {m}
    /\ exhausted' = TRUE
    /\ UNCHANGED <<file, world, ledger, sel, rec, redo, active, counters, shows, cleared>>

\* The administrator retries the receipt of a completed run, after correcting
\* its outcome case: a changed case makes a new receipt identity.
Healthy(run) ==
    /\ run.phase = "completed" /\ run.dest /\ run.github
    /\ ~run.unshown /\ run.shown = "completed"
    /\ run.task # "pending" /\ run.trouble = "none"

Recased(run, c) ==
    IF c \in {0, run.case} \/ run.receipt = "delivered" THEN run
    ELSE [run EXCEPT !.case = c, !.rrev = @ + 1, !.receipt = "pending"]

\* Brainbase keeps the first payload of an identity; the client confirms a
\* declared case only when Brainbase links it.
Known(run) == {r \in ledger : r.rev = run.rev /\ r.rrev = run.rrev}
Delivered(run) ==
    IF Known(run) # {} THEN ledger
    ELSE ledger \cup {[rev |-> run.rev, rrev |-> run.rrev, case |-> run.case]}

\* Mutant: any answer of the ingest confirms.
ConfirmedUnchecked(run) == TRUE

Confirmed(run) == run.case = 0 \/ \A r \in Known(run) : r.case = run.case

RetryReceipt ==
    /\ \E c \in Cases :
        LET saved == Recased(file, c) IN
        /\ Alone
        /\ saved.rrev <= MaxRecases
        /\ file.receipt = "pending"
        /\ Healthy(saved)
        /\ \/ /\ Confirmed(saved) /\ NoFault
              /\ ledger' = Delivered(saved)
              /\ file' = [saved EXCEPT !.receipt = "delivered"]
           \/ /\ Fault
              /\ ledger' \in {ledger, Delivered(saved)}
              /\ file' = saved
           \/ /\ ~Confirmed(saved) /\ NoFault
              /\ file' = saved
              /\ UNCHANGED ledger
    /\ UNCHANGED <<world, msgs, sel, rec, redo, active, counters, exhausted, shows, cleared>>

-----------------------------------------------------------------------------
(* A selection: processTenantMeetingMinutesSelection *)

Unarmed(run) ==
    run.phase = "completed" \/ run.life.projected \/ run.life.claimed \/ run.life.attempted

\* armMeetingMinutesRecovery: a new action opens a new lifecycle.
Armed(run, m) ==
    IF run.phase = "completed" \/ run.life.action = m.action THEN run
    ELSE [run EXCEPT !.life = FreshLife(m.action)]

SelectionBegins ==
    /\ Alone /\ sel.at = "idle"
    /\ \E m \in msgs :
        /\ m.kind = "selection"
        /\ file' = Armed(file, m)
        /\ shows' = IF file'.life = file.life THEN shows ELSE 0
        /\ sel' = [at |-> IF Unarmed(file') THEN "resume" ELSE "mark", msg |-> m, run |-> file']
    /\ UNCHANGED <<world, ledger, msgs, rec, redo, active, counters, faults, exhausted, cleared>>

MarkActive ==
    /\ sel.at = "mark"
    /\ active' = TRUE
    /\ sel' = [sel EXCEPT !.at = "send"]
    /\ UNCHANGED <<file, world, ledger, msgs, rec, redo, counters, faults, exhausted, shows, cleared>>

\* Mutant: the watchdog is not enqueued.
SendRecoveryForgotten ==
    /\ sel.at = "send"
    /\ sel' = [sel EXCEPT !.at = "resume"]
    /\ UNCHANGED <<file, world, ledger, msgs, rec, redo, active, counters, faults, exhausted, shows, cleared>>

SendRecovery ==
    /\ sel.at = "send"
    /\ msgs' = msgs \cup {[kind |-> "recovery", action |-> sel.msg.action]}
    /\ sel' = [sel EXCEPT !.at = "resume"]
    /\ UNCHANGED <<file, world, ledger, rec, redo, active, counters, faults, exhausted, shows, cleared>>

\* resumeMeetingMinutesRun refuses a click that does not fit the run and a case
\* other than the run's or later than its delivered receipt.
Refused(run, m) ==
    \/ ~m.fits
    \/ (m.case # 0 /\ run.case # 0 /\ m.case # run.case)
    \/ (m.case # 0 /\ run.case = 0 /\ run.receipt = "delivered")

\* Where a run goes on: behind its checkpoints.
Entry(run) ==
    CASE run.phase = "completed" ->
            IF run.trouble \in {"registration", "not_ready"} THEN "task" ELSE "publish"
      [] ~run.github -> "prepare"
      [] ~run.shared -> "share"
      [] OTHER -> "task"

Resumed(run, m) ==
    LET cased == [run EXCEPT !.case = IF @ = 0 THEN m.case ELSE @] IN
    IF run.phase = "completed" THEN cased
    ELSE [cased EXCEPT !.phase = "running", !.dest = TRUE, !.bad = FALSE]

Resume ==
    /\ sel.at = "resume"
    /\ IF Refused(file, sel.msg)
       THEN /\ sel' = [sel EXCEPT !.at = "refused", !.run = file]
            /\ UNCHANGED file
       ELSE /\ file' = Resumed(file, sel.msg)
            /\ sel' = [sel EXCEPT !.at = Entry(file), !.run = file']
    /\ UNCHANGED <<world, ledger, msgs, rec, redo, active, counters, faults, exhausted, shows, cleared>>

\* One stage: its effect and its checkpoint, or a failure before or after the
\* effect, which is saved and then shown.  bad: the destination channel does not
\* exist; one that took a post of the revision is assumed to stay.
Stage(at, next, saved, effects) ==
    /\ sel.at = at
    /\ \/ /\ NoFault
          /\ world' = effects
          /\ file' = saved
          /\ sel' = [sel EXCEPT !.at = next, !.run = saved]
       \/ /\ Fault
          /\ world' \in {world, effects}
          /\ file' = [sel.run EXCEPT !.phase = "failed", !.bad = at = "share" /\ sel.run.rev \notin world'.shared]
          /\ sel' = [sel EXCEPT !.at = "failed", !.run = file']
    /\ UNCHANGED <<ledger, msgs, rec, redo, active, counters, exhausted, shows, cleared>>

\* The processing status, the transcript, the context receipt, the generation.
Prepare == Stage("prepare", "github", sel.run, world)
SaveGitHub == Stage("github", "share", [sel.run EXCEPT !.github = TRUE], Has("github", sel.run.rev))
Share == Stage("share", "task", [sel.run EXCEPT !.shared = TRUE], Has("shared", sel.run.rev))

\* registerGeneratedTasks: the exact request is saved before it is sent.
MarkTask ==
    /\ sel.at = "task"
    /\ IF sel.run.task = "registered"
       THEN sel' = [sel EXCEPT !.at = "publish"] /\ UNCHANGED file
       ELSE /\ file' = [sel.run EXCEPT !.task = "pending"]
            /\ sel' = [sel EXCEPT !.at = "create", !.run = file']
    /\ UNCHANGED <<world, ledger, msgs, rec, redo, active, counters, faults, exhausted, shows, cleared>>

\* Downstream work that fails leaves a completed run with its trouble.
Deferred(run, trouble) == [run EXCEPT !.trouble = trouble, !.phase = "completed"]

CreateTask ==
    /\ sel.at = "create"
    /\ \/ /\ NoFault
          /\ world' = Has("task", sel.run.rev)
          /\ file' = [sel.run EXCEPT !.task = "registered"]
          /\ sel' = [sel EXCEPT !.at = "publish", !.run = file']
       \/ /\ Fault
          /\ \/ /\ world' \in {world, Has("task", sel.run.rev)}
                /\ file' = Deferred(sel.run, "registration")
             \/ /\ file' = Deferred(sel.run, "not_ready")
                /\ UNCHANGED world
          /\ sel' = [sel EXCEPT !.at = "project", !.run = file']
    /\ UNCHANGED <<ledger, msgs, rec, redo, active, counters, exhausted, shows, cleared>>

\* The board and the card, marked pending first.
Publish ==
    /\ sel.at = "publish"
    /\ \/ NoFault /\ file' = Deferred(sel.run, "none")
       \/ Fault /\ file' = Deferred(sel.run, "publish")
    /\ sel' = [sel EXCEPT !.at = "project", !.run = file']
    /\ UNCHANGED <<world, ledger, msgs, rec, redo, active, counters, exhausted, shows, cleared>>

\* projectCompleted: the status is shown and read back, or the failure to show
\* it is saved and the message retried.
ProjectCompleted ==
    /\ sel.at = "project"
    /\ \/ /\ NoFault
          /\ file' = [sel.run EXCEPT !.unshown = FALSE, !.shown = "completed"]
          /\ sel' = [sel EXCEPT !.at = "emit", !.run = file']
          /\ UNCHANGED active
       \/ /\ Fault
          /\ file' = [sel.run EXCEPT !.unshown = TRUE, !.shown = "none"]
          /\ sel' = Left
          /\ MarkTerminal
    /\ UNCHANGED <<world, ledger, msgs, rec, redo, counters, exhausted, shows, cleared>>

\* The receipt of a healthy run, then the acknowledgement; a delivery that is
\* not confirmed leaves the receipt pending and the message to be retried.
Emit ==
    /\ sel.at = "emit"
    /\ sel' = Left
    /\ MarkTerminal
    /\ LET run == sel.run
           pending == [run EXCEPT !.receipt = "pending"] IN
       \/ /\ ~Healthy(run) \/ run.receipt = "delivered"
          /\ msgs' = msgs \ {sel.msg}
          /\ NoFault /\ UNCHANGED <<file, ledger>>
       \/ /\ Healthy(run) /\ run.receipt # "delivered"
          /\ \/ /\ Confirmed(run)
                /\ ledger' = Delivered(run)
                /\ file' = [run EXCEPT !.receipt = "delivered"]
                /\ \/ NoFault /\ msgs' = msgs \ {sel.msg}
                   \/ Fault /\ UNCHANGED msgs
             \/ /\ Fault
                /\ ledger' \in {ledger, Delivered(run)}
                /\ file' = pending
                /\ UNCHANGED msgs
             \/ /\ ~Confirmed(run) /\ NoFault
                /\ file' = pending
                /\ msgs' \in {msgs, msgs \ {sel.msg}}
                /\ UNCHANGED ledger
    /\ UNCHANGED <<world, rec, redo, counters, exhausted, shows, cleared>>

\* projectFailed, of the run as it is stored: once the failure is shown, the
\* watchdog has nothing left to do.  The message is retried, or, when it is
\* refused every time, dropped in the end.
ProjectFailed ==
    /\ sel.at \in {"failed", "refused"}
    /\ \/ /\ NoFault
          /\ file' = [file EXCEPT !.unshown = FALSE, !.shown = "failed", !.life.projected = TRUE]
          /\ MarkTerminal
       \/ /\ Fault
          /\ file' = [file EXCEPT !.unshown = TRUE, !.shown = "none"]
          /\ active' = (active /\ file.phase # "completed" /\ ~file.life.projected)
    /\ msgs' \in IF sel.at = "refused" THEN {msgs, msgs \ {sel.msg}} ELSE {msgs}
    /\ sel' = Left
    /\ UNCHANGED <<world, ledger, rec, redo, counters, exhausted, shows, cleared>>

\* The worker dies, or throws outside the stages: the message is redelivered.
\* An effect under way may have happened without its checkpoint.
SelectionDies ==
    /\ sel.at # "idle"
    /\ Fault
    /\ sel' = Left
    /\ world' \in {world} \cup
         (CASE sel.at = "github" -> {Has("github", sel.run.rev)}
            [] sel.at = "share" -> {Has("shared", sel.run.rev)}
            [] sel.at = "create" -> {Has("task", sel.run.rev)}
            [] OTHER -> {})
    /\ UNCHANGED <<file, ledger, msgs, rec, redo, active, counters, exhausted, shows, cleared>>

-----------------------------------------------------------------------------
(* The watchdog: recoverStaleMeetingMinutesRun at the run's deadline *)

\* Mutant: a claim does not count.
JudgedUnclaimed(run) ==
    run.phase = "completed" \/ run.life.projected \/ run.life.attempted

Judged(run) ==
    \/ run.phase = "completed"
    \/ run.life.projected \/ run.life.claimed
    \/ (run.life.attempted /\ run.life.outcome)

RecoveryBegins ==
    /\ Alone /\ rec.at = "idle"
    /\ \E m \in msgs :
        /\ m.kind = "recovery"
        /\ \/ /\ file.life.action # m.action            \* superseded
              /\ msgs' = msgs \ {m}
              /\ UNCHANGED <<file, rec, active>>
           \/ /\ file.life.action = m.action /\ Judged(file)
              /\ msgs' = msgs \ {m}
              /\ MarkTerminal
              /\ UNCHANGED <<file, rec>>
           \/ /\ file.life.action = m.action /\ ~Judged(file)
              /\ file' = [file EXCEPT !.phase = "failed", !.life.claimed = TRUE]
              /\ rec' = [at |-> "project", msg |-> m, run |-> file']
              /\ UNCHANGED <<msgs, active>>
    /\ UNCHANGED <<world, ledger, sel, redo, counters, faults, exhausted, shows, cleared>>

\* Slack shows the failure; if that fails, the attempt is saved, the one-shot
\* fallback is tried and its outcome saved.
RecoveryProjects ==
    /\ rec.at = "project"
    /\ rec' = Left
    /\ shows' = shows + 1
    /\ \/ /\ NoFault
          /\ file' = [rec.run EXCEPT !.life.projected = TRUE]
          /\ msgs' = msgs \ {rec.msg}
          /\ MarkTerminal
       \/ /\ Fault
          /\ \E told, saved \in BOOLEAN :
                file' = [rec.run EXCEPT !.unshown = TRUE, !.life.attempted = TRUE,
                                        !.life.projected = told /\ saved, !.life.outcome = saved]
          /\ UNCHANGED <<msgs, active>>
    /\ UNCHANGED <<world, ledger, sel, redo, counters, exhausted, cleared>>

RecoveryDies ==
    /\ rec.at # "idle"
    /\ Fault
    /\ rec' = Left
    /\ shows' \in {shows, shows + 1}
    /\ UNCHANGED <<file, world, ledger, msgs, sel, redo, active, counters, exhausted, cleared>>

-----------------------------------------------------------------------------
(* The redo: redoMeetingMinutesRun *)

\* Mutant: the fence looks at the wrong side.
SupersededLater(run, m) == m.rev > run.rev

\* The revision fence of the button.
Superseded(run, m) == m.rev # run.rev

Redoable(run) ==
    /\ run.phase = "completed" \/ (run.phase = "failed" /\ run.bad)
    /\ run.dest /\ run.github

\* Mutant: only registered tasks are looked at.
RedoStepUnrecovered(run) ==
    CASE "github" \notin run.undone -> "github"
      [] run.task = "registered" /\ "task" \notin run.undone -> "task"
      [] run.shared /\ "shared" \notin run.undone -> "shared"
      [] OTHER -> "show"

RedoStep(run) ==
    CASE run.task = "pending" -> "recover"
      [] "github" \notin run.undone -> "github"
      [] run.task = "registered" /\ "task" \notin run.undone -> "task"
      [] run.shared /\ "shared" \notin run.undone -> "shared"
      [] OTHER -> "show"

Opened(run) == IF run.opened THEN run ELSE [run EXCEPT !.opened = TRUE, !.undone = {}]

RedoBegins ==
    /\ Alone /\ redo.at = "idle"
    /\ \E m \in msgs :
        /\ m.kind = "redo"
        /\ \/ /\ Superseded(file, m) \/ ~Redoable(file)
              /\ msgs' = msgs \ {m}
              /\ UNCHANGED <<file, redo>>
           \/ /\ ~Superseded(file, m) /\ Redoable(file)
              /\ file' = Opened(file)
              /\ redo' = [at |-> RedoStep(file'), msg |-> m, run |-> file']
              /\ UNCHANGED msgs
    /\ UNCHANGED <<world, ledger, sel, rec, active, counters, faults, exhausted, shows, cleared>>

\* A step of the redo with its checkpoint; a failure is saved on the run, and
\* like a crash leaves the command to be redelivered.
RedoFails(effects) ==
    /\ Fault
    /\ world' \in {world, effects}
    /\ redo' = Left
    /\ file' \in {file, redo.run}
    /\ UNCHANGED cleared

Undo(at, effects) ==
    /\ redo.at = at
    /\ \/ /\ NoFault
          /\ world' = effects
          /\ file' = [redo.run EXCEPT !.undone = @ \cup {at}]
          /\ redo' = [redo EXCEPT !.at = RedoStep(file'), !.run = file']
          /\ UNCHANGED cleared
       \/ RedoFails(effects)
    /\ UNCHANGED <<ledger, msgs, sel, rec, active, counters, exhausted, shows>>

DeleteGitHub == Undo("github", Lacks("github", redo.run.rev))
DeleteTask == Undo("task", Lacks("task", redo.run.rev))
Retract == Undo("shared", Lacks("shared", redo.run.rev))

\* A task whose creation is unknown is created again under its own key, so that
\* it can be deleted.  The marker is dropped only when both attempts were turned
\* away before any mutation.
Recover ==
    /\ redo.at = "recover"
    /\ \/ /\ NoFault
          /\ world' = Has("task", redo.run.rev)
          /\ file' = [redo.run EXCEPT !.task = "registered"]
          /\ redo' = [redo EXCEPT !.at = RedoStep(file'), !.run = file']
          /\ UNCHANGED cleared
       \/ /\ Fault
          /\ redo.run.trouble = "not_ready"
          /\ file' = [redo.run EXCEPT !.task = "none"]
          /\ redo' = [redo EXCEPT !.at = RedoStep(file'), !.run = file']
          /\ cleared' = cleared \cup {redo.run.rev}
          /\ UNCHANGED world
       \/ RedoFails(Has("task", redo.run.rev))
    /\ UNCHANGED <<ledger, msgs, sel, rec, active, counters, exhausted, shows>>

\* The run of the next revision awaits a destination.
NextRevision(run) ==
    [run EXCEPT !.rev = @ + 1, !.phase = "awaiting", !.dest = FALSE, !.github = FALSE,
                !.shared = FALSE, !.bad = FALSE, !.task = "none", !.trouble = "none",
                !.undone = {}, !.opened = FALSE, !.shown = "none", !.receipt = "none"]

Reopen ==
    /\ redo.at = "show"
    /\ \/ /\ file' = NextRevision(redo.run)
          /\ \/ NoFault /\ msgs' = msgs \ {redo.msg}
             \/ Fault /\ UNCHANGED msgs
          /\ redo' = Left
          /\ UNCHANGED <<world, cleared>>
       \/ RedoFails(world) /\ UNCHANGED msgs
    /\ UNCHANGED <<ledger, sel, rec, active, counters, exhausted, shows>>

-----------------------------------------------------------------------------

Selection ==
    SelectionBegins \/ MarkActive \/ SendRecovery \/ Resume \/ Prepare \/ SaveGitHub
    \/ Share \/ MarkTask \/ CreateTask \/ Publish \/ ProjectCompleted \/ Emit \/ ProjectFailed
Recovery == RecoveryBegins \/ RecoveryProjects
Redo == RedoBegins \/ Recover \/ DeleteGitHub \/ DeleteTask \/ Retract \/ Reopen

Next ==
    \/ Select \/ PressRedo \/ RetryReceipt \/ Exhaust
    \/ Selection \/ SelectionDies
    \/ Recovery \/ RecoveryDies
    \/ Redo

\* The queue redelivers what was not acknowledged, each message in its turn, and
\* the worker runs; users and faults are free.
Spec == Init /\ [][Next]_vars
Fairness ==
    /\ WF_vars(Selection) /\ WF_vars(RecoveryProjects) /\ WF_vars(Redo)
    /\ \A a \in Actions : SF_vars(SelectionBegins /\ sel'.msg.action = a)
    /\ SF_vars(RecoveryBegins) /\ SF_vars(RedoBegins)
FairSpec == Spec /\ Fairness

-----------------------------------------------------------------------------
(* Properties *)

\* The watchdog shows the failure of one lifecycle at most once, however often its
\* message is redelivered and wherever it dies: its claim is stored first.
RecoveryShowsOnce == shows <= 1

\* When a new revision is open, nothing of an earlier one is left behind, but a
\* task whose marker was dropped after Brainbase turned both attempts away.
NothingIsLeftBehind ==
    \A r \in 0 .. file.rev - 1 :
        /\ r \notin world.github \cup world.shared
        /\ r \in world.task => r \in cleared

\* What a revision published is taken back only for a button of that revision:
\* an old button, delivered or redelivered after a redo, is inert.
OldButtonIsInert ==
    [][\A k \in Undoings : \A r \in world[k] \ world'[k] : redo.msg.rev = r]_vars

\* A receipt is delivered for a run that is shown completed, whose task is
\* registered, whose outcome case Brainbase links, and whose record is on GitHub
\* unless a redo has begun to take the revision back.
Cited(run) ==
    /\ run.shown = "completed" /\ run.trouble = "none" /\ run.task # "pending"
    /\ run.rev \in world.github \/ run.opened
Linked(run) ==
    run.case # 0 => [rev |-> run.rev, rrev |-> run.rrev, case |-> run.case] \in ledger
Delivers == file.receipt # "delivered" /\ file'.receipt = "delivered"
DeliveredIsTrue == [][Delivers => (Cited(file) \/ Cited(sel.run)) /\ Linked(file)']_vars

\* A started run is judged: completed, failed or open again.  A selection that
\* is out of queue attempts leaves it to the watchdog, which has nothing to do
\* once the action's first failure was shown.
EventuallyJudged ==
    file.phase = "running" ~>
        (file.phase # "running" \/ (exhausted /\ Unarmed(file)))

\* The deployment gate does not count a run for ever.
EventuallyReleased == active ~> (~active \/ exhausted)

\* A recovery shows its notice once, and a run that is over or redone leaves
\* nothing of its earlier attempt behind.
MinutesAreWhole == TypeOK /\ RecoveryShowsOnce /\ NothingIsLeftBehind

\* A button of an earlier revision changes nothing, a receipt that is delivered
\* is true, and every run is judged and its claim released in the end.
MinutesGoForward == OldButtonIsInert /\ DeliveredIsTrue /\ EventuallyJudged /\ EventuallyReleased

=============================================================================
