------------------------------ MODULE TasksMC -------------------------------
(***************************************************************************)
(* The task writes, the task board, the tool gateway and what the thread   *)
(* of a recording shows, side by side: part chooses the one that moves,    *)
(* the others rest in an initial state.                                    *)
(* Two requests of one write, for an experiment of one write; two payloads *)
(* and two overlapping calls; four policies deployed in turn.  Two         *)
(* overlapping repairs.  Two tool calls of four kinds of turns.  Two       *)
(* operations, two troubles and one redo of a run; every short history     *)
(* of up to three pages, with up to two messages at the timestamp.  A      *)
(* message of two files, delivered three times, and two requests for it.   *)
(* A mention that registers up to two tasks, delivered three times.  Two   *)
(* clicks on the cards of two tasks, with one change by somebody else.     *)
(***************************************************************************)
EXTENDS Naturals, FiniteSets, Sequences

VARIABLES part,
  service, version, expired, slot, receipt, approvals, calls, writes, arrived, faults,
  tasks, changed, binding, leased, canvas, board, jobs, repairs, troubles,
  turn, live, moved, mind, writeCalls, asks, delivery, account, posted, effects, upsets,
  file, redoing, op, claims, held, msgs, spent,
  history, asked, late, attempt,
  source, gate, mail, worker, event, run, effect, questions, forgotten, notices, answers, mishaps,
  enabled, state, created, reports, completion, delivered, begun, abandoned, unkept, failures,
  codes, standing, minutes, store, card, repaired, click, told, hushed, busy, others, lapses

writesVars == <<service, version, expired, slot, receipt, approvals, calls, writes, arrived, faults>>
taskBoardVars == <<tasks, changed, binding, leased, canvas, board, jobs, repairs, troubles>>
gatewayVars == <<turn, live, moved, mind, writeCalls, asks, delivery, account, posted, effects, upsets>>
statusVars == <<file, redoing, op, claims, held, msgs, spent>>
readbackVars == <<history, asked, late, attempt>>
intakeVars == <<source, gate, mail, worker, event, run, effect, questions, forgotten, notices, answers, mishaps>>
taskVars == <<writesVars, taskBoardVars, gatewayVars>>
minutesVars == <<statusVars, readbackVars, intakeVars>>
meetingVars == <<enabled, state, created, reports, completion, delivered, begun, abandoned, unkept, failures>>
cardsVars == <<codes, standing, minutes, store, card, repaired, click, told, hushed, busy, others, lapses>>
restVars == <<meetingVars, cardsVars>>

Auto == [effect |-> "auto", weight |-> 2]
Approval == [effect |-> "approval", weight |-> 3]
Deny == [effect |-> "deny", weight |-> 1]

Writes == INSTANCE TaskWrites WITH
  Requests <- {"r1", "r2"}, Payloads <- {"p1", "p2"}, Handlers <- {1, 2},
  Bodies <- {<<<<"r1", 1>>, "p1">>, <<<<"r1", 1>>, "p2">>, <<<<"r2", 1>>, "p1">>},
  Budget <- 1, MaxWrites <- 1, Policies <- <<{Auto, Approval, Deny}, {Auto, Approval}, {Auto, Approval}, {Auto}>>,
  MaxCalls <- 3, MaxFaults <- 1
Board == INSTANCE TaskBoard WITH
  Repairs <- {1, 2}, MaxJobs <- 2, MaxChanges <- 2, MaxTroubles <- 2
Turn(a, d, f, s) == [authority |-> a, dm |-> d, freee |-> f, scoped |-> s]
Plain == Turn(FALSE, FALSE, FALSE, TRUE)
Gateway == INSTANCE ToolGateway WITH Asks <- {1, 2}, Texts <- {"x", "y"}, MaxUpsets <- 2,
  Turns <- {Plain, Turn(FALSE, TRUE, TRUE, TRUE), Turn(TRUE, FALSE, TRUE, FALSE), Turn(TRUE, TRUE, FALSE, TRUE)}

Status == INSTANCE MinutesStatus WITH MaxOps <- 2, MaxTroubles <- 2, MaxRev <- 1
M(at, ours, thread, text) == [at |-> at, ours |-> ours, thread |-> thread, text |-> text]
Exact == {M(TRUE, TRUE, "absent", "same"), M(TRUE, TRUE, "asked", "same")}
Alphabet == Exact \cup {M(TRUE, TRUE, "asked", "edited"), M(TRUE, FALSE, "absent", "same"),
                        M(FALSE, TRUE, "absent", "same")}
Short == {<<>>} \cup {<<m>> : m \in Alphabet}
Histories == [pages : {<<p>> : p \in Short \cup {<<m, n>> : m \in Alphabet, n \in Exact}}
                      \cup {<<p, q>> : p \in Short, q \in Short} \cup {<<p, <<>>, r>> : p \in Short, r \in Short},
              ends : {"whole", "loop", "more"}]
Readback == INSTANCE DeliveryReadback WITH MaxPages <- 2, Histories <- Histories
Intake == INSTANCE MinutesIntake WITH
  Files <- {1, 2}, Requests <- {"a", "b"}, MaxTries <- 3, MaxFaults <- 2, asked <- questions, faults <- mishaps
Meeting == INSTANCE MeetingTasks WITH
  Outputs <- {<<"a", "b">>, <<"b", "a">>, <<"">>, <<"a", "b", "c">>}, MaxTasks <- 2, MaxTries <- 3, MaxFaults <- 2,
  file <- state, store <- created, thread <- reports, worker <- delivered, started <- begun, forgotten <- unkept, faults <- failures
Cards == INSTANCE MinutesTaskCards WITH Items <- {1, 2}, Clicks <- {1, 2}, MaxChanges <- 1, MaxFaults <- 1,
  file <- minutes, board <- repaired, changes <- others, faults <- lapses

Init ==
  /\ Writes!Init /\ Board!Init /\ Gateway!Init /\ Status!Init /\ Intake!Init
  /\ Meeting!Init /\ Cards!Init
  /\ part \in {"writes", "board", "gateway", "status", "readback", "intake", "meeting", "cards"}
  /\ part # "meeting" => enabled
  /\ part # "writes" => service = TRUE /\ version = 1
  /\ part # "board" => canvas = TRUE
  /\ part # "gateway" => turn = Plain
  /\ part # "intake" => source = "person"
  /\ IF part = "readback" THEN Readback!Init
     ELSE history = "none" /\ asked = "none" /\ late = FALSE /\ attempt = Readback!Valid
Next ==
  \/ part = "writes" /\ Writes!Next /\ UNCHANGED <<part, taskBoardVars, gatewayVars, minutesVars, restVars>>
  \/ part = "board" /\ Board!Next /\ UNCHANGED <<part, writesVars, gatewayVars, minutesVars, restVars>>
  \/ part = "gateway" /\ Gateway!Next /\ UNCHANGED <<part, writesVars, taskBoardVars, minutesVars, restVars>>
  \/ part = "status" /\ Status!Next /\ UNCHANGED <<part, taskVars, readbackVars, intakeVars, restVars>>
  \/ part = "readback" /\ Readback!Next /\ UNCHANGED <<part, taskVars, statusVars, intakeVars, restVars>>
  \/ part = "intake" /\ Intake!Next /\ UNCHANGED <<part, taskVars, statusVars, readbackVars, restVars>>
  \/ part = "meeting" /\ Meeting!Next /\ UNCHANGED <<part, taskVars, minutesVars, cardsVars>>
  \/ part = "cards" /\ Cards!Next /\ UNCHANGED <<part, taskVars, minutesVars, meetingVars>>
Spec == /\ Init /\ [][Next]_<<part, taskVars, minutesVars, restVars>>
        /\ (part = "board" => Board!Fairness)
-----------------------------------------------------------------------------
\* TaskWrites: one write of the task store per slot, within the budgets of its
\* request and its experiment, approved as it was made, by an approval that one
\* call passes; and an answer with the task is true.
\* MeetingTasks: the tasks created are those of one list, the thread is told of
\* none that does not exist, in one message, and of all once the event is over.
WritesAreCovered ==
  /\ Writes!TypeOK /\ Writes!WrittenOnce /\ Writes!WithinBudget
  /\ Writes!ApprovedAsWritten /\ Writes!ApprovedOnce /\ Writes!DoneIsWritten
  /\ Meeting!TypeOK /\ Meeting!TasksAreOfTheList /\ Meeting!ToldIsRegistered
  /\ Meeting!CompletedIsTold /\ Meeting!ToldOnce

\* ToolGateway: a message reported as sent is in the thread, one message is
\* posted per effect id, providers do what the turn is entitled to, and pages
\* and catalogs are filtered.
AgentIsConfined ==
  /\ Gateway!TypeOK /\ Gateway!SendReportedIsPosted /\ Gateway!PostedOncePerId
  /\ Gateway!EntitledOnly /\ Gateway!SeenIsAllowed

\* MinutesStatus: a run shown as completed is in its thread, a failed one has a
\* way on, and no card is ended as a selector.  DeliveryReadback: a message
\* confirmed is in the history once, and one called missing is not.  MinutesIntake:
\* a run is asked about once, every file of a message, and known when it was asked.
\* MinutesTaskCards: a removed task is gone, the card agrees with the run and the
\* task store, and the operator is told of a click that failed.
MinutesAreShown ==
  /\ Status!TypeOK /\ Status!CompletedIsShown /\ Status!FailedHasAWayOn /\ Status!CardIsNotClosed
  /\ Intake!TypeOK /\ Intake!AskedOnce /\ Intake!MessageIsWhole /\ Intake!KnownIsThere
  /\ Cards!TypeOK /\ Cards!RemovedIsGone /\ Cards!CardIsTheRun /\ Cards!FailureIsTold
  /\ part = "readback" => Readback!TypeOK /\ Readback!ConfirmedIsThere /\ Readback!MissingIsMissing

\* TaskBoard: one repair creates the canvas, only a bound canvas is written to,
\* and the board shows the tasks in the end.  MinutesTaskCards: no click touches a
\* task of other projects, or anything for another deployment.
BoardIsOneAndFresh ==
  /\ [](Board!TypeOK /\ Board!OneCreator /\ Board!PublishedIsBound)
  /\ Cards!OthersAreLeftAlone
  /\ (part = "board") => Board!EventuallyFresh
=============================================================================
