-------------------------- MODULE SlackInteraction --------------------------
(***************************************************************************)
(* The buttons of the minutes in Slack (slack-interactions.ts): a selector *)
(* of workspaces, projects and destinations that is one message, shared by *)
(* whoever clicks on it, the private replies to a redo, and the buttons of *)
(* task cards and approvals.  A click on the minutes is acknowledged       *)
(* first; the rest runs in the Worker's waitUntil, so the work of several  *)
(* clicks overlaps and a Worker that stops leaves it undone.               *)
(*                                                                         *)
(* Slack and the queue are external: an update of a message may fail, or   *)
(* arrive and be reported as failed (the deadline of the update is         *)
(* shorter than Slack's work).  What a command does is MeetingMinutes'.    *)
(***************************************************************************)
EXTENDS Naturals, FiniteSets

CONSTANTS
  Clicks,      \* positive numbers: the clicks, in the order they are made
  MaxToggles,  \* bound: times an operator pauses or resumes the intake
  MaxSlips     \* bound: failed updates, refusals and deaths

VARIABLES
  clicks,    \* Clicks -> the click and how far its work is
  screen,    \* what the selector shows, and the click that made it show that
  commands,  \* the clicks whose command is in the queue
  pause, toggles, slips

interactionVars == <<clicks, screen, commands, pause, toggles, slips>>

Kinds == {"navigate", "choose", "redo", "confirm", "act"}
Private == {"redo", "confirm"}     \* answered to the person who clicked alone
Nobody == 0
Unmade == [kind |-> "navigate", on |-> Nobody, pc |-> "idle", menu |-> FALSE, failed |-> FALSE,
           open |-> FALSE, left |-> 0, then |-> "done", told |-> FALSE, fate |-> "none"]

Init ==
  /\ clicks = [c \in Clicks |-> Unmade]
  /\ screen = [by |-> Nobody, shows |-> "menu"]
  /\ commands = {} /\ pause \in BOOLEAN /\ toggles = 0 /\ slips = 0

At(c, pc) == clicks[c].pc = pc
Is(c, kinds) == clicks[c].kind \in kinds
Slip == slips < MaxSlips /\ slips' = slips + 1
Became(c, r) == clicks' = [clicks EXCEPT ![c] = r]
To(c, pc) == Became(c, [clicks[c] EXCEPT !.pc = pc])

Toggle ==
  /\ toggles < MaxToggles /\ toggles' = toggles + 1
  /\ pause' = ~pause
  /\ clicks' = [c \in Clicks |-> [clicks[c] EXCEPT !.open = @ \/ pause]]
  /\ UNCHANGED <<screen, commands, slips>>

\* signed, well-formed, by an operator; a confirmation is on the private reply to a redo
Click(c) ==
  /\ At(c, "idle") /\ \A b \in Clicks : b < c => ~At(b, "idle")
  /\ \E kind \in Kinds :
       /\ kind \in {"navigate", "choose"} => screen.shows = "menu"
       /\ kind = "confirm" => \E b \in Clicks : b < c /\ Is(b, {"redo"}) /\ clicks[b].told
       /\ Became(c, [Unmade EXCEPT !.kind = kind, !.on = screen.by, !.open = ~pause,
                                   !.pc = IF kind \in {"navigate", "choose"} THEN "receipt" ELSE "resolve"])
  /\ UNCHANGED <<screen, commands, pause, toggles, slips>>

-----------------------------------------------------------------------------
(* An update: shown, shown and reported as failed, or not shown.           *)

\* mutant: the answer to a redo takes the place of the status
PaintShared(c, what, ok, failed) ==
  \/ screen' = [by |-> c, shows |-> what] /\ Became(c, ok) /\ UNCHANGED slips
  \/ /\ Slip /\ Became(c, failed)
     /\ screen' = screen \/ screen' = [by |-> c, shows |-> what]
\* a private answer leaves the shared message alone
Paint(c, what, ok, failed) ==
  LET painted == IF Is(c, Private \cup {"act"}) THEN screen ELSE [by |-> c, shows |-> what] IN
  \/ screen' = painted /\ Became(c, ok) /\ UNCHANGED slips
  \/ Slip /\ Became(c, failed) /\ screen' \in {screen, painted}

\* a failure is told in at most so many attempts, then the work goes on
ToTell(r, attempts, next) == [r EXCEPT !.pc = "tell", !.left = attempts, !.then = next, !.told = FALSE]
Tell(c) ==
  /\ At(c, "tell")
  /\ LET r == clicks[c] IN
     Paint(c, "notice", [r EXCEPT !.pc = r.then, !.told = TRUE],
           IF r.left > 1 THEN [r EXCEPT !.left = @ - 1] ELSE [r EXCEPT !.pc = r.then, !.fate = "untold"])
  /\ UNCHANGED <<commands, pause, toggles>>

-----------------------------------------------------------------------------
(* The work of a click.                                                    *)

\* the next menu, or that a start is being prepared, before the tenant is known
Receipt(c) ==
  /\ At(c, "receipt")
  /\ Paint(c, IF Is(c, {"navigate"}) THEN "menu" ELSE "progress",
           [clicks[c] EXCEPT !.pc = "resolve", !.menu = Is(c, {"navigate"})],
           [clicks[c] EXCEPT !.pc = "resolve"])
  /\ UNCHANGED <<commands, pause, toggles>>

\* a failure is told to a tenant that may be told; the others get no answer
Resolve(c) ==
  /\ At(c, "resolve")
  /\ \/ To(c, "project") /\ UNCHANGED slips
     \/ Slip /\ \/ ~Is(c, {"act"}) /\ Became(c, ToTell(clicks[c], 1, "done"))
                \/ Became(c, [clicks[c] EXCEPT !.pc = "done", !.fate = "unowned"])
  /\ UNCHANGED <<screen, commands, pause, toggles>>

\* the chosen destination, or that a menu is being opened when none was delivered
Project(c) ==
  /\ At(c, "project")
  /\ LET next == [clicks[c] EXCEPT !.pc = IF Is(c, {"act"}) THEN "act" ELSE "gate"] IN
     IF Is(c, {"choose"}) THEN Paint(c, "confirmed", next, [next EXCEPT !.failed = TRUE])
     ELSE IF Is(c, {"navigate"}) /\ ~clicks[c].menu THEN Paint(c, "pending", next, next)
     ELSE Became(c, next) /\ UNCHANGED <<screen, slips>>
  /\ UNCHANGED <<commands, pause, toggles>>

\* a task card's button, an approval, a decision on a contract
Act(c) ==
  /\ At(c, "act")
  /\ \/ To(c, "done") /\ UNCHANGED slips
     \/ Slip /\ Became(c, ToTell(clicks[c], 1, "done"))
  /\ UNCHANGED <<screen, commands, pause, toggles>>

\* mutant: a paused intake stops the redos only
GateRedo(c) ==
  /\ At(c, "gate")
  /\ \/ Is(c, Private) /\ pause /\ Became(c, ToTell(clicks[c], 2, "done")) /\ UNCHANGED slips
     \/ ~(Is(c, Private) /\ pause) /\ To(c, "work") /\ UNCHANGED slips
     \/ Slip /\ Became(c, ToTell(clicks[c], 1, "done"))
  /\ UNCHANGED <<screen, commands, pause, toggles>>
Gate(c) ==
  /\ At(c, "gate")
  /\ \/ pause /\ Became(c, ToTell(clicks[c], 2, "done")) /\ UNCHANGED slips
     \/ ~pause /\ To(c, "work") /\ UNCHANGED slips
     \/ Slip /\ Became(c, ToTell(clicks[c], 1, "done"))
  /\ UNCHANGED <<screen, commands, pause, toggles>>

\* mutant: the menu is projected whether or not it was delivered
MenuTwice(c) ==
  /\ At(c, "work") /\ Is(c, {"navigate"})
  /\ Paint(c, "menu", [clicks[c] EXCEPT !.pc = "done"], ToTell(clicks[c], 1, "done"))
  /\ UNCHANGED <<commands, pause, toggles>>
Menu(c) ==
  /\ At(c, "work") /\ Is(c, {"navigate"})
  /\ IF clicks[c].menu THEN To(c, "done") /\ UNCHANGED <<screen, slips>>
     ELSE Paint(c, "menu", [clicks[c] EXCEPT !.pc = "done"], ToTell(clicks[c], 1, "done"))
  /\ UNCHANGED <<commands, pause, toggles>>

\* a redo is asked about; a confirmed one is said to be processed, then sent
Answer(c) ==
  /\ At(c, "work") /\ Is(c, Private)
  /\ IF Is(c, {"redo"})
     THEN Paint(c, "question", [clicks[c] EXCEPT !.pc = "done", !.told = TRUE], ToTell(clicks[c], 1, "done"))
     ELSE Paint(c, "processing", [clicks[c] EXCEPT !.pc = "send"],
                [clicks[c] EXCEPT !.pc = "send", !.failed = TRUE])
  /\ UNCHANGED <<commands, pause, toggles>>

\* the thread's status is shown, where the thread is known; a confirmation that
\* was not shown is made good before the command is sent
Show(c) ==
  /\ At(c, "work") /\ Is(c, {"choose"})
  /\ \/ /\ IF clicks[c].failed THEN Became(c, ToTell(clicks[c], 1, "send")) ELSE To(c, "send")
     \/ Became(c, ToTell(clicks[c], 1, "done"))
  /\ UNCHANGED <<screen, commands, pause, toggles, slips>>

\* the tenant resolved again, the recovery of a choice authorised, the command sent
Enqueue(c) == commands' = commands \cup {c}

\* mutant: a command the queue refused is dropped
SendOrDrop(c) ==
  /\ At(c, "send")
  /\ \/ /\ Enqueue(c) /\ UNCHANGED slips
        /\ IF Is(c, {"confirm"}) /\ clicks[c].failed THEN Became(c, ToTell(clicks[c], 1, "done")) ELSE To(c, "done")
     \/ Slip /\ UNCHANGED commands /\ To(c, "done")
  /\ UNCHANGED <<screen, pause, toggles>>
\* a refusal is told, also when it is the queue's answer that was lost
Send(c) ==
  /\ At(c, "send")
  /\ \/ /\ Enqueue(c) /\ UNCHANGED slips
        /\ IF Is(c, {"confirm"}) /\ clicks[c].failed THEN Became(c, ToTell(clicks[c], 1, "done")) ELSE To(c, "done")
     \/ /\ Slip /\ (Enqueue(c) \/ UNCHANGED commands)
        /\ Became(c, ToTell(clicks[c], 2, "done"))
  /\ UNCHANGED <<screen, pause, toggles>>

Die(c) ==
  /\ clicks[c].pc \notin {"idle", "done"} /\ Slip
  /\ Became(c, [clicks[c] EXCEPT !.pc = "done", !.fate = "died"])
  /\ UNCHANGED <<screen, commands, pause, toggles>>

-----------------------------------------------------------------------------
\* mutant: a click waits for the intake to be resumed
WorkWhileOpen(c) ==
  \/ Receipt(c) \/ Resolve(c) \/ Project(c) \/ Act(c) \/ (~pause /\ Gate(c))
  \/ Menu(c) \/ Answer(c) \/ Show(c) \/ Send(c) \/ Tell(c)
Work(c) ==
  \/ Receipt(c) \/ Resolve(c) \/ Project(c) \/ Act(c) \/ Gate(c)
  \/ Menu(c) \/ Answer(c) \/ Show(c) \/ Send(c) \/ Tell(c)
Next == Toggle \/ \E c \in Clicks : Click(c) \/ Work(c) \/ Die(c)
Fairness == \A c \in Clicks : WF_interactionVars(Work(c))
Spec == Init /\ [][Next]_interactionVars /\ Fairness

-----------------------------------------------------------------------------
TypeOK ==
  /\ clicks \in [Clicks ->
       [kind : Kinds, on : Clicks \cup {Nobody}, menu : BOOLEAN, failed : BOOLEAN, open : BOOLEAN, left : 0..2,
        pc : {"idle", "receipt", "resolve", "project", "act", "gate", "work", "send", "tell", "done"},
        then : {"send", "done"}, told : BOOLEAN, fate : {"none", "untold", "unowned", "died"}]]
  /\ screen \in [by : Clicks \cup {Nobody}, shows : {"menu", "progress", "pending", "confirmed", "notice"}]
  /\ commands \subseteq Clicks /\ pause \in BOOLEAN /\ toggles \in 0..MaxToggles /\ slips \in 0..MaxSlips

\* The selector, which shows the state of the run, is never replaced by the
\* answer to a redo, on no path of it ("a stale button cannot overwrite the
\* current generation's message", ephemeralRedoMessage).
RedoKeepsStatus == screen.by # Nobody => Is(screen.by, {"navigate", "choose"})

\* A choice made on a menu is not hidden by the rest of the work of the click
\* that opened that menu, unless that has a failure to tell (immediateNavigationDelivered).
\* A menu that Slack shows and reports as failed is outside this.
ChoiceStaysVisible ==
  [][\A a, b \in Clicks :
       screen.by = b /\ clicks[b].on = a /\ clicks[a].menu /\ screen' # screen /\ screen'.by = a
         => screen'.shows = "notice"]_interactionVars

\* The work on a choice or a confirmed redo ends with the command in the queue,
\* or with the person told that it is not; silent are a tenant that was not
\* established, updates that all failed, and a Worker that stopped (handleMeetingMinutesInteraction).
ChoiceIsAnswered ==
  \A c \in Clicks :
    At(c, "done") /\ Is(c, {"choose", "confirm"}) =>
      c \in commands \/ clicks[c].told \/ clicks[c].fate # "none"

\* While the intake is paused nothing is queued for a click made since (isIntakePaused).
PausedIsNotQueued == \A c \in commands : clicks[c].open

\* The work of every click ends, and with it the lifetime the Worker was asked to wait for.
ClickIsFinished == \A c \in Clicks : ~At(c, "idle") ~> At(c, "done")
=============================================================================
