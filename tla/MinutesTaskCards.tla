-------------------------- MODULE MinutesTaskCards --------------------------
(***************************************************************************)
(* The buttons under the tasks of a recording: edit and cancel.  A click   *)
(* is answered at once; what it asks for is deferred: read the task, check *)
(* that it still belongs to the projects of the run, write it at the       *)
(* version read, save the run, redraw the card, repair the board.  Each of *)
(* these effects has a tenant context of its own, issued when it is due.   *)
(* The run is a file written without a condition, so clicks that overlap   *)
(* work on copies of it.  The task store is changed by others, too, and    *)
(* the projects of a destination are configuration.                        *)
(***************************************************************************)
EXTENDS Naturals

CONSTANTS
  Items,       \* the tasks of the run
  Clicks,      \* presses of a button and submitted edit views
  MaxChanges,  \* changes by others: of a task, the configuration or the connection
  MaxFaults    \* calls that fail and answers that are lost

VARIABLES
  codes,       \* the task projects the configuration gives the destination
  standing,    \* what the authority knows of the workspace: its deployment or revoked
  file,        \* the run: [scope, item], what it says of its destination and its tasks
  store,       \* the task store: [exists, version, scope, title]
  card,        \* the message in Slack: what it shows of each task
  board,       \* the board was repaired after the last write
  click,       \* [kind, item, at, home, run, legacy, read]
  told,        \* clicks whose failure was shown to the operator
  hushed,      \* clicks whose failure could not be shown
  busy,        \* clicks that were at work at the same time as another
  changes, faults

vars == <<codes, standing, file, store, card, board, click, told, hushed, busy, changes, faults>>

\* the scopes: the projects the run was made under, those a later configuration
\* gives it, and those of somebody else
Scopes == {"old", "new", "else"}
Titles == {"made", "mine", "theirs"}
Deployments == {"d1", "d2"}
Runs == [scope : {"old", "new"}, item : [Items -> [removed : BOOLEAN, title : Titles, scope : Scopes]]]
Task == [exists : BOOLEAN, version : Nat, scope : Scopes, title : Titles]

Made == [scope |-> "old", item |-> [i \in Items |-> [removed |-> FALSE, title |-> "made", scope |-> "old"]]]
Unread == [exists |-> FALSE, version |-> 0, scope |-> "old", title |-> "made"]
NoClick == [kind |-> "none", item |-> CHOOSE i \in Items : TRUE, at |-> "none", home |-> "d1",
            run |-> Made, legacy |-> {}, read |-> Unread]
Shown(run) == [i \in Items |-> [removed |-> run.item[i].removed, title |-> run.item[i].title]]
Init ==
  /\ codes = "old" /\ standing = "d1" /\ file = Made
  /\ store = [i \in Items |-> [exists |-> TRUE, version |-> 1, scope |-> "old", title |-> "made"]]
  /\ card = Shown(Made) /\ board = TRUE
  /\ click = [c \in Clicks |-> NoClick]
  /\ told = {} /\ hushed = {} /\ busy = {} /\ changes = 0 /\ faults = 0
TypeOK ==
  /\ codes \in {"old", "new"} /\ standing \in Deployments \cup {"revoked"}
  /\ file \in Runs /\ store \in [Items -> Task] /\ board \in BOOLEAN
  /\ card \in [Items -> [removed : BOOLEAN, title : Titles]]
  /\ click \in [Clicks -> [kind : {"none", "open", "edit", "cancel"}, item : Items, home : Deployments, run : Runs,
       legacy : SUBSET Scopes, read : Task,
       at : {"none", "view", "reconcile", "read", "write", "save", "card", "board", "done", "report", "failed", "refused"}]]
  /\ told \subseteq Clicks /\ hushed \subseteq Clicks /\ busy \subseteq Clicks
  /\ changes \in 0 .. MaxChanges /\ faults \in 0 .. MaxFaults
-----------------------------------------------------------------------------
Fault == faults < MaxFaults /\ faults' = faults + 1
NoFault == UNCHANGED faults
Goto(c, at) == click' = [click EXCEPT ![c].at = at]
AtWork == {c \in Clicks : click[c].at \notin {"none", "done", "failed", "refused"}}
Bump(i, t) == store' = [store EXCEPT ![i] = [t EXCEPT !.version = @ + 1]]

\* resolveEffect: the context of an effect is issued when the effect is due and
\* must be of the tenant and the deployment the click was taken for.
ReachedOnce(c) == TRUE
Reached(c) == standing = click[c].home
\* an effect that is done, done with its answer lost, or not done
Done(c) == Reached(c) /\ NoFault
DoneUnanswered(c) == Reached(c) /\ Fault
NotDone(c) == \/ ~Reached(c) /\ NoFault
              \/ Fault

\* Somebody edits, moves or deletes a task; a deployment changes the projects of
\* the destination; the workspace is given to another deployment or revoked.
Elsewhere ==
  /\ changes < MaxChanges /\ changes' = changes + 1
  /\ \/ codes' = "new" /\ codes # "new" /\ UNCHANGED <<store, standing>>
     \/ standing' \in {"d2", "revoked"} /\ standing = "d1" /\ UNCHANGED <<codes, store>>
     \/ /\ UNCHANGED <<codes, standing>>
        /\ \E i \in Items : store[i].exists /\
             \/ Bump(i, [store[i] EXCEPT !.title = "theirs"])
             \/ Bump(i, [store[i] EXCEPT !.scope = "else"])
             \/ Bump(i, [store[i] EXCEPT !.exists = FALSE])
  /\ UNCHANGED <<file, card, board, click, told, hushed, busy, faults>>

\* trustedLegacyTaskScopes: the scopes the task may have had are those of its
\* entry before the run is reconciled with the configuration.
Legacy(run, i) == {run.item[i].scope}

\* The button of a task, or the edit view it opened.  Only an operator in the
\* destination's channel may press it (allowed), and only for a task that the
\* run, loaded for it, does not call removed (candidate).
Click(c, kind, i, who) ==
  /\ click[c].at = "none" /\ \A b \in Clicks : b < c => click[b].at # "none"
  /\ click' = [click EXCEPT ![c] =
       IF standing = "revoked" \/ who # "operator" \/ file.item[i].removed
       THEN [NoClick EXCEPT !.kind = kind, !.item = i, !.at = "refused"]
       ELSE [kind |-> kind, item |-> i, run |-> file, read |-> Unread, legacy |-> Legacy(file, i),
             home |-> standing, at |-> IF kind = "open" THEN "view" ELSE "reconcile"]]
  /\ busy' = IF AtWork = {} \/ c \notin AtWork' THEN busy ELSE busy \cup AtWork \cup {c}
  /\ UNCHANGED <<codes, standing, file, store, card, board, told, hushed, changes, faults>>

\* Editing opens a view, filled in from the button; nothing is read for it.
View(c) ==
  /\ click[c].at = "view"
  /\ \/ Goto(c, "done") /\ Done(c)
     \/ Goto(c, "report") /\ NotDone(c)
  /\ UNCHANGED <<codes, standing, file, store, card, board, told, hushed, busy, changes>>

\* reconcileTaskDestination: the run takes the projects of the configuration and
\* is saved before the click is answered; when that fails, so does the click,
\* which Slack shows.
Reconcile(c) ==
  /\ click[c].at = "reconcile"
  /\ \/ /\ click[c].run.scope = codes /\ Goto(c, "read")
        /\ NoFault /\ UNCHANGED <<file, told>>
     \/ /\ click[c].run.scope # codes /\ Done(c)
        /\ click' = [click EXCEPT ![c].at = "read", ![c].run.scope = codes]
        /\ file' = click'[c].run /\ UNCHANGED told
     \/ /\ click[c].run.scope # codes /\ NotDone(c)
        /\ Goto(c, "failed") /\ told' = told \cup {c} /\ UNCHANGED file
  /\ UNCHANGED <<codes, standing, store, card, board, hushed, busy, changes>>

\* Only a 404 says that a task is gone, not that it could not be read.
MissingAnyhow(answer) == answer \in {"gone", "error"}
Missing(answer) == answer = "gone"

\* sameTaskScope with the run's projects or one of the scopes it may have had.
OursAnyhow(c, t) == TRUE
Ours(c, t) == t.scope \in {click[c].run.scope} \cup click[c].legacy

\* getTask and what follows from its answer.
Read(c) ==
  /\ click[c].at = "read"
  /\ LET k == click[c]
         t == store[k.item]
         Answered(answer) ==
           IF Missing(answer) /\ k.kind = "cancel"
           THEN click' = [click EXCEPT ![c].at = "save", ![c].run.item[k.item].removed = TRUE]
           ELSE IF answer = "task" /\ Ours(c, t)
           THEN click' = [click EXCEPT ![c].at = "write", ![c].read = t]
           ELSE Goto(c, "report")
     IN \/ Answered(IF t.exists THEN "task" ELSE "gone") /\ Done(c)
        \/ Answered("error") /\ NotDone(c)
  /\ UNCHANGED <<codes, standing, file, store, card, board, told, hushed, busy, changes>>

\* updateTask and deleteTask at the version read; the entry follows the answer.
\* An edit of a task in an earlier scope moves it to the run's projects.
FreshAnyhow(c, t) == t.exists
Fresh(c, t) == t.exists /\ t.version = click[c].read.version
Written(c, t) == IF click[c].kind = "cancel" THEN [t EXCEPT !.exists = FALSE]
                 ELSE [t EXCEPT !.title = "mine", !.scope = click[c].run.scope]
Noted(c, e) == IF click[c].kind = "cancel" THEN [e EXCEPT !.removed = TRUE]
               ELSE [e EXCEPT !.title = "mine", !.scope = click[c].run.scope]
Write(c) ==
  /\ click[c].at = "write"
  /\ LET i == click[c].item
         t == store[i]
     IN \/ /\ Fresh(c, t) /\ Bump(i, Written(c, t)) /\ board' = FALSE
           /\ \/ click' = [click EXCEPT ![c].at = "save", ![c].run.item[i] = Noted(c, @)] /\ Done(c)
              \/ Goto(c, "report") /\ DoneUnanswered(c)
        \/ ~Fresh(c, t) /\ Goto(c, "report") /\ NoFault /\ UNCHANGED <<store, board>>
        \/ Goto(c, "report") /\ NotDone(c) /\ UNCHANGED <<store, board>>
  /\ UNCHANGED <<codes, standing, file, card, told, hushed, busy, changes>>

\* saveRun, updateCard and repairTaskBoard, one after the other.
Save(c) ==
  /\ click[c].at = "save"
  /\ \/ file' = click[c].run /\ Goto(c, "card") /\ Done(c)
     \/ Goto(c, "report") /\ NotDone(c) /\ UNCHANGED file
  /\ UNCHANGED <<codes, standing, store, card, board, told, hushed, busy, changes>>
Draw(c) ==
  /\ click[c].at = "card"
  /\ \/ card' = Shown(click[c].run) /\ Goto(c, "board") /\ Done(c)
     \/ Goto(c, "report") /\ NotDone(c) /\ UNCHANGED card
  /\ UNCHANGED <<codes, standing, file, store, board, told, hushed, busy, changes>>
Repair(c) ==
  /\ click[c].at = "board"
  /\ \/ board' = TRUE /\ Goto(c, "done") /\ Done(c)
     \/ Goto(c, "report") /\ NotDone(c) /\ UNCHANGED board
  /\ UNCHANGED <<codes, standing, file, store, card, told, hushed, busy, changes>>

\* reportDeferredTaskActionFailure: the operator is told in the thread; when
\* that fails as well, only a log line remains, and the deferred work settles.
SettledUntold(c) ==
  /\ click[c].at = "report" /\ Goto(c, "failed")
  /\ UNCHANGED <<codes, standing, file, store, card, board, told, hushed, busy, changes, faults>>
Report(c) ==
  /\ click[c].at = "report" /\ Goto(c, "failed")
  /\ \/ told' = told \cup {c} /\ Done(c) /\ UNCHANGED hushed
     \/ hushed' = hushed \cup {c} /\ NotDone(c) /\ UNCHANGED told
  /\ UNCHANGED <<codes, standing, file, store, card, board, busy, changes>>

Next ==
  \/ Elsewhere
  \/ \E c \in Clicks :
       \/ \E kind \in {"open", "edit", "cancel"}, i \in Items, who \in {"operator", "other"} : Click(c, kind, i, who)
       \/ View(c) \/ Reconcile(c) \/ Read(c) \/ Write(c) \/ Save(c) \/ Draw(c) \/ Repair(c) \/ Report(c)
Spec == Init /\ [][Next]_vars
-----------------------------------------------------------------------------
\* A task the run calls removed is gone from the task store, whatever overlaps,
\* fails or is answered late.
RemovedIsGone == \A i \in Items : file.item[i].removed => ~store[i].exists

\* No click changes a task that somebody moved to other projects, even if it was
\* moved after the click had read it; and a click taken for one deployment
\* changes nothing once the workspace is another's.
OthersAreLeftAlone ==
  [][changes' = changes =>
       /\ \A i \in Items : store[i].scope = "else" => store'[i] = store[i]
       /\ \A c \in Clicks : click'[c] # click[c] /\ click[c].at # "none" /\ click[c].home # standing =>
            UNCHANGED <<store, file, card, board>>]_vars

\* With no two clicks at once, no failure and all at rest: the card shows what
\* the run says, and the run what the store says, but for what others changed.
CardIsTheRun ==
  busy = {} /\ AtWork = {} /\ told \cup hushed = {} =>
    /\ card = Shown(file) /\ board
    /\ \A i \in Items :
         /\ store[i].exists /\ store[i].title # "theirs" => store[i].title = file.item[i].title
         /\ ~store[i].exists /\ changes = 0 => file.item[i].removed

\* A click that did not do what was asked is one the operator was told of,
\* unless telling failed, too.
FailureIsTold == \A c \in Clicks : click[c].at = "failed" => c \in told \cup hushed
=============================================================================
