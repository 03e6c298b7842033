--------------------------- MODULE MinutesIntake ---------------------------
(***************************************************************************)
(* From a posted transcript to the question where its minutes belong.  A   *)
(* message with files reaches the queue as the live event of Slack, as an  *)
(* operator's request to make it up later, or as both; the consumer starts *)
(* one run per file in the run's workspace and asks for a destination.     *)
(* A delivery goes through its files one by one and is delivered again     *)
(* when one of them fails.                                                 *)
(***************************************************************************)
EXTENDS Naturals, FiniteSets

CONSTANTS
  Files,       \* the .txt files of the message, in the order of their numbers
  Requests,    \* the operator's requests, all for the first file
  MaxTries,    \* deliveries of a queue message
  MaxFaults    \* calls that fail and Workers that die

VARIABLES
  source,    \* who posted: a person (file_share) or a trusted integration (bot_message)
  gate,      \* the intake: open, paused or disabled
  mail,      \* what the queue holds of a dispatch: [at, tries]
  worker,    \* the delivery under way: [at, file]
  event,     \* the execution claim of a dispatch's event id
  run,       \* a run's file: [saved, asked]
  effect,    \* the delivery claim of a run's question
  asked,     \* questions in the thread
  forgotten, \* claims given up although the question was posted
  notices,   \* the refusals told in the thread
  answers,   \* what the operator was told
  faults

vars == <<source, gate, mail, worker, event, run, effect, asked, forgotten, notices, answers, faults>>

Dispatches == {"live"} \cup Requests
First == CHOOSE f \in Files : \A g \in Files : f <= g
\* a request has the event id of the message it names, not of the live event:
\* all requests are one event, and their run is not the live one
Origin(d) == IF d = "live" THEN "live" ELSE "backfill"
Origins == {"live", "backfill"}
Runs == {<<"live", f>> : f \in Files} \cup {<<"backfill", First>>}
RunOf(d, f) == <<Origin(d), f>>
FilesOf(d) == IF d = "live" THEN Files ELSE {First}

Idle == [at |-> "idle", file |-> First]
Init ==
  /\ source \in {"person", "integration"}
  /\ gate = "open"
  /\ mail = [d \in Dispatches |-> [at |-> IF d = "live" THEN "queued" ELSE "none", tries |-> 0]]
  /\ worker = [d \in Dispatches |-> Idle]
  /\ event = [o \in Origins |-> "free"]
  /\ run = [r \in Runs |-> [saved |-> FALSE, asked |-> FALSE]]
  /\ effect = [r \in Runs |-> "free"]
  /\ asked = [r \in Runs |-> 0]
  /\ forgotten = [r \in Runs |-> 0]
  /\ notices = {}
  /\ answers = [d \in Requests |-> "none"]
  /\ faults = 0
TypeOK ==
  /\ source \in {"person", "integration"} /\ gate \in {"open", "paused", "disabled"}
  /\ mail \in [Dispatches -> [at : {"none", "queued", "taken", "acked", "dead"}, tries : 0 .. MaxTries]]
  /\ worker \in [Dispatches -> [at : {"idle", "gate", "start", "ask", "post", "settle", "save", "end"}, file : Files]]
  /\ event \in [Origins -> {"free", "held", "succeeded", "failed"}]
  /\ run \in [Runs -> [saved : BOOLEAN, asked : BOOLEAN]]
  /\ effect \in [Runs -> {"free", "held", "succeeded"}]
  /\ asked \in [Runs -> Nat] /\ forgotten \in [Runs -> Nat]
  /\ notices \subseteq Dispatches
  /\ answers \in [Requests -> {"none", "enqueued", "known"}] /\ faults \in 0 .. MaxFaults
-----------------------------------------------------------------------------
\* An operator pauses the intake, or a deployment disables it.
Close ==
  /\ gate = "open" /\ gate' \in {"paused", "disabled"}
  /\ UNCHANGED <<source, mail, worker, event, run, effect, asked, forgotten, notices, answers, faults>>

\* handleMeetingMinutesBackfillAdminRequest: the source is read back from Slack
\* and must be the trusted integration's; a run that has asked is not made again.
KnownOnceSaved(r) == run[r].saved
KnownRun(r) == run[r].asked
Backfill(d) ==
  /\ answers[d] = "none" /\ source = "integration" /\ gate # "disabled"
  /\ IF KnownRun(RunOf(d, First))
     THEN answers' = [answers EXCEPT ![d] = "known"] /\ UNCHANGED mail
     ELSE /\ answers' = [answers EXCEPT ![d] = "enqueued"]
          /\ mail' = [mail EXCEPT ![d].at = "queued"]
  /\ UNCHANGED <<source, gate, worker, event, run, effect, asked, forgotten, notices, faults>>

At(d, step) == worker[d].at = step /\ UNCHANGED <<source, gate, answers>>
Goes(d, step) == worker' = [worker EXCEPT ![d].at = step]
Fails == faults < MaxFaults /\ faults' = faults + 1
Leave(d, where, claim) ==
  /\ worker' = [worker EXCEPT ![d] = Idle]
  /\ mail' = [mail EXCEPT ![d].at = where]
  /\ event' = [event EXCEPT ![Origin(d)] = claim]
Requeued(d) == IF mail[d].tries = MaxTries THEN "dead" ELSE "queued"
Thrown(d) == Leave(d, Requeued(d), "free")

\* A deployment without minutes takes the message for an ordinary one.
Ordinary(d) ==
  /\ mail[d].at = "queued" /\ worker[d].at = "idle" /\ gate = "disabled" /\ event[Origin(d)] = "free"
  /\ mail' = [mail EXCEPT ![d].at = "acked"] /\ event' = [event EXCEPT ![Origin(d)] = "succeeded"]
  /\ UNCHANGED <<source, gate, worker, run, effect, asked, forgotten, notices, answers, faults>>
\* consumeTenantQueueMessage: one delivery at a time works on an event id, under
\* the configuration it was invoked with.
Consume(d) ==
  /\ mail[d].at = "queued" /\ worker[d].at = "idle" /\ (gate # "disabled" \/ event[Origin(d)] # "free")
  /\ CASE event[Origin(d)] = "free" ->
            /\ mail' = [mail EXCEPT ![d].at = "taken", ![d].tries = @ + 1]
            /\ event' = [event EXCEPT ![Origin(d)] = "held"]
            /\ Goes(d, "gate")
       [] event[Origin(d)] = "held" ->
            /\ mail' = [mail EXCEPT ![d] = [at |-> IF @.tries + 1 = MaxTries THEN "dead" ELSE "queued", tries |-> @.tries + 1]]
            /\ UNCHANGED <<event, worker>>
       [] OTHER -> mail' = [mail EXCEPT ![d].at = "acked"] /\ UNCHANGED <<event, worker>>
  /\ UNCHANGED <<source, gate, run, effect, asked, forgotten, notices, answers, faults>>

\* The gate holds a file that a person posted; a bot's message passes it.
RouterFile == source = "person"
Gate(d) ==
  /\ At(d, "gate")
  /\ IF RouterFile /\ gate = "paused"
     THEN /\ Leave(d, "acked", "succeeded")
          /\ \/ notices' = notices \cup {d} /\ UNCHANGED faults
             \/ notices' = notices /\ Fails
     ELSE Goes(d, "start") /\ UNCHANGED <<mail, event, notices, faults>>
  /\ UNCHANGED <<run, effect, asked, forgotten>>

\* The files after this one, and the step after a file is dealt with.
After(d, f) == {g \in FilesOf(d) : g > f}
Done(d) ==
  LET rest == After(d, worker[d].file) IN
  worker' = [worker EXCEPT ![d] =
    IF rest = {} THEN [@ EXCEPT !.at = "end"]
    ELSE [at |-> "start", file |-> CHOOSE g \in rest : \A h \in rest : g <= h]]

\* processMeetingMinutesSlackEvent takes a bot's message only of a request.
Taken(d) == source = "person" \/ d \in Requests
Start(d) ==
  /\ At(d, "start")
  /\ LET r == RunOf(d, worker[d].file) IN
     IF ~Taken(d) \/ run[r].asked THEN Done(d) /\ UNCHANGED run
     ELSE run' = [run EXCEPT ![r].saved = TRUE] /\ Goes(d, "ask")
  /\ UNCHANGED <<mail, event, effect, asked, forgotten, notices, faults>>
\* postTenantSlackReply for requestDestination: claim, post, settle.
AskUnclaimed(d) ==
  /\ At(d, "ask") /\ effect' = [effect EXCEPT ![RunOf(d, worker[d].file)] = "held"] /\ Goes(d, "post")
  /\ UNCHANGED <<mail, event, run, asked, forgotten, notices, faults>>
Ask(d) ==
  /\ At(d, "ask")
  /\ LET r == RunOf(d, worker[d].file) IN
     \/ /\ effect[r] = "free" /\ effect' = [effect EXCEPT ![r] = "held"] /\ Goes(d, "post")
        /\ UNCHANGED <<mail, event>>
     \/ /\ effect[r] = "succeeded" /\ Goes(d, "save") /\ UNCHANGED <<effect, mail, event>>
     \/ /\ effect[r] = "held" /\ Leave(d, "acked", "failed") /\ UNCHANGED effect
  /\ UNCHANGED <<run, asked, forgotten, notices, faults>>
Post(d) ==
  /\ At(d, "post")
  /\ LET r == RunOf(d, worker[d].file) IN
     \/ /\ asked' = [asked EXCEPT ![r] = @ + 1] /\ Goes(d, "settle")
        /\ UNCHANGED <<mail, event, effect, forgotten, faults>>
     \/ /\ Fails /\ effect' = [effect EXCEPT ![r] = "free"] /\ Thrown(d)
        /\ \/ UNCHANGED <<asked, forgotten>>
           \/ asked' = [asked EXCEPT ![r] = @ + 1] /\ forgotten' = [forgotten EXCEPT ![r] = @ + 1]
  /\ UNCHANGED <<run, notices>>
Settle(d) ==
  /\ At(d, "settle")
  /\ effect' = [effect EXCEPT ![RunOf(d, worker[d].file)] = "succeeded"] /\ Goes(d, "save")
  /\ UNCHANGED <<mail, event, run, asked, forgotten, notices, faults>>
SaveForgotten(d) ==
  /\ At(d, "save") /\ Done(d)
  /\ UNCHANGED <<mail, event, run, effect, asked, forgotten, notices, faults>>
Save(d) ==
  /\ At(d, "save")
  /\ \/ /\ run' = [run EXCEPT ![RunOf(d, worker[d].file)].asked = TRUE] /\ Done(d)
        /\ UNCHANGED <<mail, event, faults>>
     \/ Fails /\ Thrown(d) /\ UNCHANGED run
  /\ UNCHANGED <<effect, asked, forgotten, notices>>
End(d) == At(d, "end") /\ Leave(d, "acked", "succeeded") /\ UNCHANGED <<run, effect, asked, forgotten, notices, faults>>
\* The Worker dies: its claims stay until the event's lease is over.
Die(d) ==
  /\ worker[d].at # "idle" /\ Fails /\ Thrown(d)
  /\ UNCHANGED <<source, gate, run, effect, asked, forgotten, notices, answers>>

Next ==
  \/ Close \/ \E d \in Requests : Backfill(d)
  \/ \E d \in Dispatches : Ordinary(d) \/ Consume(d) \/ Gate(d) \/ Start(d) \/ Ask(d) \/ Post(d) \/ Settle(d) \/ Save(d) \/ End(d) \/ Die(d)
Spec == Init /\ [][Next]_vars
-----------------------------------------------------------------------------
(* A run's question is in the thread once, whatever is delivered again and *)
(* whichever of several files failed, but for a claim that was given up on *)
(* an error although Slack had taken the message (startMeetingMinutesRuns, *)
(* postTenantSlackReply).                                                  *)
AskedOnce == \A r \in Runs : asked[r] <= 1 + forgotten[r]

\* A person's message whose delivery ended well while the intake was open has a
\* run, and a question on record, for every one of its files.
MessageIsWhole ==
  source = "person" /\ gate = "open" /\ event["live"] = "succeeded"
    => \A f \in Files : run[<<"live", f>>].asked /\ asked[<<"live", f>>] > 0

\* An operator is told a run exists already only when its question is there.
KnownIsThere ==
  \A d \in Requests : answers[d] = "known" => asked[RunOf(d, First)] > 0

(* The trusted integration's post with a .txt file is taken for minutes    *)
(* (docs/management/stories/active/                                        *)
(* story-brainbase-owned-company-authority-runtime-adapter-v1.md:45, :84): *)
(* its delivery does not end well without a run.                           *)
TrustedPostIsTaken ==
  source = "integration" /\ gate = "open" /\ event["live"] = "succeeded"
    => \A f \in Files : run[<<"live", f>>].saved
=============================================================================
