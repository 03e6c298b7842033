---------------------------- MODULE MeetingTasks ----------------------------
(***************************************************************************)
(* "Register the tasks of these minutes": a mention that is answered by    *)
(* extracting task candidates, creating one task for each and telling the  *)
(* thread which were created.  A delivery that could not create them all   *)
(* fails and is repeated; the state of the work is a file of the thread's  *)
(* workspace, written without a condition.  A delivery whose context could *)
(* not be refreshed is abandoned: it counts as failed, yet goes on.        *)
(***************************************************************************)
EXTENDS Naturals, Sequences, SequencesExt

CONSTANTS
  Outputs,     \* what Claude may print: sequences of titles, "" for an entry without one
  MaxTasks,    \* candidates of one list
  MaxTries,    \* deliveries of the event
  MaxFaults    \* calls that fail, answers that are lost and Workers that die

VARIABLES
  enabled,     \* the deployment registers tasks (RUNTIME_EXECUTION_MODE)
  file,        \* the TaskRunState of the event
  store,       \* the tasks of Brainbase, by idempotency key: their title
  thread,      \* what the messages of the thread say
  completion,  \* the reply completion: none, tasks or disabled
  worker,      \* the deliveries: [at, copy, next]
  started,     \* deliveries begun
  abandoned,   \* deliveries given up while their execution goes on
  forgotten,   \* messages whose timestamp was not kept
  faults

vars == <<enabled, file, store, thread, completion, worker, started, abandoned, forgotten, faults>>

Deliveries == 1 .. MaxTries
Keys == 1 .. MaxTasks
Blank == [candidates |-> <<>>, registered |-> {}, failed |-> {}, ts |-> 0]
Titles == UNION {ToSet(o) : o \in Outputs} \ {""}
\* parseCandidates: one list as a whole or none.
Parsed(o) == o # <<>> /\ Len(o) <= MaxTasks /\ "" \notin ToSet(o)
Lists == {o \in Outputs : Parsed(o)}
States == [candidates : Lists \cup {<<>>}, registered : SUBSET Keys, failed : SUBSET Keys, ts : 0 .. 2 * MaxTries]

Init ==
  /\ enabled \in BOOLEAN
  /\ file = Blank /\ store = [k \in Keys |-> ""] /\ thread = <<>> /\ completion = "none"
  /\ worker = [d \in Deliveries |-> [at |-> "new", copy |-> Blank, next |-> 1]]
  /\ started = 0 /\ abandoned = {} /\ forgotten = 0 /\ faults = 0
TypeOK ==
  /\ enabled \in BOOLEAN /\ file \in States /\ store \in [Keys -> Titles \cup {""}]
  /\ \A i \in DOMAIN thread : thread[i] \in [kind : {"tasks", "disabled"}, registered : SUBSET Titles, failed : SUBSET Titles]
  /\ completion \in {"none", "tasks", "disabled"}
  /\ worker \in [Deliveries -> [at : {"new", "extract", "create", "save", "tell", "keep", "complete", "done", "failed", "dead"},
                                copy : States, next : 1 .. MaxTasks + 1]]
  /\ started \in 0 .. MaxTries /\ abandoned \subseteq Deliveries /\ forgotten \in Nat /\ faults \in 0 .. MaxFaults
-----------------------------------------------------------------------------
Over(d) == worker[d].at \in {"done", "failed", "dead"} \/ d \in abandoned
Goto(d, at) == worker' = [worker EXCEPT ![d].at = at]
Fault == faults < MaxFaults /\ faults' = faults + 1
NoFault == UNCHANGED faults

\* The next delivery: the event claim lets it begin when the one before has
\* released it, or its lease has run out.  A completed event is answered at
\* once; state that was saved is taken up where it stands.
Begin(d) ==
  /\ d = started + 1 /\ \A e \in 1 .. started : Over(e) /\ worker[e].at # "done"
  /\ started' = d
  /\ worker' = [worker EXCEPT ![d] =
       IF completion # "none" THEN [@ EXCEPT !.at = "done"]
       ELSE IF ~enabled THEN [@ EXCEPT !.at = "tell"]
       ELSE IF file.candidates = <<>> THEN [@ EXCEPT !.at = "extract"]
       ELSE [@ EXCEPT !.at = "create", !.copy = file]]
  /\ UNCHANGED <<enabled, file, store, thread, completion, abandoned, forgotten, faults>>

\* The list kept until the first task was created.
ExtractUnsaved(d) ==
  /\ worker[d].at = "extract"
  /\ \E o \in Lists : worker' = [worker EXCEPT ![d].at = "create", ![d].copy = [Blank EXCEPT !.candidates = o]]
  /\ UNCHANGED <<enabled, file, store, thread, completion, started, abandoned, forgotten, faults>>
\* extractCandidates and the first saveTaskRun: no task is created before the
\* list it belongs to is on file.
Extract(d) ==
  /\ worker[d].at = "extract"
  /\ \/ \E o \in Outputs :
          IF Parsed(o)
          THEN /\ file' = [Blank EXCEPT !.candidates = o]
               /\ worker' = [worker EXCEPT ![d].at = "create", ![d].copy = file'] /\ NoFault
          ELSE Goto(d, "failed") /\ Fault /\ UNCHANGED file
     \/ Goto(d, "failed") /\ Fault /\ UNCHANGED file
  /\ UNCHANGED <<enabled, store, thread, completion, started, abandoned, forgotten>>

\* createBrainbaseTask: the task store answers a repeated key with the task it
\* has, and refuses it for another title; an answer may be lost.
Pending(d) == {k \in DOMAIN worker[d].copy.candidates : k >= worker[d].next /\ k \notin worker[d].copy.registered}
Current(d) == CHOOSE k \in Pending(d) : \A j \in Pending(d) : k <= j
Registered(d, k) == [worker[d].copy EXCEPT !.registered = @ \cup {k}, !.failed = @ \ {k}]
NotRegistered(d, k) == [worker[d].copy EXCEPT !.failed = @ \cup {k}]

\* A task is taken for registered before the store has answered.
CreateAssumed(d) ==
  /\ worker[d].at = "create" /\ Pending(d) # {}
  /\ LET k == Current(d)
         title == worker[d].copy.candidates[k]
     IN /\ worker' = [worker EXCEPT ![d] = [at |-> "save", copy |-> Registered(d, k), next |-> k + 1]]
        /\ \/ store[k] \in {"", title} /\ store' = [store EXCEPT ![k] = title] /\ NoFault
           \/ Fault /\ UNCHANGED store
  /\ UNCHANGED <<enabled, file, thread, completion, started, abandoned, forgotten>>

Create(d) ==
  /\ worker[d].at = "create" /\ Pending(d) # {}
  /\ LET k == Current(d)
         title == worker[d].copy.candidates[k]
         Note(copy) == worker' = [worker EXCEPT ![d] = [at |-> "save", copy |-> copy, next |-> k + 1]]
     IN \/ store[k] \in {"", title} /\ store' = [store EXCEPT ![k] = title] /\ Note(Registered(d, k)) /\ NoFault
        \/ store[k] \in {"", title} /\ store' = [store EXCEPT ![k] = title] /\ Note(NotRegistered(d, k)) /\ Fault
        \/ Note(NotRegistered(d, k)) /\ Fault /\ UNCHANGED store
        \/ store[k] \notin {"", title} /\ Note(NotRegistered(d, k)) /\ NoFault /\ UNCHANGED store
  /\ UNCHANGED <<enabled, file, thread, completion, started, abandoned, forgotten>>

\* saveTaskRun after every candidate, created or not.
Save(d) ==
  /\ worker[d].at = "save"
  /\ \/ file' = worker[d].copy /\ Goto(d, "create") /\ NoFault
     \/ Goto(d, "failed") /\ Fault /\ UNCHANGED file
  /\ UNCHANGED <<enabled, store, thread, completion, started, abandoned, forgotten>>

AllTried(d) ==
  /\ worker[d].at = "create" /\ Pending(d) = {} /\ Goto(d, "tell")
  /\ UNCHANGED <<enabled, file, store, thread, completion, started, abandoned, forgotten, faults>>

\* notificationText
Text(copy) == [kind |-> "tasks", registered |-> {copy.candidates[k] : k \in copy.registered},
               failed |-> {copy.candidates[k] : k \in copy.failed}]
Told(d) == IF worker[d].copy.candidates = <<>> THEN [kind |-> "disabled", registered |-> {}, failed |-> {}]
           ELSE Text(worker[d].copy)

\* The timestamp not looked at.
TellAgain(d) ==
  /\ worker[d].at = "tell"
  /\ thread' = Append(thread, Told(d)) /\ Goto(d, "complete")
  /\ UNCHANGED <<enabled, file, store, completion, started, abandoned, forgotten, faults>>

\* publishNotification: the first delivery to come here posts the message, the
\* later ones update it.  A deployment that registers no tasks says so.
Tell(d) ==
  /\ worker[d].at = "tell"
  /\ LET ts == worker[d].copy.ts
         Kept == [worker EXCEPT ![d].at = "keep", ![d].copy.ts = Len(thread')]
     IN \/ ts # 0 /\ thread' = [thread EXCEPT ![ts] = Told(d)] /\ Goto(d, "complete") /\ NoFault /\ UNCHANGED forgotten
        \/ ts = 0 /\ thread' = Append(thread, Told(d)) /\ worker' = Kept /\ NoFault /\ UNCHANGED forgotten
        \/ ts = 0 /\ thread' = Append(thread, Told(d)) /\ Goto(d, "failed") /\ Fault /\ forgotten' = forgotten + 1
        \/ Goto(d, "failed") /\ Fault /\ UNCHANGED <<thread, forgotten>>
  /\ UNCHANGED <<enabled, file, store, completion, started, abandoned>>

\* The timestamp is saved, so that the next delivery updates this message.
Keep(d) ==
  /\ worker[d].at = "keep"
  /\ \/ /\ file' = IF worker[d].copy.candidates = <<>> THEN file ELSE worker[d].copy
        /\ Goto(d, "complete") /\ NoFault /\ UNCHANGED forgotten
     \/ worker[d].copy.candidates # <<>> /\ Goto(d, "failed") /\ Fault /\ forgotten' = forgotten + 1 /\ UNCHANGED file
  /\ UNCHANGED <<enabled, store, thread, completion, started, abandoned>>

\* Completed as soon as the thread was told anything.
WholeOnceTold(copy) == copy.ts # 0
\* A delivery with failures is reported as failed, to be repeated; otherwise
\* persistReplyCompletion ends the event.
Whole(copy) == copy.failed = {}
Complete(d) ==
  /\ worker[d].at = "complete"
  /\ \/ /\ Whole(worker[d].copy) /\ Goto(d, "done") /\ NoFault
        /\ completion' = Told(d).kind
     \/ ~Whole(worker[d].copy) /\ Goto(d, "failed") /\ NoFault /\ UNCHANGED completion
     \/ Whole(worker[d].copy) /\ Goto(d, "failed") /\ Fault /\ UNCHANGED completion
  /\ UNCHANGED <<enabled, file, store, thread, started, abandoned, forgotten>>

\* A Worker dies; a message it had just posted is not remembered.
Die(d) ==
  /\ worker[d].at \in {"extract", "create", "save", "tell", "keep", "complete"}
  /\ Fault /\ Goto(d, "dead")
  /\ forgotten' = IF worker[d].at = "keep" THEN forgotten + 1 ELSE forgotten
  /\ UNCHANGED <<enabled, file, store, thread, completion, started, abandoned>>

\* executeTenantContainerOperation gives a delivery up when the refresh of its
\* context fails; what it awaited goes on.
Abandon(d) ==
  /\ d = started /\ ~Over(d) /\ Fault
  /\ abandoned' = abandoned \cup {d}
  /\ UNCHANGED <<enabled, file, store, thread, completion, worker, started, forgotten>>

Next == \E d \in Deliveries :
  \/ Begin(d) \/ Extract(d) \/ Create(d) \/ Save(d) \/ AllTried(d) \/ Tell(d) \/ Keep(d)
  \/ Complete(d) \/ Die(d) \/ Abandon(d)
Spec == Init /\ [][Next]_vars
-----------------------------------------------------------------------------
\* As long as no delivery was abandoned, every task of the event stands for the
\* candidate of the list on file that has its key: neither a repeated delivery
\* nor a second extraction after a crash registers the same thing twice.
TasksAreOfTheList ==
  abandoned = {} => \A k \in Keys : store[k] # "" =>
    k \in DOMAIN file.candidates /\ file.candidates[k] = store[k]

\* Whatever overlaps: a task the thread is told of exists.
ToldIsRegistered == \A i \in DOMAIN thread : thread[i].registered \subseteq {store[k] : k \in Keys}

\* A completed event has told of every candidate, as registered and of none as
\* failed, in the message its state names.
CompletedIsTold ==
  completion = "tasks" /\ abandoned = {} =>
    /\ file.ts # 0 /\ thread[file.ts].failed = {}
    /\ thread[file.ts].registered = ToSet(file.candidates)

\* One message per event, but for those nothing remembers.
ToldOnce == abandoned = {} /\ enabled => Len(thread) <= 1 + forgotten
=============================================================================
