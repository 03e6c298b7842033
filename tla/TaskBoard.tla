----------------------------- MODULE TaskBoard ------------------------------
(***************************************************************************)
(* The task board of one channel: repairs that are enqueued after a write, *)
(* by the minutes and by the cron (task-runtime-entrypoints.ts), find or   *)
(* provision the channel's canvas through its durable binding              *)
(* (task-board-binding.ts) and replace its content with the tasks they     *)
(* read (task-board.ts).  Repairs overlap, die and lose answers; the lease *)
(* of a provisioning that never ended lapses.  The canvas service and the  *)
(* task store are external.                                                *)
(***************************************************************************)
EXTENDS Naturals

CONSTANTS
  Repairs,       \* repairs in progress at one time
  MaxJobs,       \* bound: repairs waiting in the queue
  MaxChanges,    \* bound: changes of the tasks
  MaxTroubles    \* bound: failures of any kind

VARIABLES
  tasks,       \* version of the tasks in the task store
  changed,     \* a change whose repair is not enqueued yet
  binding,     \* the record of TaskBoardBinding
  leased,      \* its provisioning lease has not run out
  canvas,      \* the channel's canvas exists
  board,       \* the version of the tasks it shows (0: none yet)
  jobs,        \* repairs in the queue
  repairs,     \* Repairs -> [pc, read]
  troubles

boardVars == <<tasks, changed, binding, leased, canvas, board, jobs, repairs, troubles>>

Init ==
  /\ tasks = 1 /\ changed = FALSE
  /\ binding = "none" /\ leased = FALSE
  /\ canvas \in BOOLEAN /\ board = 0     \* a channel may have a canvas already
  /\ jobs = 0
  /\ repairs = [r \in Repairs |-> [pc |-> "idle", read |-> 0]]
  /\ troubles = 0

To(r, pc) == repairs' = [repairs EXCEPT ![r].pc = pc]
At(r, pc) == repairs[r].pc = pc
Trouble == troubles < MaxTroubles /\ troubles' = troubles + 1

\* a write of a task, and the repair its writer enqueues, which it may lose
Change ==
  /\ tasks <= MaxChanges
  /\ tasks' = tasks + 1 /\ changed' = TRUE
  /\ UNCHANGED <<binding, leased, canvas, board, jobs, repairs, troubles>>
EnqueueForProjects ==
  /\ changed /\ changed' = FALSE
  /\ \/ jobs < MaxJobs /\ jobs' = jobs + 1 /\ UNCHANGED troubles
     \/ Trouble /\ UNCHANGED jobs
  /\ UNCHANGED <<tasks, binding, leased, canvas, board, repairs>>
EnqueueScheduled ==
  /\ jobs < MaxJobs /\ jobs' = jobs + 1
  /\ UNCHANGED <<tasks, changed, binding, leased, canvas, board, repairs, troubles>>

Deliver(r) ==
  /\ At(r, "idle") /\ jobs > 0 /\ jobs' = jobs - 1
  /\ To(r, "reserve")
  /\ UNCHANGED <<tasks, changed, binding, leased, canvas, board, troubles>>

\* /reserve: a bound canvas is used, a provisioning under way is left to the repair that holds it
\* mutants: the lease is not looked at, and it never lapses
ReserveAnyway(r) ==
  /\ At(r, "reserve")
  /\ IF binding = "bound" THEN To(r, "read") /\ UNCHANGED <<binding, leased>>
     ELSE binding' = "provisioning" /\ leased' = TRUE /\ To(r, "create")
  /\ UNCHANGED <<tasks, changed, canvas, board, jobs, troubles>>
ReserveForever(r) ==
  /\ At(r, "reserve")
  /\ CASE binding = "bound" -> To(r, "read") /\ UNCHANGED <<binding, leased>>
       [] binding = "provisioning" -> To(r, "idle") /\ UNCHANGED <<binding, leased>>
       [] OTHER -> binding' = "provisioning" /\ leased' = TRUE /\ To(r, "create")
  /\ UNCHANGED <<tasks, changed, canvas, board, jobs, troubles>>
Reserve(r) ==
  /\ At(r, "reserve")
  /\ CASE binding = "bound" -> To(r, "read") /\ UNCHANGED <<binding, leased>>
       [] binding = "provisioning" /\ leased -> To(r, "idle") /\ UNCHANGED <<binding, leased>>
       [] OTHER -> binding' = "provisioning" /\ leased' = TRUE /\ To(r, "create")
  /\ UNCHANGED <<tasks, changed, canvas, board, jobs, troubles>>

\* createManagedTaskBoardCanvas: created, or the one the channel has already;
\* a failure is definitive, or it is unknown whether the canvas was created
Create(r) ==
  /\ At(r, "create")
  /\ \/ canvas' = TRUE /\ To(r, "bind") /\ UNCHANGED troubles
     \/ Trouble /\ To(r, "release") /\ UNCHANGED canvas
     \/ Trouble /\ To(r, "idle") /\ canvas' \in {canvas, TRUE}
  /\ UNCHANGED <<tasks, changed, binding, leased, board, jobs>>

\* mutant: the canvas is used although it could not be bound
CompleteUnbound(r) ==
  /\ At(r, "bind") /\ To(r, "read")
  /\ binding' = IF binding = "none" THEN "none" ELSE "bound"
  /\ UNCHANGED <<tasks, changed, leased, canvas, board, jobs, troubles>>
Complete(r) ==
  /\ At(r, "bind")
  /\ IF binding = "none" THEN To(r, "failed") /\ UNCHANGED binding
     ELSE To(r, "read") /\ binding' = "bound"
  /\ UNCHANGED <<tasks, changed, leased, canvas, board, jobs, troubles>>

\* /release knows the coordinates, not the repair that reserved them
Release(r) ==
  /\ At(r, "release") /\ To(r, "failed")
  /\ binding' = IF binding = "provisioning" THEN "none" ELSE binding
  /\ UNCHANGED <<tasks, changed, leased, canvas, board, jobs, troubles>>

\* refreshTaskBoard: the tasks are read, and published into the bound canvas
Fetch(r) ==
  /\ At(r, "read")
  /\ repairs' = [repairs EXCEPT ![r] = [pc |-> "publish", read |-> tasks]]
  /\ UNCHANGED <<tasks, changed, binding, leased, canvas, board, jobs, troubles>>
Publish(r) ==
  /\ At(r, "publish")
  /\ board' = repairs[r].read
  /\ repairs' = [repairs EXCEPT ![r] = [pc |-> "idle", read |-> 0]]
  /\ UNCHANGED <<tasks, changed, binding, leased, canvas, jobs, troubles>>

\* a failed repair is delivered again, or goes to the dead letters
Failed(r) ==
  /\ At(r, "failed") /\ To(r, "idle")
  /\ jobs' \in {jobs} \cup {j \in {jobs + 1} : j <= MaxJobs}
  /\ UNCHANGED <<tasks, changed, binding, leased, canvas, board, troubles>>

\* a repair dies at any await; what it was doing may have taken effect
Die(r) ==
  /\ ~At(r, "idle") /\ Trouble
  /\ repairs' = [repairs EXCEPT ![r] = [pc |-> "idle", read |-> 0]]
  /\ board' \in {board} \cup {v \in {repairs[r].read} : At(r, "publish")}
  /\ canvas' \in {canvas} \cup {c \in {TRUE} : At(r, "create")}
  /\ UNCHANGED <<tasks, changed, binding, leased, jobs>>

\* five minutes; the calls of a creation time out after 15 seconds each, and the
\* release of a failed one follows at once, while completing may come later
Lapse ==
  /\ binding = "provisioning" /\ leased /\ leased' = FALSE
  /\ \A r \in Repairs : repairs[r].pc \notin {"create", "release"}
  /\ UNCHANGED <<tasks, changed, binding, canvas, board, jobs, repairs, troubles>>

Repair(r) == \/ Deliver(r) \/ Reserve(r) \/ Create(r) \/ Complete(r) \/ Release(r)
             \/ Fetch(r) \/ Publish(r) \/ Failed(r)
Next == \/ Change \/ EnqueueForProjects \/ EnqueueScheduled \/ Lapse
        \/ \E r \in Repairs : Repair(r) \/ Die(r)
Spec == Init /\ [][Next]_boardVars

\* the cron runs, the queue delivers, a delivered repair goes on, time passes
Fairness ==
  /\ WF_boardVars(EnqueueScheduled) /\ WF_boardVars(EnqueueForProjects) /\ WF_boardVars(Lapse)
  /\ \A r \in Repairs : WF_boardVars(Repair(r))
-----------------------------------------------------------------------------
\* The state of task-board-binding.ts and of the repairs of
\* task-runtime-entrypoints.ts has its types.
TypeOK ==
  /\ tasks \in 1..(MaxChanges + 1) /\ board \in 0..(MaxChanges + 1)
  /\ changed \in BOOLEAN /\ leased \in BOOLEAN /\ canvas \in BOOLEAN
  /\ binding \in {"none", "provisioning", "bound"}
  /\ jobs \in 0..MaxJobs /\ troubles \in 0..MaxTroubles
  /\ repairs \in [Repairs -> [pc : {"idle", "reserve", "create", "bind", "release", "read",
                                    "publish", "failed"}, read : 0..(MaxChanges + 1)]]

\* One repair at a time creates the channel's canvas: the others leave it to
\* the holder of the lease (/reserve of task-board-binding.ts), whoever died
\* or failed before and however late an earlier holder completes.
OneCreator ==
  \A r, s \in Repairs : At(r, "create") /\ At(s, "create") => r = s

\* What is published goes into a canvas that is bound: a canvas that was
\* created but whose reservation is gone is never written to before a later
\* repair binds it (processTaskBoardRepair).
PublishedIsBound ==
  /\ board > 0 => binding = "bound" /\ canvas
  /\ \A r \in Repairs : repairs[r].pc \in {"read", "publish"} => binding = "bound"

\* Once the tasks stop changing the board shows them and keeps showing them,
\* although repairs overlap and one that read an older version may publish
\* last, die, or leave a provisioning behind (cron of index.ts, the lease).
EventuallyFresh == <>[](board = tasks)
=============================================================================
