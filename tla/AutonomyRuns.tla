---------------------------- MODULE AutonomyRuns ----------------------------
(***************************************************************************)
(* The autonomous loop of an experiment (autonomy-scheduled.ts): a         *)
(* schedule starts a run, the run claims the experiment's history in a     *)
(* Durable Object, runs an agent in a container with a capability that     *)
(* ends soon, and reports what came out.  The history has one active run,  *)
(* the recent runs and a checkpoint of the older ones                      *)
(* (autonomy-run-history.ts); a run nobody ended is stale for the next     *)
(* one, and an alarm clears it all after the experiment.                   *)
(*                                                                         *)
(* Runs are named by the time they start and start one after the other.    *)
(* What the agent may write is TaskWrites.                                 *)
(***************************************************************************)
EXTENDS Naturals, Sequences

CONSTANTS
  MaxRuns,      \* bound: runs the schedule starts
  Limit,        \* recent runs before they are compacted
  Stale,        \* how long an active run keeps the others away
  Life,         \* how long a capability is good
  Expires,      \* the end of the experiment
  Grace,        \* from there to the alarm
  MaxTime,      \* bound: the clock
  MaxUpsets     \* bound: deaths, failures, lost answers

VARIABLES
  time, alarm,      \* the clock, and whether the alarm is set
  active,           \* the active run, 0 for none
  next,             \* the last sequence number given
  recent,           \* the recent runs, oldest first
  checkpoint,       \* what is left of the compacted ones
  records,          \* the record of each run
  seqs,             \* the sequence number of each claimed run
  cron,             \* the invocation of each run: where it is, when it started
  containers,       \* the runs whose container is there
  upsets

autonomyVars == <<time, alarm, active, next, recent, checkpoint, records, seqs, cron, containers, upsets>>
history == <<active, next, recent, checkpoint, records, seqs>>

Runs == 1..MaxRuns
NoCheckpoint == [count |-> 0, first |-> 0, last |-> 0, done |-> 0]

Init ==
  /\ time = 0 /\ alarm = FALSE /\ active = 0 /\ next = 0 /\ recent = <<>> /\ checkpoint = NoCheckpoint
  /\ records = [r \in Runs |-> "none"] /\ seqs = [r \in Runs |-> 0]
  /\ cron = [r \in Runs |-> [pc |-> "none", at |-> 0]] /\ containers = {} /\ upsets = 0

At(r, pc) == cron[r].pc = pc
To(r, pc) == cron' = [cron EXCEPT ![r].pc = pc]
Upset == upsets < MaxUpsets /\ upsets' = upsets + 1
\* mutant: a capability is good until the experiment ends
DeadlineOfExperiment(r) == Expires
\* a capability ends with the experiment, and three minutes after the run started
Deadline(r) == IF cron[r].at + Life < Expires THEN cron[r].at + Life ELSE Expires
MayWrite(r) == r \in containers /\ time < Deadline(r)

\* a compacted run is folded into the checkpoint
Fold(c, r, status) ==
  [count |-> c.count + 1, first |-> IF c.count = 0 THEN seqs[r] ELSE c.first, last |-> seqs[r],
   done |-> c.done + IF status = "completed" THEN 1 ELSE 0]
\* mutant: the compacted run is dropped
RecordDropping(r, status) ==
  /\ records' = [records EXCEPT ![r] = status]
  /\ recent' = IF Len(recent) = Limit THEN Append(Tail(recent), r) ELSE Append(recent, r)
  /\ UNCHANGED checkpoint
\* a terminal record is the newest of the recent ones; the oldest makes room
Record(r, status) ==
  /\ records' = [records EXCEPT ![r] = status]
  /\ IF Len(recent) < Limit THEN recent' = Append(recent, r) /\ UNCHANGED checkpoint
     ELSE /\ recent' = Append(Tail(recent), r)
          /\ checkpoint' = Fold(checkpoint, Head(recent), records[Head(recent)])
-----------------------------------------------------------------------------
\* the schedule fires while the experiment is on
Start(r) ==
  /\ At(r, "none") /\ \A q \in Runs : q < r => ~At(q, "none")
  /\ time < Expires
  /\ cron' = [cron EXCEPT ![r] = [pc |-> "claim", at |-> time]]
  /\ UNCHANGED <<time, alarm, history, containers, upsets>>

\* busy while another run is active; a stale one is recorded as failed
Claim(r) ==
  /\ At(r, "claim")
  /\ IF active # 0 /\ cron[r].at <= cron[active].at + Stale
     THEN To(r, "done") /\ UNCHANGED <<alarm, history>>
     ELSE /\ IF active # 0 THEN Record(active, "stale") ELSE UNCHANGED <<recent, checkpoint, records>>
          /\ next' = next + 1 /\ active' = r /\ seqs' = [seqs EXCEPT ![r] = next']
          /\ alarm' = TRUE /\ To(r, "context")
  /\ UNCHANGED <<time, containers, upsets>>
\* the tenant context is resolved, the capability issued, the container created
Enter(r) ==
  /\ At(r, "context")
  /\ containers' = containers \cup {r} /\ To(r, "agent")
  /\ UNCHANGED <<time, alarm, history, upsets>>
\* the agent ends and its container is destroyed
Finish(r) ==
  /\ At(r, "agent")
  /\ containers' = containers \ {r} /\ To(r, "complete")
  /\ UNCHANGED <<time, alarm, history, upsets>>
\* the context, the agent or the destruction of its container fails
Fail(r) ==
  /\ cron[r].pc \in {"context", "agent"} /\ Upset
  /\ containers' \in {containers, containers \ {r}} /\ To(r, "fail")
  /\ UNCHANGED <<time, alarm, history>>

\* mutant: a report is recorded though the run has a record
ReportAgain(r, status) ==
  /\ Record(r, status) /\ active' = (IF active = r THEN 0 ELSE active) /\ UNCHANGED <<next, seqs>>
\* the record of a run that has none and is the active one
Report(r, status) ==
  IF records[r] = "none" /\ active = r
  THEN Record(r, status) /\ active' = 0 /\ UNCHANGED <<next, seqs>>
  ELSE UNCHANGED history
\* a report that finds a record is done; one that finds another run is an error
Complete(r) ==
  /\ At(r, "complete")
  /\ Report(r, "completed")
  /\ To(r, IF records[r] = "none" /\ active # r THEN "fail" ELSE "done")
  /\ UNCHANGED <<time, alarm, containers, upsets>>
ReportFailure(r) ==
  /\ At(r, "fail")
  /\ Report(r, "failed") /\ To(r, "done")
  /\ UNCHANGED <<time, alarm, containers, upsets>>
\* the answer of the history is lost, before or after it did its part
Lose(r) ==
  /\ Upset
  /\ \/ At(r, "complete") /\ (Report(r, "completed") \/ UNCHANGED history) /\ To(r, "fail") /\ UNCHANGED alarm
     \/ At(r, "fail") /\ To(r, "done") /\ UNCHANGED <<history, alarm>>
     \/ At(r, "claim") /\ active = 0 /\ next' = next + 1 /\ active' = r /\ seqs' = [seqs EXCEPT ![r] = next']
        /\ alarm' = TRUE /\ UNCHANGED <<recent, checkpoint, records>> /\ To(r, "done")
  /\ UNCHANGED <<time, containers>>
\* the Worker stops; its container goes on
Die(r) ==
  /\ cron[r].pc \in {"claim", "context", "agent", "complete", "fail"} /\ Upset
  /\ To(r, "done")
  /\ UNCHANGED <<time, alarm, history, containers>>

-----------------------------------------------------------------------------
Tick == time < MaxTime /\ time' = time + 1
        /\ UNCHANGED <<alarm, history, cron, containers, upsets>>
\* mutant: the active run outlives the rest
ClearRest ==
  /\ alarm /\ time >= Expires + Grace
  /\ alarm' = FALSE /\ next' = 0 /\ recent' = <<>> /\ checkpoint' = NoCheckpoint
  /\ records' = [r \in Runs |-> "none"] /\ seqs' = [r \in Runs |-> 0]
  /\ UNCHANGED <<time, active, cron, containers, upsets>>
\* the alarm deletes everything
Clear ==
  /\ alarm /\ time >= Expires + Grace
  /\ alarm' = FALSE /\ active' = 0 /\ next' = 0 /\ recent' = <<>> /\ checkpoint' = NoCheckpoint
  /\ records' = [r \in Runs |-> "none"] /\ seqs' = [r \in Runs |-> 0]
  /\ UNCHANGED <<time, cron, containers, upsets>>

Proceed(r) == Claim(r) \/ Enter(r) \/ Finish(r) \/ Complete(r) \/ ReportFailure(r)
Next == Tick \/ Clear \/ \E r \in Runs : Start(r) \/ Proceed(r) \/ Fail(r) \/ Lose(r) \/ Die(r)
Move == Tick \/ Clear \/ \E r \in Runs : Proceed(r)
Fairness == WF_autonomyVars(Move)
Spec == Init /\ [][Next]_autonomyVars /\ Fairness

-----------------------------------------------------------------------------
TypeOK ==
  /\ time \in 0..MaxTime /\ alarm \in BOOLEAN /\ active \in {0} \cup Runs /\ next \in Nat /\ upsets \in 0..MaxUpsets
  /\ recent \in Seq(Runs) /\ Len(recent) <= Limit
  /\ checkpoint \in [count : Nat, first : Nat, last : Nat, done : Nat]
  /\ records \in [Runs -> {"none", "completed", "failed", "stale"}] /\ seqs \in [Runs -> Nat]
  /\ cron \in [Runs -> [pc : {"none", "claim", "context", "agent", "complete", "fail", "done"}, at : 0..MaxTime]]
  /\ containers \subseteq Runs

\* Every run that was claimed is the active one, a recent one or counted in the
\* checkpoint, in the order they were claimed (appendTerminalRecord, foldCheckpoint).
RunsAreCounted ==
  /\ checkpoint.count + Len(recent) + (IF active = 0 THEN 0 ELSE 1) = next
  /\ checkpoint.last = checkpoint.count
  /\ \A i \in DOMAIN recent : seqs[recent[i]] = checkpoint.count + i

\* Two runs never write at the same time, unless one of them was reported as failed
\* because its container could not be destroyed: a run is stale only when its
\* capability has ended (STALE_RUN_MS, issueAutonomyTaskWriteCapability).
OneWriter == \A q, r \in Runs : q # r /\ MayWrite(q) /\ MayWrite(r) => "failed" \in {records[q], records[r]}

\* The record of a run is final, whoever reports late: it stays, or is cleared
\* with the rest (handleAutonomyRunHistoryRequest).
RecordIsFinal == [][\A r \in Runs : records[r] # "none" => records'[r] = records[r] \/ next' = 0]_autonomyVars

\* Whatever dies, nothing is active for ever: it is reported, found stale or cleared.
ActiveEnds == (active # 0) ~> (active = 0)
=============================================================================
