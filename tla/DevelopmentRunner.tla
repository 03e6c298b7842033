-------------------------- MODULE DevelopmentRunner --------------------------
(***************************************************************************)
(* The development runner (container/openryoko-development-runner.mjs) and *)
(* the process that launches it (container/cloudflare-development-         *)
(* runner.mjs).  A runner takes the lock of the development user, a        *)
(* directory with its pid, or reclaims the lock of a runner that is        *)
(* provably dead; it works on one story, whose agent runs in a process     *)
(* group of its own, emits one result, spools it and releases the lock.    *)
(* Its launcher forwards progress and, at the end, one terminal callback.  *)
(* A kill takes the runner and leaves its agent running.                   *)
(***************************************************************************)
EXTENDS Naturals, Sequences

CONSTANTS Runners,   \* 1..n, launched in this order
          MaxKills   \* bound on runners killed from outside, by their launcher's deadline or a restart

Free == [held |-> FALSE, owner |-> 0]
VARIABLES place,       \* in a fresh container with its launcher, or on a host whose gateway is not in src/
          lock,        \* the lock directory: whether it exists and the pid in its owner file, 0 for none
          quarantine,  \* the directories reclaimers renamed the lock to
          pc,          \* where each runner is
          agents,      \* the runners whose agent group is alive
          story,       \* the story each runner works on, 0 before it has one
          questions,   \* questions.json of each story's worktree: who wrote it and whether it is valid
          out, asked,  \* the result on each runner's stdout, and who wrote the questions in it
          spool,       \* per story: the runner whose result is in the spool
          reached,     \* the runners in the order their story runs began
          queue, sent, ended,  \* the launcher: progress to post, callbacks posted, how it saw the runner end
          rivals, kills,  \* runners that met another live process or an ownerless lock; kills used
          assessed, grabbed  \* the owner each reclaimer took for dead; whether one renamed another lock than that owner's
lockVars == <<lock, quarantine, rivals, assessed, grabbed>>
storyVars == <<story, questions, spool, reached, asked>>
launchVars == <<queue, sent, ended>>
vars == <<place, lockVars, pc, agents, storyVars, out, launchVars, kills>>

NoQuestions == [by |-> 0, valid |-> FALSE]
Init ==
  /\ place \in {"container", "host"}
  /\ lock = Free /\ quarantine = [r \in Runners |-> Free]
  /\ pc = [r \in Runners |-> "off"] /\ agents = {} /\ rivals = {} /\ kills = 0
  /\ assessed = [r \in Runners |-> 0] /\ grabbed = FALSE
  /\ story = [r \in Runners |-> 0] /\ questions = [s \in Runners |-> NoQuestions]
  /\ out = [r \in Runners |-> "none"] /\ asked = [r \in Runners |-> 0] /\ spool = [s \in Runners |-> 0] /\ reached = <<>>
  /\ queue = [r \in Runners |-> 0] /\ sent = [r \in Runners |-> <<>>] /\ ended = [r \in Runners |-> "no"]

Alive(r) == pc[r] \notin {"off", "done", "refused", "dead"}
\* development-user processes other than r and the (dead) owner
Survivors(r) == agents \cup {o \in Runners \ {r} : Alive(o)}
\* whatever r meets that speaks against a reclaim
Meets(r) == rivals' = IF Survivors(r) # {} \/ (lock.held /\ lock.owner = 0) THEN rivals \cup {r} ELSE rivals
AtWork(r) == pc[r] \in {"inside", "agent", "decide", "spool", "release"}

\* to the catch of main, which emits "failed" without a story; the lock is released if it was acquired
Refuse(r) == pc' = [pc EXCEPT ![r] = "refused"] /\ out' = [out EXCEPT ![r] = "failed"]
To(r, p) == pc' = [pc EXCEPT ![r] = p] /\ UNCHANGED out
\* acquireDevelopmentLock, tryAcquire: mkdir
MakeLock(r) ==
  /\ pc[r] \in {"make", "remake"}
  /\ IF ~lock.held THEN lock' = [held |-> TRUE, owner |-> 0] /\ To(r, IF pc[r] = "make" THEN "own" ELSE "reown")
     ELSE lock' = lock /\ IF pc[r] = "make" THEN To(r, "read") ELSE Refuse(r)
  /\ Meets(r) /\ UNCHANGED quarantine
\* ... then the owner file, exclusively; on an error the directory is removed
WriteOwner(r) ==
  /\ pc[r] \in {"own", "reown"}
  /\ IF lock = [held |-> TRUE, owner |-> 0] THEN lock' = [held |-> TRUE, owner |-> r] /\ To(r, "inside")
     ELSE lock' = Free /\ IF pc[r] = "own" /\ lock.held THEN To(r, "read") ELSE Refuse(r)
  /\ IF pc'[r] = "inside" THEN rivals' = rivals \ {r} ELSE Meets(r)
  /\ UNCHANGED quarantine
\* mutant: a pid that cannot be signalled is never taken for dead
DeadOwnerUnproven(l) == l.held /\ l.owner # 0 /\ FALSE
\* assessLockStaleness reads the owner file and probes the pid ...
DeadOwner(l) == l.held /\ l.owner # 0 /\ ~Alive(l.owner)
ReadOwner(r) ==
  /\ pc[r] = "read" /\ IF DeadOwner(lock) THEN To(r, "list") ELSE Refuse(r)
  /\ Meets(r) /\ UNCHANGED <<lock, quarantine>>
\* mutant: a dead owner is proof enough
ListAnyway(r) == /\ pc[r] = "list" /\ To(r, "rename") /\ Meets(r) /\ UNCHANGED <<lock, quarantine>>
\* ... and lists the live processes of the user
List(r) ==
  /\ pc[r] = "list" /\ IF Survivors(r) = {} THEN To(r, "rename") ELSE Refuse(r)
  /\ Meets(r) /\ UNCHANGED <<lock, quarantine>>
\* reclaimStaleLock claims the directory by renaming it, assesses it again ...
Rename(r) ==
  /\ pc[r] = "rename"
  /\ IF lock.held THEN quarantine' = [quarantine EXCEPT ![r] = lock] /\ lock' = Free /\ To(r, "reread")
     ELSE Refuse(r) /\ UNCHANGED <<lock, quarantine>>
  /\ Meets(r)
ReRead(r) ==
  /\ pc[r] = "reread" /\ To(r, IF DeadOwner(quarantine[r]) THEN "relist" ELSE "restore")
  /\ Meets(r) /\ UNCHANGED <<lock, quarantine>>
ReList(r) ==
  /\ pc[r] = "relist"
  /\ IF Survivors(r) = {} THEN quarantine' = [quarantine EXCEPT ![r] = Free] /\ To(r, "remake")
     ELSE To(r, "restore") /\ UNCHANGED quarantine
  /\ Meets(r) /\ UNCHANGED lock
\* ... and renames it back, over an empty directory too, if it is not stale after all
Restore(r) ==
  /\ pc[r] = "restore" /\ Refuse(r)
  /\ IF lock.owner = 0 THEN lock' = quarantine[r] /\ quarantine' = [quarantine EXCEPT ![r] = Free]
     ELSE UNCHANGED <<lock, quarantine>>
  /\ Meets(r)
Acquire(r) ==
  /\ MakeLock(r) \/ WriteOwner(r) \/ ReadOwner(r) \/ List(r) \/ Rename(r) \/ ReRead(r) \/ ReList(r) \/ Restore(r)
  /\ assessed' = [assessed EXCEPT ![r] = IF pc[r] = "read" THEN lock.owner ELSE @]
  /\ grabbed' = (grabbed \/ (pc[r] = "rename" /\ lock.held /\ lock.owner # assessed[r]))
  /\ UNCHANGED <<agents, storyVars, launchVars, kills>>

\* the last story result a run emitted for story s
Runs(s) == {i \in 1..Len(reached) : story[reached[i]] = s}
Last(s) == IF Runs(s) = {} THEN "none" ELSE out[reached[CHOOSE i \in Runs(s) : \A j \in Runs(s) : j <= i]]
Begins(r, s) ==
  /\ pc[r] = "inside" /\ story' = [story EXCEPT ![r] = s] /\ pc' = [pc EXCEPT ![r] = "agent"]
  /\ agents' = agents \cup {r} /\ reached' = Append(reached, r) /\ UNCHANGED <<lockVars, out, spool, asked, launchVars, kills>>
NewStory(r) == Begins(r, r) /\ UNCHANGED questions
\* mutant: the answered questions stay in the worktree
ResumeKeeping(r) == \E s \in Runners :
  place = "host" /\ Last(s) = "needs_decision" /\ Begins(r, s) /\ UNCHANGED questions
\* resumeStory removes the questions that were answered before its agent starts
ResumeStory(r) == \E s \in Runners :
  place = "host" /\ Last(s) = "needs_decision" /\ Begins(r, s) /\ questions' = [questions EXCEPT ![s] = NoQuestions]
ContinueGates(r) == \E s \in Runners :
  place = "host" /\ Last(s) = "needs_input" /\ Begins(r, s) /\ UNCHANGED questions
Begin(r) == NewStory(r) \/ ResumeStory(r) \/ ContinueGates(r)
\* the payload, the configuration, the repository or the worktree is no good
Setup(r) == /\ pc[r] = "inside" /\ out' = [out EXCEPT ![r] = "failed"] /\ pc' = [pc EXCEPT ![r] = "release"]
            /\ UNCHANGED <<lockVars, agents, storyVars, launchVars, kills>>
\* what an agent leaves as questions.json of its worktree when it ends
Leaves(r) ==
  \/ UNCHANGED questions
  \/ \E v \in BOOLEAN : questions' = [questions EXCEPT ![story[r]] = [by |-> r, valid |-> v]]
\* runAgentAndShip: the agent ends by itself; its runner may be dead by then
AgentEnds(r) ==
  /\ r \in agents /\ agents' = agents \ {r} /\ Leaves(r)
  /\ pc' = IF pc[r] = "agent" THEN [pc EXCEPT ![r] = "decide"] ELSE pc
  /\ UNCHANGED <<lockVars, story, spool, reached, asked, out, launchVars, kills>>
\* mutant: the timeout waits for the agent instead of stopping its process group
AgentFailsLate(r) ==
  /\ pc[r] = "agent" /\ r \notin agents /\ agents' = agents \ {r} /\ Leaves(r)
  /\ out' = [out EXCEPT ![r] = "needs_input"] /\ pc' = [pc EXCEPT ![r] = "spool"]
  /\ UNCHANGED <<lockVars, story, spool, reached, asked, launchVars, kills>>
\* the agent fails, or runCommand's timeout kills its whole group: the work waits for a look
AgentFails(r) ==
  /\ pc[r] = "agent" /\ r \in agents /\ agents' = agents \ {r} /\ Leaves(r)
  /\ out' = [out EXCEPT ![r] = "needs_input"] /\ pc' = [pc EXCEPT ![r] = "spool"]
  /\ UNCHANGED <<lockVars, story, spool, reached, asked, launchVars, kills>>
\* readQuestionsFile: valid questions are asked, invalid ones stop the run
Verdict(q) == IF q.valid THEN "needs_decision" ELSE "needs_input"
\* without any, a dry run of the gates shows whether the work can be shipped
Shippable == {"pr_ready", "needs_input"}
Decide(r) ==
  LET q == questions[story[r]] IN
  /\ pc[r] = "decide" /\ UNCHANGED <<lockVars, agents, story, questions, spool, reached, launchVars, kills>>
  /\ asked' = [asked EXCEPT ![r] = IF q.valid THEN q.by ELSE 0]
  /\ \/ /\ q.by # 0 /\ out' = [out EXCEPT ![r] = Verdict(q)] /\ pc' = [pc EXCEPT ![r] = "spool"]
     \/ /\ q.by = 0 /\ pc' = [pc EXCEPT ![r] = "spool"] /\ \E o \in Shippable : out' = [out EXCEPT ![r] = o]
     \/ /\ q.by = 0 /\ pc' = [pc EXCEPT ![r] = "release"] /\ out' = [out EXCEPT ![r] = "failed"]
\* writeResultSpool, unless it fails; then the lock is removed
SpoolTo(r, free) ==
  /\ pc[r] = "spool" /\ (spool' = [spool EXCEPT ![story[r]] = r] \/ UNCHANGED spool)
  /\ pc' = [pc EXCEPT ![r] = IF free THEN "done" ELSE "release"]
  /\ UNCHANGED <<lockVars, agents, story, questions, reached, asked, out, launchVars, kills>>
\* mutant: the lock is released first, the result spooled after
SpoolLater(r) ==
  \/ /\ pc[r] = "spool" /\ lock.owner = r /\ lock' = Free
     /\ UNCHANGED <<pc, quarantine, rivals, assessed, grabbed, agents, storyVars, out, launchVars, kills>>
  \/ lock.owner # r /\ SpoolTo(r, TRUE)
Spool(r) == SpoolTo(r, FALSE)
Release(r) == /\ pc[r] = "release" /\ lock' = Free /\ pc' = [pc EXCEPT ![r] = "done"]
              /\ UNCHANGED <<quarantine, rivals, assessed, grabbed, agents, storyVars, out, launchVars, kills>>

\* the launcher reads the job, queues its first progress and starts the runner
Launch(r) ==
  /\ pc[r] = "off" /\ (place = "container" => r = 1) /\ \A o \in 1..(r - 1) : pc[o] # "off"
  /\ pc' = [pc EXCEPT ![r] = "make"] /\ queue' = [queue EXCEPT ![r] = IF place = "container" THEN 1 ELSE 0]
  /\ rivals' = IF Survivors(r) # {} THEN {o \in Runners : Alive(o) /\ ~AtWork(o)} \cup rivals \cup {r} ELSE rivals
  /\ UNCHANGED <<lock, quarantine, assessed, grabbed, agents, storyVars, out, sent, ended, kills>>
\* the runner dies: child.kill at the launcher's deadline, or a restart on the host; its agent does not
Kill(r) ==
  /\ Alive(r) /\ kills < MaxKills /\ kills' = kills + 1
  /\ ended' = [ended EXCEPT ![r] = IF place = "container" THEN "timed_out" ELSE @]
  /\ pc' = [pc EXCEPT ![r] = "dead"] /\ UNCHANGED <<lockVars, agents, storyVars, out, queue, sent>>
\* the launcher sees the runner exit and parses the last result on its stdout
SeeExit(r) ==
  /\ place = "container" /\ pc[r] \in {"done", "refused"} /\ ended[r] = "no" /\ ended' = [ended EXCEPT ![r] = out[r]]
  /\ UNCHANGED <<lockVars, pc, agents, storyVars, out, queue, sent, kills>>
\* progressChain sent one after the other, failures swallowed
PostProgress(r) ==
  /\ queue[r] > 0 /\ queue' = [queue EXCEPT ![r] = @ - 1] /\ sent' = [sent EXCEPT ![r] = Append(@, "progress")]
  /\ UNCHANGED <<lockVars, pc, agents, storyVars, out, ended, kills>>
Told(e) == IF e = "pr_ready" THEN "completed" ELSE e
\* mutant: the terminal callback does not wait for the progress still on its way
PostResultAtOnce(r) ==
  /\ ended[r] \notin {"no", "posted"}
  /\ ended' = [ended EXCEPT ![r] = "posted"] /\ sent' = [sent EXCEPT ![r] = Append(@, Told(ended[r]))]
  /\ UNCHANGED <<lockVars, pc, agents, storyVars, out, queue, kills>>
\* the terminal callback, after all progress
PostResult(r) ==
  /\ ended[r] \notin {"no", "posted"} /\ queue[r] = 0
  /\ ended' = [ended EXCEPT ![r] = "posted"] /\ sent' = [sent EXCEPT ![r] = Append(@, Told(ended[r]))]
  /\ UNCHANGED <<lockVars, pc, agents, storyVars, out, queue, kills>>

Work(r) == Begin(r) \/ Setup(r) \/ AgentFails(r) \/ Decide(r) \/ Spool(r) \/ Release(r)
Report(r) == SeeExit(r) \/ PostProgress(r) \/ PostResult(r)
Next == /\ UNCHANGED place
        /\ \E r \in Runners : \/ Launch(r) \/ Acquire(r) \/ Work(r) \/ AgentEnds(r) \/ Report(r)
                              \/ Kill(r)
\* each process moves on; an agent that hangs is stopped by its timeout (AgentFails)
Proceed(r) == UNCHANGED place /\ (Acquire(r) \/ Work(r) \/ Report(r))
Spec == Init /\ [][Next]_vars /\ \A r \in Runners : WF_vars(Proceed(r))
\* some of its behaviours: runners on a host that only compete for the lock
LockSpec == Init /\ place = "host" /\ [][UNCHANGED place /\ \E r \in Runners : Launch(r) \/ Acquire(r) \/ Kill(r)]_vars
-----------------------------------------------------------------------------
TypeOK ==
  /\ lock \in [held : BOOLEAN, owner : Runners \cup {0}] /\ (lock.owner # 0 => lock.held)
  /\ agents \subseteq Runners /\ \A r \in Runners : story[r] \in Runners \cup {0}
  /\ \A r \in Runners : out[r] \in {"none", "failed", "needs_input", "needs_decision", "pr_ready"}
\* The lock is the development user's: while a runner works on a story or an agent that outlived its
\* runner still writes to a worktree, nobody else is at work (assessLockStaleness, reclaimStaleLock).
NoDoubleRun ==
  \A r, o \in Runners : r # o /\ AtWork(r) => ~AtWork(o) /\ o \notin agents
\* That holds until a reclaimer renames another lock than the one it assessed.
OneRunner == ~grabbed => NoDoubleRun
\* A run is refused the lock only if it met another live process of the user or a lock that names
\* no owner: the lock of a runner that died alone never blocks the next one (reclaimStaleLock).
RefusedHasRival == \A r \in Runners : pc[r] = "refused" => r \in rivals
\* A questions document is asked once: what was answered is not asked again by the run that
\* resumes the story (resumeStory's rm before the agent starts).
AskedIsNew == \A r, o \in Runners : r # o /\ asked[r] # 0 /\ story[r] = story[o] => asked[r] # asked[o]
\* What the spool holds of a story is never replaced by the result of an earlier run, unless two
\* runners were let in.
Position(r) == CHOOSE i \in 1..Len(reached) : reached[i] = r
SpoolGoesForward ==
  [][~grabbed => \A s \in Runners : spool[s] # 0 /\ spool'[s] # spool[s] => Position(spool[s]) < Position(spool'[s])]_vars
\* No callback follows the terminal one, and there is one terminal callback.
TerminalIsLast == \A r \in Runners : \A i \in 1..Len(sent[r]) : sent[r][i] # "progress" => i = Len(sent[r])
\* A runner that was launched is reported as ended, whatever its agent does.
EventuallyReported == (place = "container" /\ pc[1] # "off") ~> (ended[1] = "posted")
=============================================================================
