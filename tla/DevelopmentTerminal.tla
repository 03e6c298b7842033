------------------------ MODULE DevelopmentTerminal ------------------------
(***************************************************************************)
(* A development job from its launch to its end. The job runs in a fresh   *)
(* container that calls back with its progress and its result; a durable   *)
(* outbox, armed with a timeout before the container starts, is to see     *)
(* that the job ends whatever happens: its callback delivered, its         *)
(* container destroyed and its owner claim settled.                        *)
(*                                                                         *)
(*   launch   startDevelopmentRun (development-runner-client.ts)           *)
(*   runner   container/cloudflare-development-runner.mjs                  *)
(*   proxy    proxyDevelopmentCallback (multitenancy/development-          *)
(*            callback-proxy.ts), one per callback of a runner             *)
(*   ring     the alarm of the outbox object (multitenancy/development-    *)
(*            terminal-outbox.ts) with its deliver and finalizeFailure     *)
(*                                                                         *)
(* The callback they forward is handled elsewhere: CallbackPromise is what *)
(* they know of it, DevelopmentCallback how it is kept.                    *)
(***************************************************************************)
EXTENDS Integers

CONSTANTS
  MaxLaunches, \* deliveries of the message that starts the job
  Reports,     \* whether the runner reports progress
  MaxFaults    \* bound: failed calls, lost answers and crashes

VARIABLES
  clock,     \* 0, 1 from activate_at on, 2 from terminal_deadline_at on
  owner,     \* the owner claim of the job
  record,    \* the outbox record
  alarm,     \* when the outbox object is to be woken
  box,       \* the container of each launch
  launch,    \* the launch in progress
  runner,    \* what the runner in each container sends next
  proxy,     \* what the proxy does with each callback
  ring,      \* what the alarm handler is doing
  faults,    \* faults so far
  taken, accounted, completed   \* the callback, see CallbackPromise

downstream == <<taken, accounted, completed>>
vars == <<clock, owner, record, alarm, box, launch, runner, proxy, ring, faults,
          taken, accounted, completed>>

-----------------------------------------------------------------------------
(* Values.                                                                 *)

Launch   == 1..MaxLaunches
Timeout  == <<"timeout", 0>>
Nothing  == <<"nothing", 0>>
Callback == {"progress", "result"} \X Launch
Payload  == Callback \cup {Timeout}
Terminal == ({"result"} \X Launch) \cup {Timeout}

Time  == 0..2
Never == 3

Callbacks == INSTANCE CallbackPromise WITH Payload <- Terminal

Settled == {"succeeded", "failed_terminal"}
Record  == [state : {"absent", "awaiting_terminal", "pending", "completed",
                     "failed_terminal"},
            payload : Payload \cup {Nothing}, box : Launch \cup {0},
            destroyed : BOOLEAN, finalized : BOOLEAN]
NoRecord == [state |-> "absent", payload |-> Nothing, box |-> 0,
             destroyed |-> FALSE, finalized |-> FALSE]

NoRing == [pc |-> "idle", now |-> 0, held |-> NoRecord, failing |-> FALSE]

Init ==
  /\ clock = 0 /\ owner = "none" /\ faults = 0
  /\ record = NoRecord /\ alarm = Never
  /\ box = [n \in Launch |-> "none"]
  /\ launch = [pc |-> "queued", n |-> 0]
  /\ runner = [n \in Launch |-> "off"]
  /\ proxy = [c \in Callback |-> "off"]
  /\ ring = NoRing
  /\ Callbacks!Init

Fault == faults < MaxFaults /\ faults' = faults + 1
Fine  == UNCHANGED faults

-----------------------------------------------------------------------------
(* The container. Its runner sends its progress without waiting for the    *)
(* answer longer than eight seconds, and its result once.                  *)

Start(n) == /\ box' = [box EXCEPT ![n] = "running"]
            /\ runner' = [runner EXCEPT ![n] = IF Reports THEN "progress" ELSE "result"]

Destroy(n) == /\ box' = [box EXCEPT ![n] = "destroyed"]
              /\ runner' = [runner EXCEPT ![n] = "off"]

Call(n) ==
  /\ runner[n] \in {"progress", "result"}
  /\ runner' = [runner EXCEPT ![n] = IF @ = "progress" THEN "result" ELSE "off"]
  /\ proxy' = [proxy EXCEPT ![<<runner[n], n>>] = "claim"]
  /\ UNCHANGED <<clock, owner, record, alarm, box, launch, ring, faults, downstream>>

RunnerDies(n) ==
  /\ runner[n] # "off" /\ Fault
  /\ runner' = [runner EXCEPT ![n] = "off"]
  /\ UNCHANGED <<clock, owner, record, alarm, box, launch, proxy, ring, downstream>>

-----------------------------------------------------------------------------
(* The outbox object. An alarm is set after the transaction of its record: *)
(* an object that dies in between leaves the record without its alarm.     *)

MarkDestroyed == record' = [record EXCEPT !.destroyed = TRUE]

(* recordContainerDestroyed: every receipt has a time of its own, so a     *)
(* second one conflicts with the first.                                    *)
TakesReceipt == record.box # 0 /\ ~record.destroyed

-----------------------------------------------------------------------------
(* The launch.                                                             *)

LaunchGoto(step) == launch' = [launch EXCEPT !.pc = step]

(* registerJobOwner. A claim that is not new is taken for a running job.   *)
Register ==
  /\ launch.pc = "queued" /\ launch.n < MaxLaunches
  /\ \/ /\ clock > 0                       \* the context is about to expire
        /\ LaunchGoto("refused") /\ UNCHANGED owner
     \/ /\ clock = 0 /\ owner = "none"
        /\ owner' = "claimed"
        /\ launch' = [pc |-> "arm", n |-> launch.n + 1]
     \/ /\ clock = 0 /\ owner # "none"
        /\ LaunchGoto("accepted") /\ UNCHANGED owner
  /\ UNCHANGED <<clock, record, alarm, box, runner, proxy, ring, faults, downstream>>

(* arm: a watchdog of another container is in the way, a record that is no *)
(* longer waiting is left as it is.                                        *)
Armed(n) == [NoRecord EXCEPT !.state = "awaiting_terminal", !.payload = Timeout,
                             !.box = n]

Arm ==
  /\ launch.pc = "arm"
  /\ \/ /\ record.state = "absent"
        /\ record' = Armed(launch.n)
        /\ \/ alarm' = 1 /\ LaunchGoto("create") /\ Fine
           \/ alarm' \in {alarm, 1} /\ LaunchGoto("cancel") /\ Fault
     \/ /\ record.state = "awaiting_terminal"
        /\ LaunchGoto("cancel") /\ Fine /\ UNCHANGED <<record, alarm>>
     \/ /\ record.state \notin {"absent", "awaiting_terminal"}
        /\ LaunchGoto("create") /\ Fine /\ UNCHANGED <<record, alarm>>
     \/ LaunchGoto("cancel") /\ Fault /\ UNCHANGED <<record, alarm>>
  /\ UNCHANGED <<clock, owner, box, runner, proxy, ring, downstream>>

(* createSandbox, writeFile and startProcess: a start that fails may have  *)
(* started the runner all the same.                                        *)
Create ==
  /\ launch.pc = "create"
  /\ \/ Start(launch.n) /\ LaunchGoto("accepted") /\ Fine
     \/ Start(launch.n) /\ LaunchGoto("clean") /\ Fault
     \/ UNCHANGED <<box, runner>> /\ LaunchGoto("clean") /\ Fault
  /\ UNCHANGED <<clock, owner, record, alarm, proxy, ring, downstream>>

(* A container that cannot be shown to be destroyed keeps its watchdog and *)
(* its owner claim.                                                        *)
Clean ==
  /\ launch.pc = "clean"
  /\ \/ Destroy(launch.n) /\ LaunchGoto("note") /\ Fine
     \/ /\ Destroy(launch.n) \/ UNCHANGED <<box, runner>>
        /\ LaunchGoto("queued") /\ Fault
  /\ UNCHANGED <<clock, owner, record, alarm, proxy, ring, downstream>>

Note ==
  /\ launch.pc = "note"
  /\ \/ TakesReceipt /\ MarkDestroyed /\ LaunchGoto("cancel") /\ Fine
     \/ ~TakesReceipt /\ LaunchGoto("queued") /\ Fine /\ UNCHANGED record
     \/ LaunchGoto("queued") /\ Fault /\ ((TakesReceipt /\ MarkDestroyed) \/ UNCHANGED record)
  /\ UNCHANGED <<clock, owner, alarm, box, runner, proxy, ring, downstream>>

(* cancelTerminalWatchdog and release, whose errors are swallowed.         *)
Cancel ==
  /\ launch.pc = "cancel"
  /\ LaunchGoto("release")
  /\ \/ /\ record' = IF record.state = "awaiting_terminal" THEN NoRecord ELSE record
        /\ Fine
     \/ UNCHANGED record /\ Fault
  /\ UNCHANGED <<clock, owner, alarm, box, runner, proxy, ring, downstream>>

Release ==
  /\ launch.pc = "release"
  /\ LaunchGoto("queued")
  /\ \/ owner' = (IF owner = "claimed" THEN "none" ELSE owner) /\ Fine
     \/ UNCHANGED owner /\ Fault
  /\ UNCHANGED <<clock, record, alarm, box, runner, proxy, ring, downstream>>

LaunchDies ==
  /\ launch.pc \in {"arm", "create", "clean", "note", "cancel", "release"}
  /\ Fault
  /\ LaunchGoto("queued")
  /\ UNCHANGED <<clock, owner, record, alarm, box, runner, proxy, ring, downstream>>

LaunchStep == Register \/ Arm \/ Create \/ Clean \/ Note \/ Cancel \/ Release

-----------------------------------------------------------------------------
(* The proxy.                                                              *)

ProxyAt(c, step) == proxy[c] = step
ProxyGoto(c, step) == proxy' = [proxy EXCEPT ![c] = step]

(* A claim of the owner that turns out to be new is given back: nobody     *)
(* launched this job.                                                      *)
ProxyClaim(c) ==
  /\ ProxyAt(c, "claim")
  /\ \/ /\ clock = 2                          \* the context has expired
        /\ ProxyGoto(c, "refused") /\ Fine /\ UNCHANGED owner
     \/ /\ clock < 2 /\ owner = "none"
        /\ owner' = "claimed" /\ ProxyGoto(c, "free") /\ Fine
     \/ /\ clock < 2 /\ owner = "claimed"
        /\ ProxyGoto(c, "submit") /\ Fine /\ UNCHANGED owner
     \/ /\ clock < 2 /\ owner \in Settled
        /\ ProxyGoto(c, IF owner = "succeeded" THEN "done" ELSE "refused")
        /\ Fine /\ UNCHANGED owner
     \/ ProxyGoto(c, "lost") /\ Fault /\ UNCHANGED owner
  /\ UNCHANGED <<clock, record, alarm, box, launch, runner, ring, downstream>>

ProxyFree(c) ==
  /\ ProxyAt(c, "free")
  /\ \/ /\ owner' = (IF owner = "claimed" THEN "none" ELSE owner)
        /\ ProxyGoto(c, "refused") /\ Fine
     \/ UNCHANGED owner /\ ProxyGoto(c, "lost") /\ Fault
  /\ UNCHANGED <<clock, record, alarm, box, launch, runner, ring, downstream>>

(* submit: a callback takes the place of the watchdog, whatever its status, *)
(* and the container stays with the record.                                *)
Submitted(c) ==
  [NoRecord EXCEPT !.state = "pending", !.payload = c,
                   !.box = IF record.state = "awaiting_terminal" THEN record.box ELSE 0]

ReplaceableUntilEnded == record.state \notin {"completed", "failed_terminal"}

Replaceable == record.state \in {"absent", "awaiting_terminal"}

ProxySubmit(c) ==
  /\ ProxyAt(c, "submit")
  /\ \/ /\ Replaceable
        /\ record' = Submitted(c)
        /\ \/ alarm' = clock /\ ProxyGoto(c, "forward") /\ Fine
           \/ alarm' \in {alarm, clock} /\ ProxyGoto(c, "lost") /\ Fault
     \/ /\ record.state = "pending" /\ record.payload = c
        /\ alarm' = clock /\ ProxyGoto(c, "forward") /\ Fine /\ UNCHANGED record
     \/ /\ record.state \in {"completed", "failed_terminal"} /\ record.payload = c
        /\ ProxyGoto(c, IF record.state = "completed" THEN "done" ELSE "forward")
        /\ Fine /\ UNCHANGED <<record, alarm>>
     \/ /\ record.state \notin {"absent", "awaiting_terminal"} /\ record.payload # c
        /\ ProxyGoto(c, "conflict") /\ Fine /\ UNCHANGED <<record, alarm>>
     \/ ProxyGoto(c, "lost") /\ Fault /\ UNCHANGED <<record, alarm>>
  /\ UNCHANGED <<clock, owner, box, launch, runner, ring, downstream>>

(* The callback handler, if the call reaches it before the context expires. *)
Deliver(p) == IF p \in Terminal /\ taken = Nothing
              THEN Callbacks!Take(p) ELSE UNCHANGED downstream

ProxyForward(c) ==
  /\ ProxyAt(c, "forward")
  /\ ProxyGoto(c, "done")
  /\ \/ clock < 2 /\ Deliver(c)
     \/ UNCHANGED downstream
  /\ UNCHANGED <<clock, owner, record, alarm, box, launch, runner, ring, faults>>

ProxyStep(c) == ProxyClaim(c) \/ ProxyFree(c) \/ ProxySubmit(c) \/ ProxyForward(c)

-----------------------------------------------------------------------------
(* The alarm handler: one at a time, for one object has one alarm. It      *)
(* keeps the record it read, and the time it was woken at.                 *)

RingAt(step) == ring.pc = step
RingGoto(step) == ring' = [ring EXCEPT !.pc = step]

(* The error of a failed finalization, or of a handler that dies: the      *)
(* alarm is set again, by finalizeFailure or by the platform.              *)
ThrowUnarmed == ring' = NoRing /\ UNCHANGED alarm

ThrowUncapped == ring' = NoRing /\ alarm' = clock + 2

Throw == ring' = NoRing /\ alarm' = clock

(* deliver answers "retry"; finalize throws.                               *)
FailsQuietly == RingGoto(IF ring.failing THEN "own" ELSE "settle") /\ UNCHANGED alarm

Fails == IF ring.failing THEN Throw ELSE RingGoto("settle") /\ UNCHANGED alarm

Woken(step, held) == [pc |-> step, now |-> clock, held |-> held,
                      failing |-> step = "persist"]

Wake ==
  /\ RingAt("idle") /\ alarm <= clock
  /\ LET waiting == record.state = "awaiting_terminal"
         due     == [record EXCEPT !.state = "pending"] IN
     \/ /\ \/ record.state \in {"absent", "completed"}
           \/ record.state = "failed_terminal" /\ record.finalized
        /\ alarm' = Never /\ UNCHANGED <<record, ring>>
     \/ /\ record.state = "failed_terminal" /\ ~record.finalized
        /\ ring' = Woken("persist", record)
        /\ alarm' = Never /\ UNCHANGED record
     \/ /\ waiting
        /\ IF clock < 1 THEN alarm' = 1 /\ UNCHANGED <<record, ring>>
           ELSE /\ record' = due /\ ring' = Woken("deliver", due)
                /\ alarm' = Never
     \/ /\ record.state = "pending"
        /\ ring' = Woken("deliver", record)
        /\ alarm' = Never /\ UNCHANGED record
  /\ UNCHANGED <<clock, owner, box, launch, runner, proxy, faults, downstream>>

(* The callback is sent with a boundary handle of its own, which cannot be *)
(* had once the context has expired. Only its own payload can be answered  *)
(* as completed.                                                           *)
RingDeliver ==
  /\ RingAt("deliver")
  /\ \/ /\ clock < 2 /\ Deliver(ring.held.payload)
        /\ RingGoto(IF taken' = ring.held.payload THEN "await" ELSE "settle")
     \/ UNCHANGED downstream /\ RingGoto("settle")
  /\ UNCHANGED <<clock, owner, record, alarm, box, launch, runner, proxy, faults>>

(* Five seconds for the answer.                                            *)
RingAwaitAccepted ==
  /\ RingAt("await")
  /\ RingGoto("destroy") \/ RingGoto("settle")
  /\ UNCHANGED <<clock, owner, record, alarm, box, launch, runner, proxy, faults,
                 downstream>>

RingAwait ==
  /\ RingAt("await")
  /\ \/ completed /\ RingGoto("destroy")
     \/ RingGoto("settle")
  /\ UNCHANGED <<clock, owner, record, alarm, box, launch, runner, proxy, faults,
                 downstream>>

(* failDevelopmentTerminalOutboxRecord accounts for the job first. A job   *)
(* accounted for as told is another batch of the same effect.              *)
AccountedAnyhow == accounted # "open"

AccountedSame == accounted = "unknown"

RingPersist ==
  /\ RingAt("persist")
  /\ \/ /\ accounted = "open" /\ Callbacks!GiveUp
        /\ RingGoto("destroy") /\ Fine /\ UNCHANGED alarm
     \/ /\ AccountedSame /\ UNCHANGED downstream
        /\ RingGoto("destroy") /\ Fine /\ UNCHANGED alarm
     \/ /\ accounted = "told" /\ UNCHANGED downstream
        /\ Throw /\ Fine
     \/ UNCHANGED downstream /\ Throw /\ Fault
  /\ UNCHANGED <<clock, owner, record, box, launch, runner, proxy>>

(* destroyRecordedContainer, up to its receipt.                            *)
RingDestroy ==
  /\ RingAt("destroy")
  /\ \/ /\ ring.held.destroyed
        /\ RingGoto("own") /\ Fine /\ UNCHANGED <<box, runner, alarm>>
     \/ /\ ~ring.held.destroyed /\ ring.held.box = 0
        /\ Fails /\ Fine /\ UNCHANGED <<box, runner>>
     \/ /\ ~ring.held.destroyed /\ ring.held.box # 0
        /\ \/ /\ Destroy(ring.held.box)
              /\ RingGoto("note") /\ Fine /\ UNCHANGED alarm
           \/ /\ Destroy(ring.held.box) \/ UNCHANGED <<box, runner>>
              /\ Fails /\ Fault
  /\ UNCHANGED <<clock, owner, record, launch, proxy, downstream>>

RingNote ==
  /\ RingAt("note")
  /\ \/ TakesReceipt /\ MarkDestroyed /\ RingGoto("own") /\ Fine /\ UNCHANGED alarm
     \/ ~TakesReceipt /\ Fails /\ Fine /\ UNCHANGED record
     \/ Fails /\ Fault /\ ((TakesReceipt /\ MarkDestroyed) \/ UNCHANGED record)
  /\ UNCHANGED <<clock, owner, box, launch, runner, proxy, downstream>>

(* completeDevelopmentJobOwner and failDevelopmentJobOwner: the claim must *)
(* be there, and its state is overwritten whatever it is. A finalization   *)
(* writes to Brainbase before, which may fail as this does.                *)
OutcomeBlind == "succeeded"

Outcome == IF ring.failing THEN "failed_terminal" ELSE "succeeded"

RingOwn ==
  /\ RingAt("own")
  /\ \/ /\ owner # "none" /\ owner' = Outcome
        /\ RingGoto("finish") /\ Fine /\ UNCHANGED alarm
     \/ owner = "none" /\ UNCHANGED owner /\ Fails /\ Fine
     \/ /\ UNCHANGED owner \/ (owner # "none" /\ owner' = Outcome)
        /\ Fails /\ Fault
  /\ UNCHANGED <<clock, record, box, launch, runner, proxy, downstream>>

(* complete, or the last transaction of finalizeFailure. Only the alarm    *)
(* handler leaves pending, so the record is still the one it read.         *)
RingFinish ==
  /\ RingAt("finish")
  /\ record' = IF ring.failing THEN [record EXCEPT !.finalized = TRUE]
               ELSE [record EXCEPT !.state = "completed"]
  /\ ring' = NoRing
  /\ UNCHANGED <<clock, owner, alarm, box, launch, runner, proxy, faults, downstream>>

(* A delivery to be tried again in two seconds, or no more.                *)
RingSettle ==
  /\ RingAt("settle")
  /\ IF ring.now < 2
     THEN ring' = NoRing /\ alarm' = clock /\ UNCHANGED record
     ELSE LET failed == [record EXCEPT !.state = "failed_terminal"] IN
          /\ record' = failed
          /\ ring' = [ring EXCEPT !.pc = "persist", !.held = failed, !.failing = TRUE]
          /\ UNCHANGED alarm
  /\ UNCHANGED <<clock, owner, box, launch, runner, proxy, faults, downstream>>

RingDies ==
  /\ ~RingAt("idle") /\ Fault
  /\ Throw
  /\ UNCHANGED <<clock, owner, record, box, launch, runner, proxy, downstream>>

RingStep == \/ Wake \/ RingDeliver \/ RingAwait \/ RingPersist \/ RingDestroy
            \/ RingNote \/ RingOwn \/ RingFinish \/ RingSettle

-----------------------------------------------------------------------------
(* What the callback handler does on its own, and time.                    *)

CallbackHandled ==
  /\ Callbacks!Account \/ Callbacks!Complete
  /\ UNCHANGED <<clock, owner, record, alarm, box, launch, runner, proxy, ring, faults>>

(* Timing: a container starts before its watchdog is due, for its runner   *)
(* was given all the time in between.                                      *)
Tick ==
  /\ clock < 2 /\ launch.pc \notin {"arm", "create"}
  /\ clock' = clock + 1
  /\ UNCHANGED <<owner, record, alarm, box, launch, runner, proxy, ring, faults,
                 downstream>>

Next ==
  \/ LaunchStep \/ LaunchDies
  \/ \E n \in Launch : Call(n) \/ RunnerDies(n)
  \/ \E c \in Callback : ProxyStep(c)
  \/ RingStep \/ RingDies
  \/ CallbackHandled \/ Tick

Spec == Init /\ [][Next]_vars

-----------------------------------------------------------------------------
(* Properties.                                                             *)

TypeOK ==
  /\ clock \in Time
  /\ owner \in {"none", "claimed"} \cup Settled
  /\ record \in Record
  /\ alarm \in Time \cup {Never}
  /\ box \in [Launch -> {"none", "running", "destroyed"}]
  /\ launch \in [pc : {"queued", "arm", "create", "clean", "note", "cancel",
                      "release", "accepted", "refused"}, n : Launch \cup {0}]
  /\ runner \in [Launch -> {"off", "progress", "result"}]
  /\ proxy \in [Callback -> {"off", "claim", "free", "submit", "forward", "done",
                             "refused", "conflict", "lost"}]
  /\ ring \in [pc : {"idle", "deliver", "await", "persist", "destroy", "note",
                    "own", "finish", "settle"},
               now : Time, held : Record, failing : BOOLEAN]
  /\ faults \in 0..MaxFaults
  /\ taken \in Terminal \cup {Nothing}
  /\ accounted \in {"open", "told", "unknown"}
  /\ completed \in BOOLEAN

(* The owner claim of a job that was launched once is settled only after   *)
(* its container is destroyed and the receipt of that is on record.        *)
SettledIsSanitized ==
  owner \in Settled =>
    /\ record.destroyed
    /\ launch.n = 1 => \A n \in Launch : box[n] # "running"

(* An owner that succeeded had its callback delivered and accounted for,   *)
(* and the payload on record is the one that was.                          *)
SucceededIsDelivered ==
  owner = "succeeded" =>
    completed /\ accounted = "told" /\ taken = record.payload

(* A record ends after its owner claim, with the same outcome, and a job   *)
(* that is given up is accounted for as given up.                          *)
EndedIsSettled ==
  /\ record.state = "completed" => owner = "succeeded"
  /\ record.finalized => /\ record.state = "failed_terminal"
                         /\ owner = "failed_terminal" /\ accounted = "unknown"

(* An owner claim is settled once: never released, never overwritten,      *)
(* although completeIdempotency would overwrite it.                        *)
OwnerOutcomeIsFinal == [][(owner \in Settled) => owner' = owner]_owner

(* The first callback is kept: once it took the place of the watchdog, the *)
(* record keeps its payload and its container, and it moves only forward.  *)
Rank == [absent |-> 0, awaiting_terminal |-> 1, pending |-> 2,
         completed |-> 3, failed_terminal |-> 3]

RecordIsMonotone ==
  [][Rank[record.state] >= 2 =>
       /\ record'.payload = record.payload /\ record'.box = record.box
       /\ record.destroyed => record'.destroyed
       /\ record'.state = record.state \/ Rank[record'.state] > Rank[record.state]]_record

(* The first real terminal callback wins (development-terminal-outbox.     *)
(* test.ts:63): a result is turned away only for another terminal payload. *)
FirstTerminalWins ==
  \A n \in Launch :
    proxy[<<"result", n>>] = "conflict" => record.payload \in Terminal

-----------------------------------------------------------------------------
(* The platform rings an alarm that is due and runs its handler, and a     *)
(* launch that does not die, to the end. Neither the runner nor the proxy  *)
(* nor the handler of the callback is relied on.                           *)
LiveSpec == Spec /\ WF_vars(RingStep) /\ WF_vars(LaunchStep) /\ WF_vars(Tick)

(* A job whose callback or timeout is owed and whose container is on       *)
(* record ends: as completed, as given up, or for ever unsettled, because  *)
(* it was accounted for as told before it was completed, or because the    *)
(* launch gave its owner claim back although the record was no longer      *)
(* waiting.                                                                *)
EventuallyEnds ==
  record.state = "pending" /\ record.box # 0 ~>
    \/ record.state = "completed" \/ record.finalized
    \/ record.state = "failed_terminal" /\ (accounted = "told" \/ owner = "none")

=============================================================================
