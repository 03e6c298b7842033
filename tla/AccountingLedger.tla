-------------------------- MODULE AccountingLedger --------------------------
(***************************************************************************)
(* The accounting of one operation: a usage event and a receipt, frozen in *)
(* the tenant's Durable Object before they are written to Brainbase, and   *)
(* marked as written afterwards (accounting.ts, tenant-runtime-state.ts).  *)
(* Deliveries of the operation overlap and repeat: each first finishes     *)
(* what an earlier one froze, else asks for quota, runs the operation and  *)
(* freezes its outcome (production-consumer.ts).  An outcome nobody knows  *)
(* is left to a continuation, which settles it with a newer context.       *)
(*                                                                         *)
(* The keys of an accounting's events and receipt are changed in one       *)
(* transaction, so they are one entry.  Brainbase and the operation itself *)
(* (which is not run twice, see ReplyTurn and AtMostOnceEffect) are        *)
(* external.                                                               *)
(***************************************************************************)
EXTENDS Naturals

CONSTANTS
  Deliveries,    \* deliveries of the operation that may overlap
  MaxStarts,     \* bound: times a delivery or the continuation starts
  MaxGlitches    \* bound: outages, lost answers, deaths

VARIABLES
  entry,      \* the batch under the accounting's keys: claimed, then written
  frozen,     \* the artifact in the outbox, if any
  stamp,      \* the reserved time of the receipt
  books,      \* the artifacts Brainbase has
  effect,     \* whether the operation's effect took place
  deferred,   \* the artifact the continuation was given
  starts, work, glitches

ledgerVars == <<entry, frozen, stamp, books, effect, deferred, starts, work, glitches>>

Continuation == 0
Workers == Deliveries \cup {Continuation}
Outcomes == {"succeeded", "failed", "unknown"}
None == [outcome |-> "none", at |-> 0]
Resting == [pc |-> "idle", artifact |-> None, answer |-> "none"]

Init ==
  /\ entry = [state |-> "none", batch |-> None] /\ frozen = None /\ stamp = 0
  /\ books = {} /\ effect = FALSE /\ deferred = None
  /\ starts = [w \in Workers |-> 0] /\ work = [w \in Workers |-> Resting] /\ glitches = 0

At(w, pc) == work[w].pc = pc
To(w, pc) == work' = [work EXCEPT ![w].pc = pc]
Holds(w, pc, a) == work' = [work EXCEPT ![w].pc = pc, ![w].artifact = a]
Ends(w, answer) == work' = [work EXCEPT ![w] = [pc |-> "done", artifact |-> work[w].artifact, answer |-> answer]]
\* the keys are bound to the content: another artifact is another batch
Claimed(a) == entry.state = "claimed" /\ entry.batch = a
Glitch == glitches < MaxGlitches /\ glitches' = glitches + 1

-----------------------------------------------------------------------------
\* a delivery, or another one after a failure, reads what is frozen
Start(w) ==
  /\ w # Continuation /\ starts[w] < MaxStarts
  /\ At(w, "idle") \/ (At(w, "done") /\ work[w].answer = "error")
  /\ starts' = [starts EXCEPT ![w] = @ + 1]
  /\ IF frozen # None THEN Holds(w, "freeze", frozen) ELSE Holds(w, "run", None)
  /\ UNCHANGED <<entry, frozen, stamp, books, effect, deferred, glitches>>
\* the continuation holds the artifact it was given
Continue ==
  /\ deferred # None /\ starts[Continuation] < MaxStarts
  /\ At(Continuation, "idle") \/ (At(Continuation, "done") /\ work[Continuation].answer = "error")
  /\ starts' = [starts EXCEPT ![Continuation] = @ + 1]
  /\ Holds(Continuation, "freeze", deferred)
  /\ UNCHANGED <<entry, frozen, stamp, books, effect, deferred, glitches>>

\* the quota is refused or the operation fails; it is done, now or before; or nobody knows
Run(w) ==
  /\ At(w, "run")
  /\ \/ effect' = TRUE /\ Holds(w, "stamp", [None EXCEPT !.outcome = "succeeded"]) /\ UNCHANGED glitches
     \/ /\ Glitch /\ ~effect /\ UNCHANGED effect
        /\ Holds(w, "stamp", [None EXCEPT !.outcome = "failed"])
     \/ /\ Glitch /\ ~effect /\ effect' \in BOOLEAN
        /\ Holds(w, "stamp", [None EXCEPT !.outcome = "unknown"])
  /\ UNCHANGED <<entry, frozen, stamp, books, deferred, starts>>

\* mutant: every delivery stamps its own receipt
StampOwn(w) ==
  /\ At(w, "stamp")
  /\ stamp' = w
  /\ Holds(w, "freeze", [work[w].artifact EXCEPT !.at = stamp'])
  /\ UNCHANGED <<entry, frozen, books, effect, deferred, starts, glitches>>
\* the first time proposed is the receipt's, whoever builds it
Stamp(w) ==
  /\ At(w, "stamp")
  /\ stamp' = IF stamp = 0 THEN w ELSE stamp
  /\ Holds(w, "freeze", [work[w].artifact EXCEPT !.at = stamp'])
  /\ UNCHANGED <<entry, frozen, books, effect, deferred, starts, glitches>>

\* mutant: the newest outcome replaces the frozen one
FreezeNewest(w) ==
  /\ At(w, "freeze")
  /\ LET a == work[w].artifact IN
     CASE entry.state = "written" /\ entry.batch = a ->
            Ends(w, IF frozen = None THEN "recorded" ELSE "error") /\ UNCHANGED <<entry, frozen, deferred>>
       [] OTHER ->
            /\ entry' = [state |-> "claimed", batch |-> a] /\ frozen' = a
            /\ deferred' = IF a.outcome = "unknown" THEN a ELSE deferred
            /\ IF a.outcome = "unknown" /\ w # Continuation THEN Ends(w, "deferred") ELSE To(w, "write")
  /\ UNCHANGED <<stamp, books, effect, starts, glitches>>
\* frozen once; the same again goes on with it, another one is a conflict
Freeze(w) ==
  /\ At(w, "freeze")
  /\ LET a == work[w].artifact IN
     CASE entry.state = "written" /\ entry.batch = a ->
            Ends(w, IF frozen = None THEN "recorded" ELSE "error") /\ UNCHANGED <<entry, frozen, deferred>>
       [] Claimed(a) /\ frozen = a ->
            To(w, "write") /\ UNCHANGED <<entry, frozen, deferred>>
       [] entry.state = "none" ->
            /\ entry' = [state |-> "claimed", batch |-> a] /\ frozen' = a
            /\ deferred' = IF a.outcome = "unknown" THEN a ELSE deferred
            /\ IF a.outcome = "unknown" /\ w # Continuation THEN Ends(w, "deferred") ELSE To(w, "write")
       [] OTHER -> Ends(w, "conflict") /\ UNCHANGED <<entry, frozen, deferred>>
  /\ UNCHANGED <<stamp, books, effect, starts, glitches>>

\* accepted, refused, or accepted with the answer lost
Write(w) ==
  /\ At(w, "write")
  /\ \/ books' = books \cup {work[w].artifact} /\ To(w, "complete") /\ UNCHANGED glitches
     \/ Glitch /\ books' \in {books, books \cup {work[w].artifact}} /\ Ends(w, "error")
  /\ UNCHANGED <<entry, frozen, stamp, effect, deferred, starts>>

\* mutant: an entry that is still claimed is completed by whoever read it
CompleteEarly(w) ==
  /\ At(w, "write")
  /\ IF Claimed(work[w].artifact)
     THEN entry' = [entry EXCEPT !.state = "written"] /\ frozen' = None /\ Ends(w, "recorded")
     ELSE UNCHANGED <<entry, frozen>> /\ Ends(w, "conflict")
  /\ UNCHANGED <<stamp, books, effect, deferred, starts, glitches>>
\* one of the workers that wrote it completes it, the others find it written
Complete(w) ==
  /\ At(w, "complete")
  /\ IF Claimed(work[w].artifact)
     THEN entry' = [entry EXCEPT !.state = "written"] /\ frozen' = None /\ Ends(w, "recorded")
     ELSE UNCHANGED <<entry, frozen>> /\ Ends(w, "conflict")
  /\ UNCHANGED <<stamp, books, effect, deferred, starts, glitches>>

\* a Worker that stops, or a call to the Durable Object that fails
Die(w) ==
  /\ work[w].pc \notin {"idle", "done"} /\ Glitch
  /\ Ends(w, "error")
  /\ UNCHANGED <<entry, frozen, stamp, books, effect, deferred, starts>>

-----------------------------------------------------------------------------
\* mutant: an unknown outcome is left to the deliveries
ProceedAlone(w) == Run(w) \/ Stamp(w) \/ Freeze(w) \/ Write(w) \/ Complete(w) \/ (starts[w] > 0 /\ Start(w))
\* what is started goes on, is retried after an error, and the continuation is taken up
Proceed(w) ==
  \/ Run(w) \/ Stamp(w) \/ Freeze(w) \/ Write(w) \/ Complete(w)
  \/ starts[w] > 0 /\ Start(w)
  \/ w = Continuation /\ Continue
Next == \E w \in Workers : (starts[w] = 0 /\ Start(w)) \/ Proceed(w) \/ Die(w)
Fairness == \A w \in Workers : WF_ledgerVars(Proceed(w))
Spec == Init /\ [][Next]_ledgerVars /\ Fairness

-----------------------------------------------------------------------------
TypeOK ==
  LET Frozen == [outcome : Outcomes, at : {0} \cup Deliveries] \cup {None} IN
  /\ entry \in [state : {"none", "claimed", "written"}, batch : Frozen]
  /\ {frozen, deferred} \subseteq Frozen /\ stamp \in {0} \cup Deliveries
  /\ books \subseteq Frozen \ {None} /\ effect \in BOOLEAN
  /\ starts \in [Workers -> 0..MaxStarts] /\ glitches \in 0..MaxGlitches
  /\ work \in [Workers -> [pc : {"idle", "run", "stamp", "freeze", "write", "complete", "done"}, artifact : Frozen,
                           answer : {"none", "recorded", "deferred", "conflict", "error"}]]

\* Whatever overlaps, repeats or is lost, Brainbase gets one account of the
\* operation, the one that was frozen (DurableTenantStateStore.claimAccounting).
BookedOnce == \A a \in books : entry.state # "none" /\ a = entry.batch

\* What the ledger says is written, Brainbase has; and what is not, is still
\* frozen to be written (DurableTenantStateStore.completeAccounting).
WrittenIsBooked ==
  /\ entry.state = "written" => entry.batch \in books /\ frozen = None
  /\ entry.state = "claimed" => frozen = entry.batch

\* Two accounts of the same outcome never conflict, though two deliveries built
\* them at different times (reserveAccountingTimestamp).
SameOutcomeAgrees ==
  \A w \in Workers :
    At(w, "freeze") /\ entry.state # "none" /\ entry.batch.outcome = work[w].artifact.outcome
      => entry.batch = work[w].artifact

\* What is frozen is written in the end, by the delivery that froze it, another
\* one or the continuation, as long as one of them is retried (settleTenantAccountingContinuation).
GivenUp(w) ==
  \/ starts[w] = MaxStarts
  \/ At(w, "idle") /\ (w = Continuation => deferred = None)
  \/ At(w, "done") /\ work[w].answer # "error"
EventuallyBooked == (frozen # None) ~> (frozen = None \/ \A w \in Workers : GivenUp(w))
=============================================================================
