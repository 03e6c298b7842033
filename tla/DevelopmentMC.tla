---------------------------- MODULE DevelopmentMC ----------------------------
(***************************************************************************)
(* What a development job, from its request on, a judged turn and Claude   *)
(* in a container run through, side by side: part chooses what moves, the  *)
(* others rest in an initial state.                                        *)
(* Improvement: two forms, two submissions, two people, of whom the second *)
(* deployment allows one, and one slip.                                    *)
(* Terminal: the message that starts the job is delivered twice, the       *)
(* runner only sends its result, two faults.  Runner: three runners of a   *)
(* host, or the one of a container, and one kill.  Hook: two calls that    *)
(* resolve the turn and one that reads evidence, two Stop events and two   *)
(* flaws.  Generation: streams of four events, one of them odd.  Provider: *)
(* two requests of Claude, a trace of four events.                         *)
(***************************************************************************)
EXTENDS Naturals, FiniteSets, Sequences

CONSTANTS Forms, Submissions, Askers, Employed, MaxSlips,  MaxLaunches, Reports, MaxFaults,  Runners, MaxKills,
          Calls, Resolving, MaxStops, MaxFlaws,  MaxEvents, MaxOdd,  Requests, MaxTrace, MaxNoise
BothThenOne == <<{1, 2}, {2}>>   \* whom the first deployment allows, and the second

VARIABLES part,
  deployed, granted, form, submission, announced, jobs, slips,
  clock, owner, record, alarm, box, launch, runner, proxy, ring, faults, taken, accounted, completed,
  place, lock, quarantine, pc, agents, story, questions, out, asked, spool, reached, queue, sent, ended, rivals, kills,
  assessed, grabbed,
  state, latch, call, copy, outcome, emitted, told, bad, phase, answer, passed, shown, verified, receipts, posted,
  stops, fresh, flaws,
  purpose, step, tries, receipt, stream, process, sandbox, report, minutes,
  request, child, server, counted, written, trace, noise

improvementVars == <<deployed, granted, form, submission, announced, jobs, slips>>
terminalVars == <<clock, owner, record, alarm, box, launch, runner, proxy, ring, faults, taken, accounted, completed>>
runnerVars == <<place, lock, quarantine, pc, agents, story, questions, out, asked, spool, reached, queue, sent, ended,
                rivals, kills, assessed, grabbed>>
hookVars == <<state, latch, call, copy, outcome, emitted, told, bad, phase, answer, passed, shown, verified, receipts,
              posted, stops, fresh, flaws>>

generationVars == <<purpose, step, tries, receipt, stream, process, sandbox, report, minutes>>
providerVars == <<request, child, server, counted, written, trace, noise>>
claudeVars == <<generationVars, providerVars>>

Improvement == INSTANCE ImprovementRequest WITH Allowed <- Employed
Terminal == INSTANCE DevelopmentTerminal
Runner == INSTANCE DevelopmentRunner
Hook == INSTANCE JudgmentHook
Generation == INSTANCE MinutesGeneration
Provider == INSTANCE ProviderProxy

Init ==
  /\ part \in {"improvement", "terminal", "runner", "hook", "generation", "provider"}
  /\ Improvement!Init /\ Terminal!Init /\ Runner!Init /\ Hook!Init /\ Generation!Init /\ Provider!Init
  /\ place = "container" \/ part = "runner"
  /\ purpose = "routing" \/ part = "generation"
TerminalMoves(A) == part = "terminal" /\ A /\ UNCHANGED <<part, improvementVars, runnerVars, hookVars, claudeVars>>
RunnerMoves(A) == part = "runner" /\ A /\ UNCHANGED <<part, improvementVars, terminalVars, hookVars, claudeVars>>
HookMoves(A) == part = "hook" /\ A /\ UNCHANGED <<part, improvementVars, terminalVars, runnerVars, claudeVars>>
GenerationMoves(A) ==
  part = "generation" /\ A /\ UNCHANGED <<part, improvementVars, terminalVars, runnerVars, hookVars, providerVars>>
ProviderMoves(A) ==
  part = "provider" /\ A /\ UNCHANGED <<part, improvementVars, terminalVars, runnerVars, hookVars, generationVars>>
Next ==
  \/ part = "improvement" /\ Improvement!Next /\ UNCHANGED <<part, terminalVars, runnerVars, hookVars, claudeVars>>
  \/ TerminalMoves(Terminal!Next) \/ RunnerMoves(Runner!Next) \/ HookMoves(Hook!Next)
  \/ GenerationMoves(Generation!Next) \/ ProviderMoves(Provider!Next)

\* the fairness of the part that moves: Terminal!LiveSpec or Runner!Spec
suiteVars == <<part, improvementVars, terminalVars, runnerVars, hookVars, claudeVars>>
Fairness ==
  /\ WF_suiteVars(TerminalMoves(Terminal!RingStep) \/ RunnerMoves(Runner!Proceed(1)))
  /\ WF_suiteVars(TerminalMoves(Terminal!LaunchStep)) /\ WF_suiteVars(TerminalMoves(Terminal!Tick))
Spec == Init /\ [][Next]_suiteVars /\ Fairness
-----------------------------------------------------------------------------
\* ImprovementRequest: a job is queued as it was announced, for somebody who
\* was allowed, and no further than the form said.
\* DevelopmentTerminal: an owner claim is settled after its container is
\* destroyed; an owner that succeeded was delivered and accounted for; a record
\* ends after its owner claim, with the same outcome.
DevelopmentEndsAsTold ==
  /\ Improvement!TypeOK /\ Improvement!QueuedIsAnnounced /\ Improvement!QueuedIsAllowed /\ Improvement!BlamedIsBlank
  /\ Terminal!TypeOK /\ Terminal!SettledIsSanitized /\ Terminal!SucceededIsDelivered /\ Terminal!EndedIsSettled

\* DevelopmentRunner: one runner works at a time, and no agent of a dead one
\* beside it, until a reclaimer takes away another lock than it assessed; one
\* that is refused the lock had a rival; a questions document is asked once; no
\* callback follows the terminal one.
OneRunnerAtWork ==
  Runner!TypeOK /\ Runner!OneRunner /\ Runner!RefusedHasRival /\ Runner!AskedIsNew /\ Runner!TerminalIsLast

\* JudgmentHook: no evidence is read before the turn is resolved, the Host's
\* journal gets each call once, the answer that is posted is the one the Host
\* passed, and the Host is told once that an answer is the first, but for what
\* was lost.
TurnIsJudged == Hook!TurnIsJudged

\* MinutesGeneration and ProviderProxy: minutes are of the session and receipt
\* they name, an audit proves the tool was called, a failure is told by its
\* cause; a closed proxy holds nothing of the provider, and a trace keeps what
\* happened before what was printed.
ClaudeIsAttested ==
  /\ Generation!TypeOK /\ Generation!MinutesAreAttested /\ Generation!AuditIsProof
  /\ Generation!DiagnosisIsSpecific /\ Generation!EndedIsDestroyed
  /\ Provider!TypeOK /\ Provider!ClosedIsQuiet /\ Provider!TraceKeepsLifecycle

\* An owner claim is settled once, the first callback is kept and the record
\* moves only forward, the spool never goes back to an earlier run, what a hook
\* noted stays; and a job whose callback or timeout is owed ends, and a runner
\* that was launched is reported as ended.
DevelopmentGoesForward ==
  /\ Terminal!OwnerOutcomeIsFinal /\ Terminal!RecordIsMonotone
  /\ Runner!SpoolGoesForward /\ Hook!NotesAreKept
  /\ (part = "terminal") => Terminal!EventuallyEnds
  /\ (part = "runner") => Runner!EventuallyReported
=============================================================================
