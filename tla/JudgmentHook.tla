----------------------------- MODULE JudgmentHook -----------------------------
(***************************************************************************)
(* The judgment hook of a reply turn (container/brainbase-judgment-hook.   *)
(* mjs) and what the Worker makes of its receipts (reply-judgment.ts).     *)
(* Each hook event runs a process of its own: before a tool call it holds  *)
(* back what comes before the turn is resolved, after it the Host's        *)
(* journal is told and a receipt kept in the state file of the turn,       *)
(* behind a lock directory.  Stop first replays the receipts that are      *)
(* missing, then asks the Host about the answer and repairs it once.  The  *)
(* Worker posts an answer only if the receipts of the stream bind it.      *)
(* Claude, its stream, the Host and the transcript are external.           *)
(***************************************************************************)
EXTENDS Naturals, FiniteSets

CONSTANTS Calls,      \* Brainbase calls Claude makes
          Resolving,  \* those that ask to resolve the turn; the others read evidence
          MaxStops,   \* bound on Stop events
          MaxFlaws    \* bound on hooks killed, answers of the Host lost, and responses left out of the stream

Resolve(c) == c \in Resolving
VARIABLES state,     \* the state file of the turn
          latch,      \* who holds its lock directory: a call, or 0
          call,      \* where each call and its hook are: see Stages
          copy,      \* what a hook read of the state file while it holds the lock
          outcome,   \* the result of each call
          emitted,   \* PostToolUse receipts that are in the stream
          told,      \* the Host's journal: events of each call
          bad,       \* a hook of the stream failed
          phase,     \* "model", "replay", "ask", "result", "posted", "rejected"
          answer, passed, shown,  \* the answer: its version, the one the Host passed, the one of the result event
          verified,  \* the last Stop carries the answer the Host verified
          receipts,  \* the receipts the last Stop carries
          posted,    \* the answer the Worker posts
          stops, fresh, flaws     \* Stop events; those that told the Host they were the first; flaws used
turnVars == <<state, latch, call, copy, outcome, emitted, told>>
stopVars == <<phase, answer, passed, shown, verified, receipts, posted, stops, fresh>>
vars == <<turnVars, stopVars, bad, flaws>>

Stages == {"off", "deny", "denying", "run", "send", "record", "recording", "mark", "marking", "over"}
Blank == [resolved |-> FALSE, repair |-> FALSE, denied |-> {}, kept |-> {}]
\* UserPromptSubmit, whose route receipt the Worker requires, begins the turn (resolveTurnId)
Init ==
  /\ state = Blank /\ latch = 0 /\ copy = [c \in Calls |-> Blank] /\ call = [c \in Calls |-> "off"]
  /\ outcome = [c \in Calls |-> "none"] /\ emitted = {} /\ told = [c \in Calls |-> 0] /\ bad = FALSE
  /\ phase = "model" /\ answer = 0 /\ passed = 0 /\ shown = 0 /\ verified = FALSE /\ receipts = {} /\ posted = 0
  /\ stops = 0 /\ fresh = 0 /\ flaws = 0

Step(c, p) == call' = [call EXCEPT ![c] = p]
Flaw == flaws < MaxFlaws /\ flaws' = flaws + 1
\* PreToolUse: requireResolveTurnFirst; whatever is held back is recorded as denied
\* mutant: a call may follow a resolve call that was only started
AllowedEarly(c) == Resolve(c) # (state.resolved \/ \E r \in Resolving : call[r] \notin {"off", "over"})
Allowed(c) == Resolve(c) # state.resolved
Before(c) ==
  /\ phase = "model" /\ call[c] = "off" /\ Step(c, IF Allowed(c) THEN "run" ELSE "deny")
  /\ outcome' = IF Allowed(c) THEN outcome ELSE [outcome EXCEPT ![c] = "error"]
  /\ UNCHANGED <<state, latch, copy, emitted, told, stopVars, bad, flaws>>
\* the call returns; its PostToolUse hook runs, or Claude leaves the event out
Return(c) ==
  /\ call[c] = "run" /\ \E o \in {"success", "error"} : outcome' = [outcome EXCEPT ![c] = o]
  /\ Step(c, "send") /\ UNCHANGED <<state, latch, copy, emitted, told, stopVars, bad, flaws>>
Omit(c) ==
  /\ call[c] = "run" /\ Flaw /\ \E o \in {"success", "error"} : outcome' = [outcome EXCEPT ![c] = o]
  /\ Step(c, "over") /\ UNCHANGED <<state, latch, copy, emitted, told, stopVars, bad>>
\* fetchHookEnvelope and validatedOutput of a PostToolUse event; an answer that is lost fails the hook
Send(c) ==
  /\ call[c] = "send" /\ told' = [told EXCEPT ![c] = @ + 1]
  /\ \/ Step(c, "record") /\ UNCHANGED <<bad, flaws>>
     \/ Step(c, "over") /\ Flaw /\ bad' \in {TRUE, bad}
  /\ UNCHANGED <<state, latch, copy, outcome, emitted, stopVars>>
\* updateTurnState: the state is read behind the lock ...
Waits == [deny |-> "denying", record |-> "recording", mark |-> "marking"]
\* mutant: the state is read and written without the lock
LockIgnored == TRUE
LockFree == latch = 0
Enter(c) ==
  /\ call[c] \in DOMAIN Waits /\ LockFree /\ latch' = c /\ copy' = [copy EXCEPT ![c] = state] /\ Step(c, Waits[call[c]])
  /\ UNCHANGED <<state, outcome, emitted, told, stopVars, bad, flaws>>
\* ... and written with the denial, the receipt or the completed resolve call (recordPreToolDenial,
\* recordCompletedToolReceipt, markResolveTurnCompleted); the hook then answers in the stream, or is left out of it
Updated(c) == CASE call[c] = "denying" -> [copy[c] EXCEPT !.denied = @ \cup {c}]
                [] call[c] = "recording" -> [copy[c] EXCEPT !.kept = @ \cup {c}]
                [] OTHER -> [copy[c] EXCEPT !.resolved = TRUE]
Persist(c) ==
  /\ call[c] \in {"denying", "recording", "marking"}
  /\ state' = Updated(c) /\ latch' = 0 /\ copy' = [copy EXCEPT ![c] = Blank]
  /\ IF call[c] = "recording" /\ Resolve(c) /\ outcome[c] = "success" THEN Step(c, "mark") /\ UNCHANGED <<emitted, flaws>>
     ELSE /\ Step(c, "over")
          /\ \/ emitted' = (IF call[c] = "denying" THEN emitted ELSE emitted \cup {c}) /\ UNCHANGED flaws
             \/ call[c] # "denying" /\ Flaw /\ UNCHANGED emitted
  /\ UNCHANGED <<outcome, told, stopVars, bad>>
\* a hook is killed: the lock it holds stays, and whoever waits for it gives up
Die(c) == /\ call[c] \in {"recording", "marking"} /\ Flaw /\ Step(c, "over") /\ bad' \in {TRUE, bad}
          /\ UNCHANGED <<state, latch, copy, outcome, emitted, told, stopVars>>
GiveUp(c) == /\ call[c] \in DOMAIN Waits /\ latch # 0 /\ call[latch] = "over" /\ Step(c, "over") /\ bad' = TRUE
             /\ UNCHANGED <<state, latch, copy, outcome, emitted, told, stopVars, flaws>>

\* Claude ends its answer: the Stop hook reads the transcript
Stop ==
  /\ phase = "model" /\ stops < MaxStops /\ stops' = stops + 1 /\ \A c \in Calls : call[c] \in {"off", "over"}
  /\ phase' = "replay" /\ answer' = answer + 1 /\ shown' = answer + 1
  /\ UNCHANGED <<turnVars, passed, verified, receipts, posted, fresh, bad, flaws>>
\* replayMissingLifecycleToolReceipts: calls with a result, no receipt and no recorded denial
\* readTranscriptLifecycleCalls: every call and its result
Seen == {c \in Calls : outcome[c] # "none"}
\* mutant: every call of the transcript is replayed
MissingAll == Seen \ state.denied
Missing == Seen \ (state.kept \cup state.denied)
Fail == /\ phase' = "model" /\ bad' = TRUE
        /\ UNCHANGED <<answer, passed, shown, verified, receipts, posted, stops>>
Replay(c) ==
  /\ phase = "replay" /\ c \in Missing /\ told' = [told EXCEPT ![c] = @ + 1]
  /\ \/ /\ latch = 0 /\ UNCHANGED <<stopVars, bad, flaws>>
        /\ state' = [state EXCEPT !.kept = @ \cup {c}, !.resolved = @ \/ (Resolve(c) /\ outcome[c] = "success")]
     \/ latch # 0 /\ Fail /\ UNCHANGED <<state, fresh, flaws>>
     \/ Flaw /\ Fail /\ UNCHANGED <<state, fresh>>
  /\ UNCHANGED <<latch, call, copy, outcome, emitted>>
Replayed == /\ phase = "replay" /\ Missing = {} /\ phase' = "ask"
            /\ UNCHANGED <<turnVars, answer, passed, shown, verified, receipts, posted, stops, fresh, bad, flaws>>

\* the Host is asked about answer v; active tells it that a repair was already requested
Asks(active) == fresh' = IF active THEN fresh ELSE fresh + 1
Pass(v) == /\ phase' = "result" /\ verified' = TRUE /\ receipts' = state.kept /\ passed' = v /\ answer' = v
           /\ UNCHANGED <<shown, posted, stops>>
\* the Host lets the answer pass as it is
AskPass == phase = "ask" /\ Asks(state.repair) /\ Pass(answer) /\ UNCHANGED <<turnVars, bad, flaws>>
\* the Host names audit lines the answer lacks: the hook adds them, notes that it did, and asks once more
\* mutant: a repair is not noted
NoteNothing == UNCHANGED state
NoteRepair == state' = [state EXCEPT !.repair = TRUE]
AskRepair ==
  /\ phase = "ask" /\ ~state.repair /\ latch = 0 /\ Asks(state.repair) /\ NoteRepair
  /\ \/ Pass(answer + 1)
     \/ (phase' = "model" /\ UNCHANGED <<answer, passed, shown, verified, receipts, posted, stops>>)
  /\ bad' = (bad \/ phase' = "model") /\ UNCHANGED <<latch, call, copy, outcome, emitted, told, flaws>>
\* the Host wants the model to act: Claude goes on, or ends at once with the answer that was blocked
AskBlocked ==
  /\ phase = "ask" /\ latch = 0 /\ Asks(state.repair) /\ NoteRepair
  /\ phase' \in {"model", "result"} /\ verified' = FALSE /\ receipts' = state.kept
  /\ UNCHANGED <<latch, call, copy, outcome, emitted, told, bad, flaws, answer, passed, shown, posted, stops>>
\* a note that cannot be written, or an answer of the Host that is lost, fails the hook: Claude goes on
AskFails == /\ phase = "ask" /\ ((latch # 0 /\ UNCHANGED flaws) \/ Flaw) /\ Asks(state.repair) /\ Fail
            /\ UNCHANGED turnVars

\* parseReplyJudgmentStream: what was held back did not run; every evidence call that did is bound to
\* a receipt, emitted or carried by Stop (stopToolReceiptHooks)
Executed == {c \in Calls : outcome[c] # "none"} \ state.denied
Evidence == {c \in Executed : ~Resolve(c)}
Receipts == emitted \cup receipts
Bound == Evidence \subseteq Receipts
\* the answer the Host verified is canonical over a stale result event
\* mutant: the result event's answer is posted
CanonicalResult == shown
Canonical == IF verified THEN answer ELSE shown
Post ==
  /\ phase = "result" /\ verified /\ ~bad /\ Bound /\ phase' = "posted" /\ posted' = Canonical
  /\ UNCHANGED <<turnVars, answer, passed, shown, verified, receipts, stops, fresh, bad, flaws>>
Reject ==
  /\ phase = "result" /\ ~(verified /\ ~bad /\ Bound) /\ phase' = "rejected"
  /\ UNCHANGED <<turnVars, answer, passed, shown, verified, receipts, posted, stops, fresh, bad, flaws>>

Next ==
  \/ \E c \in Calls : \/ Before(c) \/ Return(c) \/ Omit(c) \/ Send(c) \/ Enter(c) \/ Persist(c) \/ Die(c) \/ GiveUp(c)
                      \/ Replay(c)
  \/ Stop \/ Replayed \/ AskPass \/ AskRepair \/ AskBlocked \/ AskFails \/ Post \/ Reject
Spec == Init /\ [][Next]_vars
-----------------------------------------------------------------------------
TypeOK == /\ \A c \in Calls : call[c] \in Stages /\ told[c] \in 0..(1 + MaxStops)
          /\ latch \in Calls \cup {0} /\ phase \in {"model", "replay", "ask", "result", "posted", "rejected"}
          /\ state.kept \cap state.denied = {} /\ state.kept \cup state.denied \subseteq Calls
\* Hooks that run side by side do not undo each other: a receipt, a denial or the completed resolve
\* call, once in the state file, stays (withTurnStateLock around read and write).
NotesAreKept == [][/\ state.kept \subseteq state'.kept /\ state.denied \subseteq state'.denied
                   /\ (state.resolved => state'.resolved) /\ (state.repair => state'.repair)]_vars
\* No evidence is read before the Host has the classification of the turn: whenever a read runs, the
\* resolve call returned well and its journal event reached the Host (requireResolveTurnFirst).
ResolvedFirst == \A c \in Calls : ~Resolve(c) /\ call[c] \in {"run", "send", "record", "recording"}
                                  => \E r \in Resolving : outcome[r] = "success" /\ told[r] > 0
\* A hook died with the lock: every later note is kept out.
Stuck == latch # 0 /\ call[latch] = "over"
\* The Host's journal gets each call once, whatever hooks were omitted, except for the answers and hooks
\* that were lost (the receipts that replayMissingLifecycleToolReceipts skips).
JournaledOnce == ~Stuck => \A c \in Calls : told[c] <= 1 + flaws
\* What the Worker posts is the very answer the Host passed, and every call of the turn that ran is in
\* the Host's journal (parseReplyJudgmentStream).
PostedIsJudged == phase = "posted" => /\ posted = passed
                                      /\ \A c \in Calls : outcome[c] # "none" /\ c \notin state.denied => told[c] > 0
\* The Host is told once that an answer is the first one, and again only if its reply was lost: after
\* a repair or a block the next one is marked, so that repairs end (stop_hook_active of the hook's own
\* state, not Claude's).
FirstOnce == ~Stuck => fresh <= 1 + flaws
TurnIsJudged == TypeOK /\ ResolvedFirst /\ JournaledOnce /\ PostedIsJudged /\ FirstOnce
=============================================================================
