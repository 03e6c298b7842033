------------------------------ MODULE LedgersMC -----------------------------
(***************************************************************************)
(* The records that are kept per key, side by side: part chooses what      *)
(* moves, the others rest in an initial state.  In Ledgers.cfg,            *)
(* Accounting: three deliveries of one operation and its continuation.     *)
(* Contracts: a day's job and the clicks on its questions about two        *)
(* envelopes.  Autonomy: three runs of one experiment.  Installation: two  *)
(* intents, two callbacks and two lifecycle events of one workspace.       *)
(***************************************************************************)
EXTENDS Naturals, FiniteSets, Sequences

CONSTANTS
  Deliveries, MaxStarts, MaxGlitches,
  Envelopes, Days, MaxJobs, MaxRetries, MaxSlips,
  MaxRuns, Limit, Stale, Life, Expires, Grace, MaxTime, MaxUpsets,
  Intents, Callbacks, Events, MaxMisses

VARIABLES part,
  entry, frozen, stamp, books, effect, deferred, starts, work, glitches,
  mode, docs, sheet, cards, runs, asked, jobs, desk, outages,
  time, alarm, active, next, recent, checkpoint, records, seqs, cron, containers, upsets,
  intents, callbacks, exchanged, connection, events, misses

accountingVars == <<entry, frozen, stamp, books, effect, deferred, starts, work, glitches>>
contractVars == <<mode, docs, sheet, cards, runs, asked, jobs, desk, outages>>
autonomyVars == <<time, alarm, active, next, recent, checkpoint, records, seqs, cron, containers, upsets>>
installationVars == <<intents, callbacks, exchanged, connection, events, misses>>

Accounting == INSTANCE AccountingLedger
Contracts == INSTANCE ContractLedger
Autonomy == INSTANCE AutonomyRuns
Installation == INSTANCE SlackInstallation

Init ==
  /\ part \in {"accounting", "contracts", "autonomy", "installation"}
  /\ Accounting!Init /\ Contracts!Init /\ Autonomy!Init /\ Installation!Init
  /\ docs = [e \in Envelopes |-> IF e = 1 THEN "sent" ELSE "none"]
  /\ (mode = "full" /\ sheet = <<>>) \/ (part = "contracts" /\ mode = "existing" /\ sheet # <<>>)
AccountingMoves(A) == part = "accounting" /\ A /\ UNCHANGED <<part, contractVars, autonomyVars, installationVars>>
ContractsMoves(A) == part = "contracts" /\ A /\ UNCHANGED <<part, accountingVars, autonomyVars, installationVars>>
AutonomyMoves(A) == part = "autonomy" /\ A /\ UNCHANGED <<part, accountingVars, contractVars, installationVars>>
InstallationMoves(A) == part = "installation" /\ A /\ UNCHANGED <<part, accountingVars, contractVars, autonomyVars>>
Next ==
  \/ AccountingMoves(Accounting!Next) \/ ContractsMoves(Contracts!Next)
  \/ AutonomyMoves(Autonomy!Next) \/ InstallationMoves(Installation!Next)

\* the fairness of the part that moves: Accounting!Fairness, Contracts!Fairness or Autonomy!Fairness
suiteVars == <<part, accountingVars, contractVars, autonomyVars, installationVars>>
Fairness ==
  /\ WF_suiteVars(AccountingMoves(Accounting!Proceed(0)) \/ ContractsMoves(Contracts!Consume)
                  \/ AutonomyMoves(Autonomy!Move))
  /\ \A w \in Deliveries : WF_suiteVars(AccountingMoves(Accounting!Proceed(w)))
Spec == Init /\ [][Next]_suiteVars /\ Fairness
-----------------------------------------------------------------------------
\* AccountingLedger: Brainbase gets one account of an operation, what is marked
\* as written was written, and the accounts of one outcome agree.
AccountsAgree ==
  Accounting!TypeOK /\ Accounting!BookedOnce /\ Accounting!WrittenIsBooked /\ Accounting!SameOutcomeAgrees

\* ContractLedger: one row, one number and one question per envelope; a row that
\* is added was approved; a run that completes leaves current rows.
ContractsAreTrue ==
  /\ Contracts!TypeOK /\ Contracts!RowsAreUnique /\ Contracts!AskedOnce
  /\ Contracts!AddedIsApproved /\ Contracts!CompletedIsCurrent

\* A completed run is a recent one or counted in the checkpoint.
CompletedAreCounted ==
  checkpoint.done + Cardinality({i \in DOMAIN recent : records[recent[i]] = "completed"})
    = Cardinality({r \in Autonomy!Runs : records[r] = "completed"})

\* AutonomyRuns: every claimed run is counted, in order, and one run writes at a
\* time.  SlackInstallation: the code of an intent is exchanged once, and an
\* event of the workspace is applied once.
RunsAndEventsAreSingle ==
  /\ Autonomy!TypeOK /\ Autonomy!RunsAreCounted /\ CompletedAreCounted /\ Autonomy!OneWriter
  /\ Installation!TypeOK /\ Installation!ExchangedOnce /\ Installation!EventAppliesOnce

\* A terminal record of a run stays and a late event revives no connection; what
\* is frozen is written, a job of the contract ledger is done or given up aloud,
\* and an active run ends.
LedgersGoForward ==
  /\ Autonomy!RecordIsFinal /\ Installation!RevokedStays
  /\ (part = "accounting") => Accounting!EventuallyBooked
  /\ (part = "contracts") => Contracts!JobIsAnswered
  /\ (part = "autonomy") => Autonomy!ActiveEnds
=============================================================================
