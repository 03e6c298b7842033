--------------------------- MODULE ContractLedger ---------------------------
(***************************************************************************)
(* The contract ledger (contract-ledger.ts): a daily job reads the         *)
(* envelopes of DocuSign and the rows of a sheet, brings the rows up to    *)
(* date and asks people in Slack about the envelopes that have none; a     *)
(* click on the question is a job that adds the row, or rejects it.  The   *)
(* queue runs one job at a time, so that nothing else writes the sheet; it *)
(* retries a job, then tells the legal channel that it is a dead letter.   *)
(*                                                                         *)
(* DocuSign, the sheet and Slack are external: a write may fail, or take   *)
(* effect and fail, or be answered and not take effect.                    *)
(***************************************************************************)
EXTENDS Naturals, FiniteSets, Sequences, FiniteSetsExt

CONSTANTS
  Envelopes,    \* 1..n
  Days,         \* the days of the daily job, its idempotency keys
  MaxJobs,      \* bound: messages sent to the queue
  MaxRetries,   \* redeliveries before the dead letter queue
  MaxSlips      \* bound: outages, lost answers, deaths

VARIABLES
  mode,       \* the configured write mode
  docs,       \* DocuSign: the status of each envelope
  sheet,      \* the rows of the ledger
  cards,      \* the candidates of the Durable Object
  runs,       \* its daily runs
  asked,      \* questions posted about each envelope
  jobs,       \* the messages, in the order they were sent
  desk,       \* the job that runs and how far it is
  outages

contractVars == <<mode, docs, sheet, cards, runs, asked, jobs, desk, outages>>

Statuses == {"none", "sent", "completed", "voided"}
Decisions == {"approved", "rejected"}
Kinds == {"sync"} \cup Decisions
Row(e, no, status) == [of |-> e, no |-> no, status |-> status]
NoCard == [status |-> "none", told |-> FALSE, row |-> Row(0, 0, "none")]
NoWork == [pc |-> "none", job |-> 0, seen |-> [e \in Envelopes |-> "none"], todo |-> {}, fresh |-> {}]

Init ==
  /\ mode \in {"audit", "existing", "full"}
  /\ docs \in [Envelopes -> {"none", "sent"}]
  /\ sheet \in {<<>>} \cup {<<Row(e, 1, "sent")>> : e \in {f \in Envelopes : docs[f] = "sent"}}
  /\ cards = [e \in Envelopes |-> NoCard] /\ runs = [d \in Days |-> "none"]
  /\ asked = [e \in Envelopes |-> 0] /\ jobs = <<>> /\ desk = NoWork /\ outages = 0

Listed(rows) == {rows[i].of : i \in DOMAIN rows}
NextNo(rows) == 1 + Max({0} \cup {rows[i].no : i \in DOMAIN rows})
Fresh(rows, seen) == {e \in Envelopes \ Listed(rows) : seen[e] \notin {"none", "voided"}}
Proposed(e) ==
  LET before == {f \in Fresh(sheet, desk.seen) : f < e} IN
  Row(e, NextNo(sheet) + Cardinality(before), desk.seen[e])
Slip == outages < MaxSlips /\ outages' = outages + 1
This == jobs[desk.job]
At(kinds, pc) == desk.job # 0 /\ This.kind \in kinds /\ desk.pc = pc
To(pc) == desk' = [desk EXCEPT !.pc = pc]
Acks == jobs' = [jobs EXCEPT ![desk.job].state = "acked"] /\ desk' = NoWork
\* mutant: a message is never a dead letter
RetriesForever ==
  /\ jobs' = [jobs EXCEPT ![desk.job].state = "queued", ![desk.job].tries = @ + 1]
  /\ desk' = NoWork
\* the message is delivered again, or is a dead letter
Retries ==
  /\ jobs' = [jobs EXCEPT ![desk.job].state = IF This.tries = MaxRetries THEN "dead" ELSE "queued",
                          ![desk.job].tries = @ + 1]
  /\ desk' = NoWork

-----------------------------------------------------------------------------
\* an envelope is sent, completed or voided
Sign(e) ==
  /\ docs[e] \in {"none", "sent"}
  /\ docs' \in {[docs EXCEPT ![e] = IF @ = "none" THEN "sent" ELSE s] : s \in {"completed", "voided"}}
  /\ UNCHANGED <<mode, sheet, cards, runs, asked, jobs, desk, outages>>
\* the schedule, the manual trigger, or a click on a question that was posted
Send(kind, of) ==
  /\ Len(jobs) < MaxJobs
  /\ IF kind = "sync" THEN of \in Days /\ \A d \in Days : d < of => runs[d] # "none"
     ELSE of \in Envelopes /\ asked[of] > 0
  /\ jobs' = Append(jobs, [kind |-> kind, of |-> of, tries |-> 0, state |-> "queued"])
  /\ UNCHANGED <<mode, docs, sheet, cards, runs, asked, desk, outages>>
\* the consumer has one message at a time
Receive(i) ==
  /\ desk = NoWork /\ i \in DOMAIN jobs /\ jobs[i].state = "queued"
  /\ desk' = [NoWork EXCEPT !.pc = "claim", !.job = i]
  /\ UNCHANGED <<mode, docs, sheet, cards, runs, asked, jobs, outages>>

\* mutant: a run that is in progress is done
ClaimInProgress ==
  /\ At({"sync"}, "claim")
  /\ LET run == runs[This.of] IN
     \/ run = "completed" /\ Acks /\ UNCHANGED runs
     \/ run = "running" /\ Acks /\ UNCHANGED runs
     \/ run # "completed" /\ runs' = [runs EXCEPT ![This.of] = "running"] /\ To("read") /\ UNCHANGED jobs
  /\ UNCHANGED <<mode, docs, sheet, cards, asked, outages>>
\* a run is claimed again when it failed or its claim is five minutes old
Claim ==
  /\ At({"sync"}, "claim")
  /\ LET run == runs[This.of] IN
     \/ run = "completed" /\ Acks /\ UNCHANGED runs
     \/ run = "running" /\ Retries /\ UNCHANGED runs
     \/ run # "completed" /\ runs' = [runs EXCEPT ![This.of] = "running"] /\ To("read") /\ UNCHANGED jobs
  /\ UNCHANGED <<mode, docs, sheet, cards, asked, outages>>
\* mutant: a voided envelope is excluded, though it has a row
PlanExcluding ==
  [desk EXCEPT !.pc = "update", !.seen = docs,
     !.todo = {sheet[i].of : i \in {j \in DOMAIN sheet : sheet[j].status # docs[sheet[j].of]}}
              \ {e \in Envelopes : docs[e] = "voided"},
     !.fresh = Fresh(sheet, docs)]
\* what the envelopes say of the rows, and the envelopes without a row
Plan ==
  [desk EXCEPT !.pc = "update", !.seen = docs,
     !.todo = {sheet[i].of : i \in {j \in DOMAIN sheet : sheet[j].status # docs[sheet[j].of]}},
     !.fresh = Fresh(sheet, docs)]
ReadBoth ==
  /\ At({"sync"}, "read")
  /\ desk' = Plan
  /\ UNCHANGED <<mode, docs, sheet, cards, runs, asked, jobs, outages>>
\* the status of one row; nothing is written in audit mode
Update ==
  /\ At({"sync"}, "update")
  /\ IF desk.todo = {} THEN To("save") /\ UNCHANGED sheet
     ELSE LET e == Min(desk.todo) IN
          /\ sheet' = IF mode = "audit" THEN sheet
                      ELSE [i \in DOMAIN sheet |->
                              IF sheet[i].of = e THEN [sheet[i] EXCEPT !.status = desk.seen[e]] ELSE sheet[i]]
          /\ desk' = [desk EXCEPT !.todo = @ \ {e}]
  /\ UNCHANGED <<mode, docs, cards, runs, asked, jobs, outages>>
\* mutant: a candidate whose question may not have been posted is asked about again
SaveAsking ==
  /\ At({"sync"}, "save")
  /\ IF desk.fresh = {} THEN To("complete") /\ UNCHANGED cards
     ELSE LET e == Min(desk.fresh) IN
          IF mode # "full" \/ cards[e].told
          THEN desk' = [desk EXCEPT !.fresh = @ \ {e}] /\ UNCHANGED cards
          ELSE /\ cards' = [cards EXCEPT ![e] =
                     [status |-> "pending", told |-> FALSE, row |-> Proposed(e)]]
               /\ To("post")
  /\ UNCHANGED <<mode, docs, sheet, runs, asked, jobs, outages>>
\* a candidate is saved before its question is posted, and asked about by who saved it
Save ==
  /\ At({"sync"}, "save")
  /\ IF desk.fresh = {} THEN To("complete") /\ UNCHANGED cards
     ELSE LET e == Min(desk.fresh) IN
          IF mode # "full" \/ cards[e] # NoCard
          THEN desk' = [desk EXCEPT !.fresh = @ \ {e}] /\ UNCHANGED cards
          ELSE /\ cards' = [cards EXCEPT ![e] =
                     [status |-> "pending", told |-> FALSE, row |-> Proposed(e)]]
               /\ To("post")
  /\ UNCHANGED <<mode, docs, sheet, runs, asked, jobs, outages>>
Post ==
  /\ At({"sync"}, "post")
  /\ asked' = [asked EXCEPT ![Min(desk.fresh)] = @ + 1]
  /\ To("mark")
  /\ UNCHANGED <<mode, docs, sheet, cards, runs, jobs, outages>>
Mark ==
  /\ At({"sync"}, "mark")
  /\ cards' = [cards EXCEPT ![Min(desk.fresh)].told = TRUE]
  /\ desk' = [desk EXCEPT !.pc = "save", !.fresh = @ \ {Min(@)}]
  /\ UNCHANGED <<mode, docs, sheet, runs, asked, jobs, outages>>
CompleteRun ==
  /\ At({"sync"}, "complete")
  /\ runs' = [runs EXCEPT ![This.of] = "completed"] /\ Acks
  /\ UNCHANGED <<mode, docs, sheet, cards, asked, outages>>

-----------------------------------------------------------------------------
\* mutant: a rejection goes on like an approval
DecideAny ==
  /\ At(Decisions, "claim")
  /\ LET e == This.of  final == cards[e].status \in {"approved", "rejected"} IN
     /\ cards' = IF final THEN cards
                 ELSE [cards EXCEPT ![e].status = IF This.kind = "approved" THEN "applying" ELSE "rejected"]
     /\ IF cards[e].status = "approved" THEN Acks
        ELSE To("read") /\ UNCHANGED jobs
  /\ UNCHANGED <<mode, docs, sheet, runs, asked, outages>>
\* a decision is taken once; an approval is applied until it is complete
\* (it answers a question, so the mode is full)
Decide ==
  /\ At(Decisions, "claim")
  /\ LET e == This.of  final == cards[e].status \in {"approved", "rejected"} IN
     /\ cards' = IF final THEN cards
                 ELSE [cards EXCEPT ![e].status = IF This.kind = "approved" THEN "applying" ELSE "rejected"]
     /\ IF This.kind = "rejected" \/ cards[e].status = "approved" THEN Acks
        ELSE To("read") /\ UNCHANGED jobs
  /\ UNCHANGED <<mode, docs, sheet, runs, asked, outages>>
\* mutant: the row is added whether or not there is one
ReadAnyway ==
  /\ At(Decisions, "read")
  /\ desk' = [desk EXCEPT !.pc = "append"]
  /\ UNCHANGED <<mode, docs, sheet, cards, runs, asked, jobs, outages>>
Read ==
  /\ At(Decisions, "read")
  /\ desk' = [desk EXCEPT !.pc = IF This.of \in Listed(sheet) THEN "finish" ELSE "append"]
  /\ UNCHANGED <<mode, docs, sheet, cards, runs, asked, jobs, outages>>
\* the row that was approved, with the number that is free now
Added(e) == [cards[e].row EXCEPT !.no = NextNo(sheet)]
\* written below the rows that were read, answered, and not always there
AppendRow ==
  /\ At(Decisions, "append")
  /\ \/ sheet' = Append(sheet, Added(This.of)) /\ UNCHANGED outages
     \/ Slip /\ UNCHANGED sheet
  /\ To("verify")
  /\ UNCHANGED <<mode, docs, cards, runs, asked, jobs>>
Verify ==
  /\ At(Decisions, "verify")
  /\ IF This.of \in Listed(sheet) THEN To("finish") /\ UNCHANGED jobs ELSE Retries
  /\ UNCHANGED <<mode, docs, sheet, cards, runs, asked, outages>>
Finish ==
  /\ At(Decisions, "finish")
  /\ cards' = [cards EXCEPT ![This.of].status = "approved"] /\ Acks
  /\ UNCHANGED <<mode, docs, sheet, runs, asked, outages>>

-----------------------------------------------------------------------------
\* what the step under way does although it fails
Effect ==
  \/ UNCHANGED <<sheet, asked>>
  \/ At({"sync"}, "post") /\ asked' = [asked EXCEPT ![Min(desk.fresh)] = @ + 1] /\ UNCHANGED sheet
  \/ At(Decisions, "append") /\ sheet' = Append(sheet, Added(This.of)) /\ UNCHANGED asked
\* a step fails: the run is marked failed, the message retried
Fail ==
  /\ desk # NoWork /\ desk.pc # "claim" /\ Slip /\ Effect
  /\ runs' = IF This.kind = "sync" THEN [runs EXCEPT ![This.of] = "failed"] ELSE runs
  /\ Retries
  /\ UNCHANGED <<mode, docs, cards>>
\* the Worker stops: the run stays claimed, the message is delivered again
Die ==
  /\ desk # NoWork /\ Slip /\ Effect /\ Retries
  /\ UNCHANGED <<mode, docs, cards, runs>>
Step == Claim \/ ReadBoth \/ Update \/ Save \/ Post \/ Mark \/ CompleteRun
        \/ Decide \/ Read \/ AppendRow \/ Verify \/ Finish
Consume == Step \/ \E i \in DOMAIN jobs : Receive(i)
Next ==
  \/ Consume \/ Fail \/ Die
  \/ \E e \in Envelopes : Sign(e)
  \/ \E kind \in Kinds, of \in Envelopes \cup Days : Send(kind, of)
Fairness == WF_contractVars(Consume)
Spec == Init /\ [][Next]_contractVars /\ Fairness

-----------------------------------------------------------------------------
TypeOK ==
  /\ docs \in [Envelopes -> Statuses]
  /\ \A i \in DOMAIN sheet : sheet[i] \in [of : Envelopes, no : Nat \ {0}, status : Statuses]
  /\ \A e \in Envelopes : cards[e].status \in {"none", "pending", "applying", "approved", "rejected"}
  /\ runs \in [Days -> {"none", "running", "failed", "completed"}]
  /\ asked \in [Envelopes -> Nat] /\ outages \in 0..MaxSlips /\ desk.job \in 0..Len(jobs)
  /\ \A i \in DOMAIN jobs : jobs[i].tries \in 0..(MaxRetries + 1)

\* One row per envelope, each with a number of its own, whatever is retried, lost
\* or clicked twice (processContractLedgerApproval reads before it appends).
RowsAreUnique ==
  \A i, j \in DOMAIN sheet : i # j => sheet[i].of # sheet[j].of /\ sheet[i].no # sheet[j].no

\* A row is added for an envelope somebody was asked about and approved, and a
\* candidate is approved when its row is there (claimDecision, completeApproval).
AddedIsApproved ==
  \A e \in Envelopes :
    /\ e \in Listed(sheet) /\ cards[e] # NoCard => \E i \in DOMAIN jobs : jobs[i].kind = "approved" /\ jobs[i].of = e
    /\ cards[e].status = "approved" => e \in Listed(sheet)

\* The people are asked about an envelope once (saveCandidate before the post).
AskedOnce == \A e \in Envelopes : asked[e] <= 1

\* When a run that may write completes, every row says what DocuSign said when
\* it was read, voided envelopes too (buildContractLedgerPlan).
CompletedIsCurrent ==
  At({"sync"}, "complete") /\ mode # "audit"
    => \A i \in DOMAIN sheet : sheet[i].status = desk.seen[sheet[i].of]

\* A day's run completes and an approval is applied, or the legal channel is told
\* that they were given up (a dead letter is told by notifyContractLedgerDeadLetter).
Answered(i) ==
  \/ jobs[i].state = "dead" \/ jobs[i].kind = "rejected"
  \/ jobs[i].kind = "sync" /\ runs[jobs[i].of] = "completed"
  \/ jobs[i].kind = "approved" /\ jobs[i].of \in Listed(sheet)
JobIsAnswered == []<>(\A i \in DOMAIN jobs : Answered(i))
=============================================================================
