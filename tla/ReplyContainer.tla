--------------------------- MODULE ReplyContainer ---------------------------
(***************************************************************************)
(* One container operation and the reply that is generated in it           *)
(* (multitenancy/tenant-container-operation.ts, durable-tenant-boundary.ts,*)
(* generateClaudeReply of reply-pipeline.ts).                              *)
(*                                                                         *)
(* The worker registers the tenant context under a fresh handle in a       *)
(* durable object, keeps it fresh with a timer while the operation runs,   *)
(* and disposes of it at the end.  The Claude process of the container     *)
(* presents the handle with each outbound request; the object admits the   *)
(* request while it holds a context that has not expired.  Worker, object, *)
(* container and the provider gateway take their steps independently.      *)
(*                                                                         *)
(* Time is kept as countdowns: what is left until a context expires, until *)
(* the object's alarm, the refresh timer or the process's budget.  A tick  *)
(* stands for the 30 s of the code's safety margin.                        *)
(***************************************************************************)
EXTENDS Integers

CONSTANTS
    Ttl,        \* life of an issued tenant context
    Ahead,      \* before_expiry_ms: a refresh starts this long before expiry
    Margin,     \* REPLY_TENANT_BOUNDARY_SAFETY_MARGIN_MS
    Budget,     \* REPLY_SANDBOX_MAX_TIMEOUT_MS
    MaxRevs     \* bound on revisions of the workspace connection

VARIABLES
    mode,       \* which caller: T0 reply, A0 reply, meeting minutes
    conn,       \* revision of the workspace connection Brainbase holds
    op,         \* the operation in the worker
    known,      \* life the worker believes the context has left
    timer,      \* countdown of the refresh timer
    refresh,    \* the refresh in flight in the worker
    boundary,   \* the durable object: context, alarm and refresh handler
    run,        \* generateClaudeReply
    box,        \* the container, its process, and what it was asked
    req,        \* one outbound request of the process
    posted,     \* what the run did about posting the reply
    told        \* reply state of the receipt of a failed A0 operation

worker == <<mode, op, known, timer, refresh, told>>
vars == <<mode, conn, op, known, timer, refresh, boundary, run, box, req, posted, told>>

Off == -2           \* a countdown that is not set
Past == -1          \* a countdown that ran out

Modes == {"T0", "A0", "minutes"}
Refreshed(m) == m \in {"A0", "minutes"}         \* input.refresh is given
DisposedAtEnd(m) == m # "A0"                    \* release # "on_expiration"

Ended == {"resolved", "rejected"}

NoContext == [left |-> Off, rev |-> -1]
NoRefresh == [at |-> "idle", ctx |-> NoContext]
NoHandler == [at |-> "idle", ctx |-> NoContext]
NoRequest == [at |-> "none", ctx |-> NoContext]

Contexts == [left : Past .. Ttl, rev : 0 .. MaxRevs] \cup {NoContext}

TypeOK ==
    /\ mode \in Modes
    /\ conn \in 0 .. MaxRevs
    /\ op \in {"register", "execute", "rejecting", "resolving", "crashed"} \cup Ended
    /\ known \in Past .. Ttl
    /\ timer \in {Off, Past} \cup 0 .. Ttl
    /\ refresh \in [at : {"idle", "issue", "send", "await"}, ctx : Contexts]
    /\ boundary \in [ctx : Contexts, alarm : {Off, Past} \cup 0 .. Ttl,
                     handler : [at : {"idle", "asked", "validate", "done", "refused"},
                                ctx : Contexts],
                     lost : BOOLEAN]
    /\ run \in [at : {"idle", "prepare", "start", "poll", "reconnect", "restart",
                      "destroy", "post", "done", "failed"},
                left : {Off, Past} \cup 0 .. Budget, resumed : BOOLEAN, bad : BOOLEAN]
    /\ box \in [up : BOOLEAN, proc : {"none", "running", "completed", "exited"},
                turns : 0 .. 3, resumes : 0 .. 3]
    /\ req \in [at : {"none", "validate", "lease", "sent"}, ctx : Contexts]
    /\ posted \in {"no", "attempted", "yes"}
    /\ told \in {"nothing", "not_attempted", "unknown"}

-----------------------------------------------------------------------------
(* Time and the outside world *)

Less(c) == IF c <= Past THEN c ELSE c - 1
Aged(ctx) == [ctx EXCEPT !.left = Less(@)]

Tick ==
    /\ known' = Less(known)
    /\ timer' = Less(timer)
    /\ refresh' = [refresh EXCEPT !.ctx = Aged(@)]
    /\ boundary' = [boundary EXCEPT !.ctx = Aged(@), !.alarm = Less(@),
                                    !.handler.ctx = Aged(@)]
    /\ run' = [run EXCEPT !.left = Less(@)]
    /\ req' = [req EXCEPT !.ctx = Aged(@)]
    /\ UNCHANGED <<mode, conn, op, box, posted, told>>

\* Brainbase revises the connection (a reinstall, a scope change): contexts of
\* an earlier revision no longer pass validation.
Revise ==
    /\ conn < MaxRevs
    /\ conn' = conn + 1
    /\ UNCHANGED <<worker, boundary, run, box, req, posted>>

\* validateTenantBoundary: the context is of the connection's revision and has
\* not expired.
Valid(ctx) == ctx.rev = conn /\ ctx.left > 0

-----------------------------------------------------------------------------
(* The worker: executeTenantContainerOperation *)

Init ==
    /\ mode \in Modes
    /\ conn = 0
    /\ op = "register"
    /\ known = Ttl
    /\ timer = Off
    /\ refresh = NoRefresh
    /\ boundary = [ctx |-> NoContext, alarm |-> Off, handler |-> NoHandler, lost |-> FALSE]
    /\ run = [at |-> "idle", left |-> Off, resumed |-> FALSE, bad |-> FALSE]
    /\ box = [up |-> FALSE, proc |-> "none", turns |-> 0, resumes |-> 0]
    /\ req = NoRequest
    /\ posted = "no"
    /\ told = "nothing"

RefreshDelay(left) == IF left > Ahead THEN left - Ahead ELSE 0

\* The container_launch validation, then registration under a new handle: one
\* exchange, as nobody else knows the handle yet.
Register ==
    /\ op = "register"
    /\ \/ /\ known > 0 /\ conn = 0
          /\ boundary' = [boundary EXCEPT !.ctx = [left |-> known, rev |-> 0],
                                          !.alarm = known]
          /\ op' = "execute"
          /\ run' = [run EXCEPT !.at = "prepare"]
          /\ timer' = IF Refreshed(mode) THEN RefreshDelay(known) ELSE Off
       \/ /\ op' = "rejected"
          /\ UNCHANGED <<boundary, run, timer, told>>
    /\ UNCHANGED <<mode, conn, known, refresh, box, req, posted, told>>

TimerFires ==
    /\ timer \in {0, Past}
    /\ refresh.at = "idle"
    /\ timer' = Off
    /\ refresh' = [refresh EXCEPT !.at = "issue"]
    /\ UNCHANGED <<mode, conn, op, known, boundary, run, box, req, posted, told>>

Stopped == op \notin {"register", "execute"}

\* refreshFailure wins the race: the operation is rejected, and what it was
\* executing runs on.
RejectedBy == IF op = "execute" THEN "rejecting" ELSE op

\* A fresh context is issued.  The A0 caller notes its expiry at once, before
\* the object has taken it.
Issue ==
    /\ refresh.at = "issue"
    /\ \/ /\ refresh' = [at |-> IF Stopped THEN "idle" ELSE "send",
                         ctx |-> IF Stopped THEN NoContext ELSE [left |-> Ttl, rev |-> conn]]
          /\ known' = IF mode = "A0" THEN Ttl ELSE known
          /\ UNCHANGED op
       \/ /\ refresh' = NoRefresh
          /\ op' = RejectedBy
          /\ UNCHANGED known
    /\ UNCHANGED <<mode, conn, timer, boundary, run, box, req, posted, told>>

Send ==
    /\ refresh.at = "send"
    /\ refresh' = [refresh EXCEPT !.at = "await"]
    /\ boundary' = [boundary EXCEPT !.handler = [at |-> "asked", ctx |-> refresh.ctx]]
    /\ UNCHANGED <<mode, conn, op, known, timer, run, box, req, posted, told>>

\* registry.refresh answers: schedule the next one unless the operation stopped.
RefreshAnswered ==
    /\ refresh.at = "await"
    /\ boundary.handler.at \in {"done", "refused"}
    /\ refresh' = NoRefresh
    /\ boundary' = [boundary EXCEPT !.handler = NoHandler]
    /\ IF boundary.handler.at = "done"
       THEN /\ timer' = IF Stopped THEN Off ELSE RefreshDelay(refresh.ctx.left)
            /\ UNCHANGED op
       ELSE /\ op' = RejectedBy
            /\ UNCHANGED timer
    /\ UNCHANGED <<mode, conn, known, run, box, req, posted, told>>

\* The exchange fails for the worker while the object still works on it.
RefreshLost ==
    /\ refresh.at = "await"
    /\ boundary.handler.at \in {"asked", "validate"}
    /\ refresh' = NoRefresh
    /\ boundary' = [boundary EXCEPT !.lost = TRUE]
    /\ op' = RejectedBy
    /\ UNCHANGED <<mode, conn, known, timer, run, box, req, posted, told>>

ExecuteSettles ==
    /\ op = "execute"
    /\ run.at \in {"done", "failed"}
    /\ op' = IF run.at = "done" THEN "resolving" ELSE "rejecting"
    /\ timer' = Off
    /\ UNCHANGED <<mode, conn, known, refresh, boundary, run, box, req, posted, told>>

\* finally: the refresh in flight is awaited before the handle is disposed of;
\* a dispose that fails rejects the operation.
\* The A0 caller records whether the delivery was attempted so far
\* (process_failure_reply_state).
ReplyState == IF posted = "no" THEN "not_attempted" ELSE "unknown"

RefreshAbandoned == TRUE
RefreshSettled == refresh = NoRefresh

Finally ==
    /\ op \in {"resolving", "rejecting"}
    /\ RefreshSettled
    /\ \/ /\ DisposedAtEnd(mode)
          /\ boundary' = [boundary EXCEPT !.ctx = NoContext]
          /\ op' = IF op = "resolving" THEN "resolved" ELSE "rejected"
       \/ /\ ~DisposedAtEnd(mode)
          /\ op' = IF op = "resolving" THEN "resolved" ELSE "rejected"
          /\ UNCHANGED boundary
       \/ /\ DisposedAtEnd(mode)
          /\ op' = "rejected"
          /\ boundary' = [boundary EXCEPT !.lost = TRUE]
    /\ told' = IF mode = "A0" /\ op = "rejecting" THEN ReplyState ELSE told
    /\ UNCHANGED <<mode, conn, known, timer, refresh, run, box, req, posted>>

\* The invocation has ended and what it left running is cancelled with it.
Cancel ==
    /\ op \in Ended
    /\ run.at \notin {"idle", "done", "failed"}
    /\ run' = [run EXCEPT !.at = "failed", !.left = Off]
    /\ UNCHANGED <<worker, conn, boundary, box, req, posted>>

\* The worker's isolate is lost: its timer, its refresh and its run with it.
Crash ==
    /\ op = "execute"
    /\ op' = "crashed"
    /\ timer' = Off
    /\ refresh' = NoRefresh
    /\ boundary' = [boundary EXCEPT !.lost = @ \/ boundary.handler # NoHandler]
    /\ run' = [run EXCEPT !.at = "failed", !.left = Off]
    /\ UNCHANGED <<mode, conn, known, box, req, posted, told>>

-----------------------------------------------------------------------------
(* The durable object: TenantBoundaryContextHandler *)

\* /refresh finds the context; validation is awaited with the input gate open,
\* so a dispose, an alarm or another request may come in between.
RefreshBegins ==
    /\ boundary.handler.at = "asked"
    /\ boundary' = [boundary EXCEPT !.handler.at =
                        IF /\ boundary.ctx # NoContext
                           /\ boundary.handler.ctx.left > 0
                        THEN "validate" ELSE "refused"]
    /\ UNCHANGED <<mode, conn, op, known, timer, refresh, run, box, req, posted, told>>

RefreshStoresUnarmed ==     \* the alarm of the earlier context is left as it is
    /\ boundary.handler.at = "validate"
    /\ boundary' = IF Valid(boundary.handler.ctx)
                   THEN [boundary EXCEPT !.ctx = boundary.handler.ctx, !.handler.at = "done"]
                   ELSE [boundary EXCEPT !.handler.at = "refused"]
    /\ UNCHANGED <<mode, conn, op, known, timer, refresh, run, box, req, posted, told>>
RefreshStores ==
    /\ boundary.handler.at = "validate"
    /\ boundary' =
         IF Valid(boundary.handler.ctx)
         THEN [boundary EXCEPT !.ctx = boundary.handler.ctx,
                               !.alarm = boundary.handler.ctx.left,
                               !.handler.at = "done"]
         ELSE [boundary EXCEPT !.handler.at = "refused"]
    /\ UNCHANGED <<mode, conn, op, known, timer, refresh, run, box, req, posted, told>>

AlarmWhenPast ==            \* a context that expires this instant is kept
    /\ boundary.alarm \in {0, Past}
    /\ boundary' = [boundary EXCEPT !.ctx = IF @.left < 0 THEN NoContext ELSE @,
                                    !.alarm = Off]
    /\ UNCHANGED <<mode, conn, op, known, timer, refresh, run, box, req, posted, told>>
Alarm ==
    /\ boundary.alarm \in {0, Past}
    /\ boundary' = [boundary EXCEPT !.ctx = NoContext, !.alarm = Off]
    /\ UNCHANGED <<mode, conn, op, known, timer, refresh, run, box, req, posted, told>>

\* The process sends a request; /resolve reads the context it names.
Expired(ctx) == ctx.left < 0

Resolve ==
    /\ box.up /\ box.proc = "running" /\ req.at \in {"none", "sent"}
    /\ boundary.ctx # NoContext
    /\ IF Expired(boundary.ctx)
       THEN /\ boundary' = [boundary EXCEPT !.ctx = NoContext]
            /\ req' = NoRequest
       ELSE /\ req' = [at |-> "validate", ctx |-> boundary.ctx]
            /\ UNCHANGED boundary
    /\ UNCHANGED <<mode, conn, op, known, timer, refresh, run, box, posted, told>>

-----------------------------------------------------------------------------
(* The provider gateway: a fresh lease for each admitted request *)

Admit ==
    /\ req.at = "validate"
    /\ req' = IF Valid(req.ctx) THEN [req EXCEPT !.at = "lease"] ELSE NoRequest
    /\ UNCHANGED <<worker, conn, boundary, run, box, posted>>

\* createTenantCredentialFetch: the connection is read again, a lease bound to
\* its revision acquired, and the request forwarded with it.
Forward ==
    /\ req.at = "lease"
    /\ req' = IF Valid(req.ctx) THEN [req EXCEPT !.at = "sent"] ELSE NoRequest
    /\ UNCHANGED <<worker, conn, boundary, run, box, posted>>

-----------------------------------------------------------------------------
(* generateClaudeReply *)

RunStep(r, b) ==
    /\ run' = r /\ box' = b
    /\ UNCHANGED <<worker, conn, boundary, req, posted>>

Going(at) == [run EXCEPT !.at = at]
Broken == [run EXCEPT !.at = "destroy", !.left = Off, !.bad = TRUE]

\* The execution of another caller: it ends at some time, well or badly.
OtherExecution ==
    /\ mode = "minutes"
    /\ run.at = "prepare"
    /\ \E at \in {"done", "failed"} : RunStep(Going(at), box)

Prepare ==
    /\ mode # "minutes"
    /\ run.at = "prepare"
    /\ \E r \in {Going("start"), Broken} : RunStep(r, [box EXCEPT !.up = TRUE])

\* remainingReplySandboxTimeoutMs throws when nothing is left of the boundary.
Exhausted == known <= Margin

\* An HTTP 500 of the sandbox: the session is resumed, once.
On500Again == [run EXCEPT !.at = "reconnect", !.left = Off, !.resumed = TRUE]
On500 ==
    IF run.resumed THEN Broken ELSE [run EXCEPT !.at = "reconnect", !.left = Off, !.resumed = TRUE]

Started ==
    [box EXCEPT !.proc = "running",
                !.turns = IF run.resumed THEN @ ELSE @ + 1,
                !.resumes = IF run.resumed THEN @ + 1 ELSE @]

Start ==
    /\ run.at = "start"
    /\ \/ Exhausted /\ RunStep(Broken, box)
       \/ ~Exhausted /\ RunStep([run EXCEPT !.at = "poll", !.left = Budget], Started)
       \/ ~Exhausted /\ \E b \in {box, Started} : RunStep(On500, b)
       \/ ~Exhausted /\ RunStep(Broken, box)

Poll ==
    /\ run.at = "poll" /\ box.proc = "running"
    /\ \/ Exhausted /\ \E p \in {"exited", "running"} : RunStep(Broken, [box EXCEPT !.proc = p])
       \/ ~Exhausted /\ run.left <= 0 /\ RunStep(Broken, box)

\* getStatus fails.
PollFails ==
    /\ run.at = "poll"
    /\ \E r \in {On500, Broken} : RunStep(r, box)

Claude ==
    /\ box.up /\ box.proc = "running"
    /\ \E p \in {"completed", "exited"} : RunStep(run, [box EXCEPT !.proc = p])

\* A new stub for the same sandbox.  A container still stopping is given a
\* moment and asked once more.
Reconnect ==
    /\ run.at \in {"reconnect", "restart"}
    /\ \/ RunStep(Going("start"), [box EXCEPT !.up = TRUE])
       \/ /\ run.at = "reconnect"
          /\ RunStep(Going("restart"), [box EXCEPT !.up = FALSE, !.proc = "none"])
       \/ RunStep(Broken, box)

\* The stream of a finished process is parsed: a valid judgment, no result
\* event (resumed once), or a reply that fails the contract.
Parse ==
    /\ run.at = "poll" /\ box.proc \in {"completed", "exited"}
    /\ \/ box.proc = "completed" /\ RunStep([run EXCEPT !.at = "destroy", !.left = Off], box)
       \/ /\ box.proc = "completed" /\ ~run.resumed
          /\ RunStep([run EXCEPT !.at = "start", !.left = Off, !.resumed = TRUE], box)
       \/ RunStep(Broken, box)

\* finally: a failed destroy is an error of its own unless there is one already.
DestroyedAnyway(gone) == IF ~run.bad THEN "post" ELSE "failed"
Destroyed(gone) ==
    IF gone /\ ~run.bad THEN "post" ELSE "failed"

Destroy ==
    /\ run.at = "destroy"
    /\ \E gone \in BOOLEAN :
         RunStep(Going(Destroyed(gone)),
                 IF gone THEN [box EXCEPT !.up = FALSE, !.proc = "none"] ELSE box)

PostBegins ==
    /\ run.at = "post" /\ posted = "no"
    /\ posted' = "attempted"
    /\ UNCHANGED <<worker, conn, boundary, run, box, req>>

Post ==
    /\ run.at = "post" /\ posted = "attempted"
    /\ \E ok \in BOOLEAN :
         /\ posted' = IF ok THEN "yes" ELSE posted
         /\ run' = Going(IF ok THEN "done" ELSE "failed")
    /\ UNCHANGED <<worker, conn, boundary, box, req>>

\* A container nobody uses any more falls asleep (sleepAfter).
Sleep ==
    /\ box.up /\ run.at = "failed"
    /\ RunStep(run, [box EXCEPT !.up = FALSE, !.proc = "none"])

-----------------------------------------------------------------------------
Worker ==
    \/ Register \/ TimerFires \/ Issue \/ Send \/ RefreshAnswered \/ RefreshLost
    \/ ExecuteSettles \/ Finally \/ Cancel \/ Crash

Boundary == RefreshBegins \/ RefreshStores \/ Alarm \/ Resolve

Reply ==
    \/ OtherExecution \/ Prepare \/ Start \/ Poll \/ PollFails \/ Claude \/ Reconnect
    \/ Parse \/ Destroy \/ PostBegins \/ Post \/ Sleep

Next == Tick \/ Revise \/ Worker \/ Boundary \/ Admit \/ Forward \/ Reply

Spec == Init /\ [][Next]_vars

\* Time passes, the exchange of a refresh is answered or fails, the alarm fires,
\* and the operation runs on.  Nothing is assumed of Claude, which may never finish.
Refreshes ==
    TimerFires \/ Issue \/ Send \/ RefreshAnswered \/ RefreshBegins \/ RefreshStores \/ Alarm
Replies ==
    \/ Register \/ OtherExecution \/ Prepare \/ Start \/ Poll \/ Reconnect
    \/ Parse \/ Destroy \/ PostBegins \/ Post \/ ExecuteSettles \/ Finally
Fairness == WF_vars(Tick) /\ WF_vars(Refreshes) /\ WF_vars(Replies)

FairSpec == Spec /\ Fairness

-----------------------------------------------------------------------------
(* Properties *)

\* When an operation that disposes of its handle has ended, the handle gives
\* no authority: no refresh of it can store a context after the dispose
\* (tenant-container-operation.ts:70-76), whatever became of the container.
\* Excepted are an exchange the worker lost sight of and a failed dispose.
EndedIsUnauthorized ==
    op \in Ended /\ DisposedAtEnd(mode) /\ ~boundary.lost => boundary.ctx = NoContext

\* A reply reaches Slack only from a container known to be destroyed
\* (reply-pipeline.ts:851-868), on every path through resumes and failures.
PostedIsSanitized == posted # "no" /\ mode # "minutes" => ~box.up

\* The user's turn is given to Claude once, and its session is resumed at most
\* once, whichever of the two reasons to resume comes first
\* (reply-pipeline.ts:712-722 and 779-788).
TurnIsGivenOnce == box.turns <= 1 /\ box.resumes <= 1

\* While the operation runs, its context is dropped only when it has expired:
\* an alarm set for an earlier context never takes a refreshed one with it
\* (durable-tenant-boundary.ts:185-187 and 251-253).
NotForgottenEarly ==
    [][(op = "execute" /\ boundary.ctx # NoContext /\ boundary'.ctx = NoContext)
         => boundary.ctx.left <= 0]_vars

\* Every operation settles or its worker is lost, though Claude may hang and the
\* context may be refreshed again and again: the process's budget runs out
\* (reply-pipeline.ts:659-684).  From then on no context is kept for ever: not
\* that of a crashed worker, nor the one a lost refresh stores after the dispose,
\* nor the one left to its expiry.
EventuallyForgotten == <>[](op \in Ended \cup {"crashed"} /\ boundary.ctx = NoContext)
=============================================================================
