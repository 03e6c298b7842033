-------------------------- MODULE ExternalEffectMC --------------------------
(***************************************************************************)
(* The two places where a reply must reach Slack once, side by side: the   *)
(* external effect of a turn, and the callback of a development job.  part *)
(* chooses the one that moves, the other rests in its initial state.       *)
(* Effect: two deliveries of it, a job with a duplicate, the production    *)
(* number of deliveries of both, two faults in all.  Callback: two         *)
(* handlers at once, a result and a timeout, two claims.                   *)
(***************************************************************************)
EXTENDS ExternalEffect

CONSTANTS i1, i2, m1, m2, Handler, Payload, Nothing, MaxFence

VARIABLES part, callback, delivery, book, messages, forgotten, handler

callbackVars == <<callback, delivery, book, messages, forgotten, handler>>
Callback == INSTANCE DevelopmentCallback WITH ledger <- book, posts <- messages

SuiteInit == part \in {"effect", "callback"} /\ Init /\ Callback!Init
SuiteNext ==
  \/ part = "effect" /\ Next /\ UNCHANGED <<part, callbackVars>>
  \/ part = "callback" /\ Callback!Next /\ UNCHANGED <<part, vars>>
\* the fairness of the part that moves
SuiteSpec ==
  /\ SuiteInit /\ [][SuiteNext]_<<part, vars, callbackVars>>
  /\ IF part = "effect" THEN Fairness ELSE Callback!Fairness
-----------------------------------------------------------------------------
\* A callback is posted once, what is recorded as delivered was posted, and the
\* accounts say what the record says.
CallbackIsTruthful == Callback!CallbackIsTruthful

\* The record of a callback moves only forward, an answer that it is complete
\* stays true, and a callback that is claimed is completed in the end.
CallbackGoesForward ==
  Callback!CallbackIsMonotone /\ Callback!CompletedAnswerIsTrue /\ Callback!EventuallyCompleted

\* The handler of the callback keeps what the terminal outbox relies on.
CallbackKeepsPromise == Callback!CallbackKeepsPromise
=============================================================================
