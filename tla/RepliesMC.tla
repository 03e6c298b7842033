------------------------------ MODULE RepliesMC ------------------------------
(***************************************************************************)
(* A reply, seen from its queue message and from its container, side by    *)
(* side: part chooses what moves, the other rests in an initial state.     *)
(* In Replies.cfg, Turn: three deliveries and three faults of any kind,    *)
(* for each kind of event.  Container: a context lives three ticks and is  *)
(* refreshed one before its expiry, so a process that uses its budget of   *)
(* two is running when it is refreshed; the connection may be revised once *)
(* in between.                                                             *)
(***************************************************************************)
EXTENDS Integers, FiniteSets, Sequences

CONSTANTS MaxDeliveries, MaxFaults, Ttl, Ahead, Margin, Budget, MaxRevs

VARIABLES part,
  kind, msg, q, rt, job, ledger, booked, own, posts, completion, episode, notice, handler, faults,
  mode, conn, op, known, timer, refresh, boundary, run, box, req, posted, told

turnVars == <<kind, msg, q, rt, job, ledger, booked, own, posts, completion, episode, notice, handler, faults>>
containerVars == <<mode, conn, op, known, timer, refresh, boundary, run, box, req, posted, told>>

Turn == INSTANCE ReplyTurn
Container == INSTANCE ReplyContainer

Init ==
  /\ part \in {"turn", "container"}
  /\ Turn!Init /\ Container!Init
  /\ part = "turn" \/ (kind = "reply" /\ rt.by # Turn!A0)
  /\ part = "container" \/ mode = "T0"
TurnMoves(A) == part = "turn" /\ A /\ UNCHANGED <<part, containerVars>>
ContainerMoves(A) == part = "container" /\ A /\ UNCHANGED <<part, turnVars>>
Next == TurnMoves(Turn!Next) \/ ContainerMoves(Container!Next)

\* the fairness of the part that moves: Turn!Fairness or Container!Fairness
suiteVars == <<part, turnVars, containerVars>>
Fairness ==
  /\ WF_suiteVars(TurnMoves(Turn!Works) \/ ContainerMoves(Container!Refreshes))
  /\ WF_suiteVars(TurnMoves(Turn!Delivers) \/ ContainerMoves(Container!Replies))
  /\ WF_suiteVars(TurnMoves(Turn!Waits) \/ ContainerMoves(Container!Tick))
Spec == Init /\ [][Next]_suiteVars /\ Fairness
-----------------------------------------------------------------------------
\* ReplyTurn: workspace, claims and Brainbase record what was posted, an event
\* that succeeded was answered, and an operation is booked once.
RepliesAgree == Turn!TypeOK /\ Turn!RecordsAgree /\ Turn!SucceededIsAnswered /\ Turn!BookedOnce

\* ReplyContainer: the handle of an operation that ended gives no authority, a
\* reply is posted from a destroyed container, and the turn is given to Claude
\* once and resumed at most once.
ContainerIsConfined ==
  Container!TypeOK /\ Container!EndedIsUnauthorized /\ Container!PostedIsSanitized /\ Container!TurnIsGivenOnce

\* A confirmed effect is not posted again, what is settled survives every later
\* delivery, and a context is not dropped before it has expired; a message is
\* acknowledged or given up in the end, and no context is kept for ever.
RepliesGoForward ==
  /\ Turn!ConfirmedReplyIsLast /\ Turn!SettledIsFinal /\ Container!NotForgottenEarly
  /\ (part = "turn") => Turn!EventuallySettled
  /\ (part = "container") => Container!EventuallyForgotten
=============================================================================
