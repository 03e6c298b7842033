---------------------------- MODULE SlackRequest ----------------------------
(***************************************************************************)
(* From the bytes of a Slack request to a signed tenant context: the body  *)
(* is read into a growing buffer (slack-request-body.ts), its signature    *)
(* checked and the event normalised (slack.ts), the channel bound to a     *)
(* placement of the deployed configuration (runtime-config.ts), and the    *)
(* authority asked for a context, which is compared with the connection    *)
(* read anew (runtime-boundaries.ts).  What the authority decides and the  *)
(* queue does with the context is AuthorityAdmission's, the comparison of  *)
(* a context in detail TenantEnvelope's.                                   *)
(***************************************************************************)
EXTENDS Naturals, FiniteSets, Sequences, SequencesExt

CONSTANTS
  MaxBody,     \* bytes a body may have
  FirstBuffer, \* bytes of the buffer when no length was declared
  Chunks,      \* sizes of the chunks that arrive
  MaxChanges   \* bound: changes of the workspace connection

VARIABLES
  stage,       \* how far the request came, or why it was refused
  body,        \* declared length, bytes kept, size of the buffer, bytes that came
  event,       \* the event of the payload
  note,        \* the event of the queue made of it
  placements,  \* the configured placements, in their order
  bound,       \* the placement the event was bound to: its position, 0 for none
  connection,  \* the authority's connection of the workspace
  lookup,      \* the connection as it was found first
  context,     \* the context the authority issued
  turnovers

requestVars == <<stage, body, event, note, placements, bound, connection, lookup, context, turnovers>>

Undeclared == MaxBody + 2
People     == {1, 2}
Channels   == {"c1", "c2", "dm"}
NoEvent    == [type |-> "message", mentions |-> FALSE, authorized |-> TRUE, channel |-> "c1", user |-> 0,
               reply |-> FALSE, files |-> 0]
NoNote     == [type |-> "none", channel |-> "c1", user |-> 0, thread |-> "none"]
NoBody     == [declared |-> Undeclared, total |-> 0, capacity |-> 0, came |-> 0]
Mappings   == {"none", "aligned", "short"}
\* a placement binds a channel; one that answers direct messages names its audience
Placement  == [channel : {"c1", "c2"}, im : BOOLEAN, audience : SUBSET People, mapping : Mappings]

\* mutant: two placements may bind one channel
AnyConfigured(list) == TRUE
Configured(list) == Cardinality({list[i].channel : i \in DOMAIN list}) = Len(list)

Init ==
  /\ stage = "reading" /\ turnovers = 0
  /\ body \in [declared : {Undeclared} \cup (0..MaxBody + 1), total : {0}, capacity : {0}, came : {0}]
  /\ event = NoEvent /\ note = NoNote /\ placements = <<>> /\ bound = 0
  /\ connection = [active |-> TRUE, revision |-> 1, scoped |-> TRUE]
  /\ lookup = connection /\ context = [revision |-> 0, event |-> "none", actor |-> 0]

-----------------------------------------------------------------------------
(* The body: a length that is declared is believed for the first buffer    *)
(* and held to at the end.                                                 *)

Least(a, b) == IF a < b THEN a ELSE b
Most(a, b)  == IF a > b THEN a ELSE b
Rest(v) == UNCHANGED <<event, note, placements, bound, connection, lookup, context, turnovers>> /\ v

Declare ==
  /\ stage = "reading" 
  /\ IF body.declared # Undeclared /\ body.declared > MaxBody
     THEN stage' = "too_large" /\ UNCHANGED body
     ELSE /\ stage' = "chunks"
          /\ body' = [body EXCEPT !.capacity = IF body.declared # Undeclared THEN body.declared
                                               ELSE Least(FirstBuffer, MaxBody)]
  /\ Rest(TRUE)

\* mutant: the buffer is doubled, whatever arrives
GrownTwice(needed, capacity) == Least(MaxBody, Most(1, 2 * capacity))
Grown(needed, capacity) == Least(MaxBody, Most(needed, Most(1, 2 * capacity)))
Chunk(n) ==
  /\ stage = "chunks" /\ body.came <= MaxBody
  /\ LET needed == body.total + n IN
     IF needed > MaxBody
     THEN stage' = "too_large" /\ body' = [body EXCEPT !.came = @ + n]
     ELSE /\ UNCHANGED stage
          /\ body' = [body EXCEPT !.total = needed, !.came = @ + n,
                        !.capacity = IF needed > @ THEN Grown(needed, @) ELSE @]
  /\ Rest(TRUE)
\* mutant: a body that is shorter than declared is taken
EndedWithin == body.declared # Undeclared /\ body.total > body.declared
EndedOther == body.declared # Undeclared /\ body.total # body.declared
Close ==
  /\ stage = "chunks"
  /\ stage' \in IF EndedOther THEN {"length_invalid"} ELSE {"verify", "body_invalid"}
  /\ Rest(UNCHANGED body)

-----------------------------------------------------------------------------
(* The signature, with its window; the event.                              *)

Verify ==
  /\ stage = "verify" /\ stage' \in {"normalise", "signature_invalid"}
  /\ Rest(body' = NoBody)

\* mutant: a mention is known by the type of the event alone
TypeSent(e) == e.type
Type(e) == IF e.type = "message" /\ e.authorized /\ e.mentions THEN "app_mention" ELSE e.type
Note(e) == [type |-> Type(e), channel |-> e.channel, user |-> e.user, thread |-> IF e.reply THEN "parent" ELSE "own"]
MaxFiles == 1
Normalise(e) ==
  /\ stage = "normalise" /\ event' = e
  /\ stage' = IF e.files > MaxFiles THEN "event_invalid" ELSE "place"
  /\ note' = IF e.files > MaxFiles THEN NoNote ELSE Note(e)
  /\ UNCHANGED <<body, placements, bound, connection, lookup, context, turnovers>>

-----------------------------------------------------------------------------
(* The placement: of the channel, or for a direct message the one that     *)
(* answers them and names the sender.                                      *)

Direct(list, n) == SelectInSeq(list, LAMBDA p : p.channel = n.channel)
Bindable(list, n) == {i \in DOMAIN list : list[i].im /\ n.user \in list[i].audience}
\* mutant: the first of several placements for a direct message is taken
BoundFirst(list, n) ==
  IF Direct(list, n) # 0 THEN Direct(list, n)
  ELSE SelectInSeq(list, LAMBDA p : n.channel = "dm" /\ p.im /\ n.user \in p.audience)
Bound(list, n) ==
  IF Direct(list, n) # 0 THEN Direct(list, n)
  ELSE IF n.channel = "dm" /\ Cardinality(Bindable(list, n)) = 1 THEN CHOOSE i \in Bindable(list, n) : TRUE
  ELSE 0

\* the project ids the authority knows a placement by: its codes, or as many ids configured for them
\* mutant: fewer ids than codes are taken for the placement
ScopeOfAny(p) == IF p.mapping = "none" THEN "codes" ELSE "ids"
Scope(p) == CASE p.mapping = "none" -> "codes" [] p.mapping = "aligned" -> "ids" [] OTHER -> "refused"
\* what the execution is given; one placement that is badly mapped spoils them all
Canonical(list) ==
  IF \E i \in DOMAIN list : list[i].mapping = "short" THEN <<>>
  ELSE [i \in DOMAIN list |-> IF list[i].mapping = "none" THEN "codes" ELSE "ids"]

Place(list) ==
  /\ stage = "place" /\ placements' = list /\ event' = NoEvent
  /\ bound' = IF Configured(list) THEN Bound(list, note) ELSE 0
  /\ stage' = IF ~Configured(list) THEN "configuration_invalid"
              ELSE IF Bound(list, note) = 0 THEN "channel_not_allowed" ELSE "lookup"
  /\ UNCHANGED <<body, note, connection, lookup, context, turnovers>>

-----------------------------------------------------------------------------
(* The context: the connection is found, the context issued, and compared  *)
(* with the connection as it is then.                                      *)

Usable(c) == c.active /\ c.scoped
Lookup ==
  /\ stage = "lookup" /\ lookup' = connection
  /\ stage' = IF Usable(connection) THEN "issue" ELSE "denied"
  /\ UNCHANGED <<body, event, note, placements, bound, connection, context, turnovers>>

\* the authority answers for the connection it was shown, or not for this event
Issue ==
  /\ stage = "issue"
  /\ \E right \in BOOLEAN, actor \in {0, note.user} :
       /\ context' = [revision |-> lookup.revision, event |-> IF right THEN note.thread ELSE "other", actor |-> actor]
       /\ stage' = IF actor # note.user \/ ~right THEN "denied" ELSE "compare"
  /\ UNCHANGED <<body, event, note, placements, bound, connection, lookup, turnovers>>

\* mutant: the context is compared with the connection it was issued for
CurrentAsFound == lookup.active /\ context.revision = lookup.revision
Current == connection.active /\ context.revision = connection.revision
Compare ==
  /\ stage = "compare" /\ stage' = IF Current THEN "admitted" ELSE "denied"
  /\ UNCHANGED <<body, event, note, placements, bound, connection, lookup, context, turnovers>>

\* the consumer asks the mapping of the placement before anything is executed
Consume ==
  /\ stage = "admitted" /\ stage' = IF Scope(placements[bound]) = "refused" THEN "denied" ELSE "executing"
  /\ UNCHANGED <<body, event, note, placements, bound, connection, lookup, context, turnovers>>

\* revoked, or installed anew; once the context is out the boundaries behind look again
Turnover ==
  /\ turnovers < MaxChanges /\ turnovers' = turnovers + 1 /\ stage \in {"lookup", "issue", "compare"}
  /\ connection' \in {[connection EXCEPT !.active = FALSE],
                      [active |-> TRUE, revision |-> connection.revision + 1, scoped |-> FALSE],
                      [active |-> TRUE, revision |-> connection.revision + 1, scoped |-> TRUE]}
  /\ UNCHANGED <<stage, body, event, note, placements, bound, lookup, context>>

Events ==
  {e \in [type : {"message", "app_mention"}, mentions : BOOLEAN, authorized : BOOLEAN, channel : Channels,
          user : People, reply : {FALSE}, files : {0, MaxFiles + 1}] : e.type = "app_mention" => e.mentions}
Answering == {p \in Placement : p.im <=> p.audience # {}}
Lists == {<<p, q>> : p \in Answering, q \in {r \in Answering : r.mapping = "none"}}
Next ==
  \/ Declare \/ (\E n \in Chunks : Chunk(n)) \/ Close \/ Verify
  \/ (\E e \in Events : Normalise(e)) \/ (\E list \in Lists : Place(list))
  \/ Lookup \/ Issue \/ Compare \/ Consume \/ Turnover
Spec == Init /\ [][Next]_requestVars

-----------------------------------------------------------------------------
TypeOK ==
  /\ body.total \in 0..MaxBody /\ body.capacity \in 0..MaxBody
  /\ note.type \in {"none", "message", "app_mention"} /\ bound \in 0..Len(placements) /\ turnovers \in 0..MaxChanges

\* What was read fits the buffer however it arrived, and a body that is taken
\* came whole and no longer or shorter than declared (slack-request-body.ts).
BodyIsWhole ==
  /\ body.total <= body.capacity \/ stage \in {"reading", "too_large"}
  /\ stage \notin {"reading", "chunks", "too_large", "length_invalid"} =>
       body.total = body.came /\ body.declared \in {Undeclared, body.total}

\* Slack tells a message that mentions Mana twice, as a message and as a
\* mention; both become the same event of the queue (slack.ts).
MentionIsOne ==
  LET other == [event EXCEPT !.type = IF @ = "message" THEN "app_mention" ELSE "message"] IN
  stage = "place" /\ event.mentions /\ event.authorized => Note(other) = note

\* The order of the configured placements binds nothing, and a direct message
\* is bound for its sender (runtime-config.ts).
OrderBindsNothing ==
  bound # 0 =>
    /\ Reverse(placements)[Bound(Reverse(placements), note)] = placements[bound]
    /\ note.channel = "dm" => note.user \in placements[bound].audience

\* The projects a turn is executed with are those its event was admitted for
\* (index.ts, placementProjectScopeForEvent and canonicalRuntimePlacements).
ExecutedAsAdmitted ==
  stage = "executing" => Canonical(<<placements[bound]>>) = <<Scope(placements[bound])>>

\* No context is admitted for a connection that was revoked or installed anew
\* while it was issued (runtime-boundaries.ts).
AdmittedIsCurrent ==
  stage \in {"admitted", "executing"} => connection.active /\ connection.revision = context.revision /\ context.actor = note.user
=============================================================================
