---------------------------- MODULE ToolGateway ----------------------------
(***************************************************************************)
(* The tools an agent calls from its container, and the Worker's gateways  *)
(* that stand between them and the outside: the MCP server of the          *)
(* container, the boundary every outbound request is resolved against, the *)
(* policy of each host, the credentials of a request and the forwarder.    *)
(* A message that is sent goes through the delivery claim and the accounts *)
(* of its effect id, which the turn and its number of task writes name.    *)
(***************************************************************************)
EXTENDS Naturals, FiniteSets, Sequences

CONSTANTS Asks,        \* the tool calls of the turn, 1 .. n
          Texts,       \* texts of messages
          Turns,       \* what a context may grant
          MaxUpsets    \* bound: answers lost, failures, deaths, changes around the turn

VARIABLES turn,        \* what the context of the turn grants
          live,        \* the context is registered
          moved,       \* the workspace connection has another revision
          mind,        \* what the authority answers now about the person
          writeCalls,  \* task writes the MCP server has counted
          asks,        \* the calls
          delivery,    \* the delivery claim of an effect id
          account,     \* the accounting of an effect id
          posted,      \* the texts posted under an effect id
          effects,     \* what the providers were made to do
          upsets

gatewayVars == <<turn, live, moved, mind, writeCalls, asks, delivery, account, posted, effects, upsets>>

Messages == {"send_message", "send_elsewhere"}
\* the hosts a container reaches, with the operations it may ask of them
Hosts == [
  gateway   |-> Messages \cup {"personal_kg", "write_task", "list_tasks", "across_open", "across_closed"},
  search    |-> {"search_tasks"},
  brainbase |-> {"resolve_turn", "other_tool", "tool_catalog"},
  drive     |-> {"drive_tool"},
  freee     |-> {"freee_read", "freee_write", "freee_catalog"},
  github    |-> {"clone"},
  anthropic |-> {"model"},
  hook      |-> {"judgment_hook"}]
Tools == UNION {Hosts[h] : h \in DOMAIN Hosts}
HostOf(tool) == CHOOSE h \in DOMAIN Hosts : tool \in Hosts[h]
Indices == 0 .. Cardinality(Asks)
NoText == "none"
NoAsk == [tool |-> "none", text |-> NoText, index |-> 0, pc |-> "unused", result |-> "none",
          heard |-> "none", seen |-> {}, doubt |-> FALSE, replayed |-> FALSE]
Unclaimed == [state |-> "none", by |-> 0, text |-> NoText]
NoAccount == [outcome |-> "none", written |-> FALSE]

Init ==
  /\ turn \in Turns
  /\ live = TRUE /\ moved = FALSE /\ mind = "same" /\ writeCalls = 0
  /\ asks = [a \in Asks |-> NoAsk]
  /\ delivery = [i \in Indices |-> Unclaimed]
  /\ account = [i \in Indices |-> NoAccount]
  /\ posted = [i \in Indices |-> <<>>]
  /\ effects = {} /\ upsets = 0

At(a, pc) == asks[a].pc = pc
To(a, pc) == asks' = [asks EXCEPT ![a].pc = pc]
\* an answer; nobody hears it once the tool call was given up
Answered(ask, answer, seen) ==
  [ask EXCEPT !.pc = "done", !.heard = IF ask.heard = "waiting" THEN answer ELSE ask.heard,
              !.seen = IF ask.heard = "waiting" THEN seen ELSE {}]
Answers(a, answer) == asks' = [asks EXCEPT ![a] = Answered(asks[a], answer, {})]
Upset == upsets < MaxUpsets /\ upsets' = upsets + 1
Calm == UNCHANGED upsets
World == UNCHANGED <<turn, live, moved, mind>>
Books == UNCHANGED <<delivery, account>>
Outside == UNCHANGED <<posted, effects>>

\* bound: only what leaves something a later call meets is followed by another call
Followed == {"send_message", "write_task"}
\* The MCP server answers one request after the other; the index of a call is
\* the number of task writes so far, and a message does not count.
Ask(a, tool, text) ==
  /\ At(a, "unused") /\ \A b \in Asks : b < a => asks[b].tool \in Followed
  /\ tool \in Hosts.gateway => \A b \in Asks : asks[b].tool \in Hosts.gateway => asks[b].heard # "waiting"
  /\ (tool = "send_message") <=> (text # NoText)
  /\ writeCalls' = writeCalls + IF tool = "write_task" THEN 1 ELSE 0
  /\ asks' = [asks EXCEPT ![a] = [NoAsk EXCEPT !.tool = tool, !.text = text, !.index = writeCalls',
                                              !.pc = "asked", !.heard = "waiting"]]
  /\ World /\ Books /\ Outside /\ Calm

\* the MCP server waits 20 seconds; the Worker goes on
GiveUp(a) ==
  /\ asks[a].heard = "waiting"
  /\ asks' = [asks EXCEPT ![a].heard = "unavailable"]
  /\ World /\ Books /\ Outside /\ Upset /\ UNCHANGED writeCalls

\* what an operation selected under company authority may reach
Selected(tool) == HostOf(tool) \in {"brainbase", "drive", "anthropic", "hook"} \/ tool = "personal_kg"
\* the gateway: placement, arguments, delivery scope and the channels of a task scope
InScope(channels) == channels \subseteq {"open"}
GatewayAdmits(tool) ==
  CASE tool = "send_elsewhere" -> FALSE
    [] tool = "personal_kg" -> turn.dm
    [] tool = "across_open" -> InScope({"open"})
    [] tool = "across_closed" -> InScope({"open", "closed"})
    [] OTHER -> TRUE
BrainbaseAdmits(tool) == turn.authority => tool # "other_tool"
FreeeAdmits(tool) == tool # "freee_write"
Admits(tool) ==
  /\ tool \in Hosts.gateway => GatewayAdmits(tool)
  /\ tool \in Hosts.brainbase => BrainbaseAdmits(tool)
  /\ tool \in Hosts.freee => turn.freee /\ FreeeAdmits(tool)
CloneAdmits(tool) == tool = "clone" => ~turn.authority
\* the judgment hook of an authority operation needs its one project
HookAdmits(tool) == tool = "judgment_hook" /\ turn.authority => turn.scoped

\* One request of the container at the Worker, up to its first further await.
Resolve(a) ==
  LET tool == asks[a].tool
      allowed == /\ live /\ CloneAdmits(tool) /\ HookAdmits(tool) /\ (turn.authority => Selected(tool))
                 /\ Admits(tool)
  IN /\ At(a, "asked")
     /\ \/ ~allowed /\ Answers(a, "refused")
        \/ /\ allowed
           /\ To(a, IF tool = "personal_kg" THEN "authority"
                    ELSE IF tool = "send_message" THEN "books" ELSE "lease")
     /\ World /\ Books /\ Outside /\ Calm /\ UNCHANGED writeCalls

\* mutant: whoever the authority finds now is the owner
AuthorizeAnyone(a) ==
  /\ At(a, "authority")
  /\ \/ /\ turn.authority
        /\ asks' = [asks EXCEPT ![a].pc = "lease", ![a].result = mind]
     \/ ~turn.authority /\ Answers(a, "refused")
  /\ World /\ Books /\ Outside /\ Calm /\ UNCHANGED writeCalls
\* personal knowledge: the authority is asked again about this very operation
Authorize(a) ==
  /\ At(a, "authority")
  /\ \/ /\ turn.authority /\ mind = "same"
        /\ asks' = [asks EXCEPT ![a].pc = "lease", ![a].result = mind]
     \/ (mind # "same" \/ ~turn.authority) /\ Answers(a, "refused")
  /\ World /\ Books /\ Outside /\ Calm /\ UNCHANGED writeCalls

\* A batch that an earlier call froze and could not write is written now, and
\* the result kept with it is the answer.
ReadBooks(a) ==
  LET i == asks[a].index IN
  /\ At(a, "books")
  /\ \/ /\ account[i].outcome = "none" \/ account[i].written
        /\ To(a, "claim") /\ Calm /\ UNCHANGED account
     \/ /\ account[i].outcome # "none" /\ ~account[i].written
        /\ \/ /\ account' = [account EXCEPT ![i].written = TRUE]
              /\ asks' = [asks EXCEPT ![a] = [Answered(asks[a],
                            IF account[i].outcome = "ok" THEN "ok" ELSE "refused", {}) EXCEPT !.replayed = TRUE]]
              /\ Calm
           \/ Answers(a, "refused") /\ Upset /\ UNCHANGED account
  /\ World /\ Outside /\ UNCHANGED <<delivery, writeCalls>>

Over(i) == asks[delivery[i].by].pc \in {"done", "dead"}
\* mutant: the claim does not compare the payload
ClaimAnyText(a) ==
  LET i == asks[a].index
      d == delivery[i]
      free == d.state = "none" \/ (d.state = "claimed" /\ d.text = asks[a].text /\ Over(i))
  IN /\ At(a, "claim")
     /\ \/ /\ free /\ ~moved
           /\ delivery' = [delivery EXCEPT ![i] = [state |-> "claimed", by |-> a, text |-> asks[a].text]]
           /\ To(a, "lease")
        \/ /\ d.state = "succeeded" /\ ~moved
           /\ asks' = [asks EXCEPT ![a].pc = "account", ![a].result = "ok"]
           /\ UNCHANGED delivery
        \/ /\ d.state = "claimed" \/ moved
           /\ asks' = [asks EXCEPT ![a].pc = "account", ![a].result = "failed"]
           /\ UNCHANGED delivery
     /\ World /\ Outside /\ Calm /\ UNCHANGED <<account, writeCalls>>

\* The delivery claim of the effect id, for this text; a claim is taken over
\* once its lease has run out, which no living call lets happen.
Claim(a) ==
  LET i == asks[a].index
      d == delivery[i]
      free == d.state = "none" \/ (d.state = "claimed" /\ d.text = asks[a].text /\ Over(i))
      given == d.state = "succeeded" /\ d.text = asks[a].text
  IN /\ At(a, "claim")
     /\ \/ /\ free /\ ~moved
           /\ delivery' = [delivery EXCEPT ![i] = [state |-> "claimed", by |-> a, text |-> asks[a].text]]
           /\ To(a, "lease")
        \/ /\ given /\ ~moved
           /\ asks' = [asks EXCEPT ![a].pc = "account", ![a].result = "ok"]
           /\ UNCHANGED delivery
        \/ /\ moved \/ (d.state # "none" /\ ~given)
           /\ asks' = [asks EXCEPT ![a].pc = "account", ![a].result = "failed"]
           /\ UNCHANGED delivery
     /\ World /\ Outside /\ Calm /\ UNCHANGED <<account, writeCalls>>

\* what a call that cannot go on does: a message gives its claim back
Fails(a, doubt) ==
  LET i == asks[a].index IN
  IF asks[a].tool = "send_message"
  THEN /\ asks' = [asks EXCEPT ![a].pc = "account", ![a].result = "failed", ![a].doubt = doubt]
       /\ delivery' = [delivery EXCEPT ![i] = IF @.state = "claimed" /\ @.by = a THEN Unclaimed ELSE @]
  ELSE Answers(a, "failed") /\ UNCHANGED delivery

\* every request leases credentials of its own against the current connection
Lease(a) ==
  /\ At(a, "lease")
  /\ \/ ~moved /\ To(a, "forward") /\ Calm /\ UNCHANGED delivery
     \/ moved /\ Fails(a, FALSE) /\ Calm
     \/ Fails(a, FALSE) /\ Upset
  /\ World /\ Outside /\ UNCHANGED <<account, writeCalls>>

\* the provider operation a request is forwarded as
Operation(tool) ==
  IF tool \in Hosts.brainbase THEN (IF turn.authority THEN "authority_mcp" ELSE "mcp") ELSE tool
Effect(a) == [tool |-> asks[a].tool, operation |-> Operation(asks[a].tool),
              person |-> asks[a].result]

\* pages and catalogs as the provider sends them; what is shared belongs to an
\* authorized project and to another one
Pages == {{"own"}, {"own", "shared"}, {"own", "foreign"}}
Policed == {"tool_catalog", "freee_catalog"}
Paged == {"list_tasks", "across_open", "search_tasks"} \cup Policed
\* mutant: the gateway shows a task that has one authorized project
GatewayShowsSome(page) == IF "foreign" \in page THEN {} ELSE page
\* the gateway refuses a page with a task of another project
GatewayShows(page) == IF page \subseteq {"own"} THEN page ELSE {}
\* the search keeps the authorized projects of each task, and refuses a page
\* with a task that has none
SearchShows(page) == IF "foreign" \in page THEN {} ELSE {"own"}
\* a catalog keeps the tools of the policy
CatalogShows(page) == page \cap {"own"}
Shown(tool, page) ==
  CASE tool \in Hosts.gateway -> GatewayShows(page)
    [] tool = "search_tasks" -> SearchShows(page)
    [] tool = "tool_catalog" /\ ~turn.authority -> page
    [] OTHER -> CatalogShows(page)
\* a page of which nothing may be shown is an error
AnswerOf(tool, shown) == IF tool \in Paged /\ shown = {} THEN "failed" ELSE "ok"

\* The forwarder: the provider acts, or does not, and its answer arrives as
\* the exact wrapper of this operation, or not.
Forward(a) ==
  LET tool == asks[a].tool
      i == asks[a].index
      acts == /\ effects' = effects \cup {Effect(a)}
              /\ posted' = IF tool = "send_message" THEN [posted EXCEPT ![i] = Append(@, asks[a].text)] ELSE posted
  IN /\ At(a, "forward")
     /\ \/ /\ acts /\ Calm /\ UNCHANGED delivery
           /\ IF tool = "send_message" THEN To(a, "complete")
              ELSE \E page \in Pages :
                     LET shown == IF tool \in Paged THEN Shown(tool, page) ELSE {} IN
                     asks' = [asks EXCEPT ![a] = Answered(asks[a], AnswerOf(tool, shown), shown)]
        \/ acts /\ Fails(a, TRUE) /\ Upset
        \/ Outside /\ Fails(a, FALSE) /\ Upset
     /\ World /\ UNCHANGED <<account, writeCalls>>

\* mutant: the claim is given back once the message is posted
CompleteReleases(a) ==
  LET i == asks[a].index
      mine == delivery[i].state = "claimed" /\ delivery[i].by = a
  IN /\ At(a, "complete")
     /\ \/ /\ mine
           /\ delivery' = [delivery EXCEPT ![i] = Unclaimed]
           /\ asks' = [asks EXCEPT ![a].pc = "account", ![a].result = "ok"]
           /\ Calm
        \/ ((~mine /\ Calm) \/ Upset) /\ Fails(a, TRUE)
     /\ World /\ Outside /\ UNCHANGED <<account, writeCalls>>
\* the delivery claim is completed with the message, or given back
Complete(a) ==
  LET i == asks[a].index
      mine == delivery[i].state = "claimed" /\ delivery[i].by = a
  IN /\ At(a, "complete")
     /\ \/ /\ mine
           /\ delivery' = [delivery EXCEPT ![i].state = "succeeded"]
           /\ asks' = [asks EXCEPT ![a].pc = "account", ![a].result = "ok"]
           /\ Calm
        \/ ((~mine /\ Calm) \/ Upset) /\ Fails(a, TRUE)
     /\ World /\ Outside /\ UNCHANGED <<account, writeCalls>>

\* The operation is booked under its effect id: frozen, then written.  Another
\* outcome than the one on record is a conflict, and the call is refused.
Account(a) ==
  LET i == asks[a].index
      fits == account[i].outcome \in {"none", asks[a].result}
      answer == IF asks[a].result = "ok" /\ fits THEN "ok" ELSE "refused"
  IN /\ At(a, "account")
     /\ \/ /\ fits /\ account' = [account EXCEPT ![i] = [outcome |-> asks[a].result, written |-> TRUE]]
           /\ Answers(a, answer) /\ Calm
        \/ ~fits /\ Answers(a, "refused") /\ Calm /\ UNCHANGED account
        \/ /\ fits /\ ~account[i].written
           /\ account' = [account EXCEPT ![i].outcome = asks[a].result]
           /\ Answers(a, "refused") /\ Upset
     /\ World /\ Outside /\ UNCHANGED <<delivery, writeCalls>>

\* the Worker dies under a call; the container hears nothing
Die(a) ==
  /\ asks[a].pc \notin {"unused", "done", "dead"}
  /\ asks' = [asks EXCEPT ![a].pc = "dead", ![a].doubt = @ \/ At(a, "complete"), ![a].heard = "unavailable"]
  /\ World /\ Books /\ Outside /\ Upset /\ UNCHANGED writeCalls

\* the turn ends and its context is forgotten; the connection is replaced; the
\* authority comes to another decision or finds another person
End == live /\ live' = FALSE /\ UNCHANGED <<turn, moved, mind>>
Move == ~moved /\ moved' = TRUE /\ UNCHANGED <<turn, live, mind>>
Reconsider == mind = "same" /\ mind' \in {"approval", "other_person"} /\ UNCHANGED <<turn, live, moved>>

Worker(a) ==
  Resolve(a) \/ Authorize(a) \/ ReadBooks(a) \/ Claim(a) \/ Lease(a) \/ Forward(a) \/ Complete(a) \/ Account(a)
Next ==
  \/ \E a \in Asks, tool \in Tools, text \in Texts \cup {NoText} : Ask(a, tool, text)
  \/ \E a \in Asks : Worker(a) \/ GiveUp(a) \/ Die(a)
  \/ (End \/ Move \/ Reconsider) /\ Books /\ Outside /\ Upset /\ UNCHANGED <<writeCalls, asks>>
Spec == Init /\ [][Next]_gatewayVars
-----------------------------------------------------------------------------
TypeOK ==
  /\ turn \in Turns
  /\ live \in BOOLEAN /\ moved \in BOOLEAN /\ mind \in {"same", "approval", "other_person"}
  /\ writeCalls \in Nat /\ upsets \in 0 .. MaxUpsets
  /\ \A a \in Asks : asks[a].index \in Indices
  /\ \A i \in Indices : posted[i] \in Seq(Texts) /\ delivery[i].state \in {"none", "claimed", "succeeded"}

\* A message the agent is told was sent is in the thread as it wrote it, unless
\* the answer was taken from accounts that an earlier call had left pending.
SendReportedIsPosted ==
  \A a \in Asks : asks[a].tool = "send_message" /\ asks[a].heard = "ok" /\ ~asks[a].replayed =>
    \E n \in DOMAIN posted[asks[a].index] : posted[asks[a].index][n] = asks[a].text

\* Under one effect id a second message is posted only when the outcome of an
\* earlier one was lost to its caller.
PostedOncePerId ==
  \A i \in Indices :
    Len(posted[i]) <= 1 + Cardinality({a \in Asks : asks[a].index = i /\ asks[a].doubt})

\* What providers are made to do is what the context of the turn entitles to,
\* whichever host it was asked of.
EntitledOnly ==
  \A e \in effects :
    /\ e.tool \notin {"send_elsewhere", "across_closed", "freee_write"}
    /\ e.tool = "personal_kg" => turn.dm /\ turn.authority /\ e.person = "same"
    /\ e.tool \in Hosts.freee => turn.freee /\ ~turn.authority
    /\ e.tool \in {"clone", "search_tasks", "list_tasks", "across_open", "write_task", "send_message"} => ~turn.authority
    /\ e.tool \in Hosts.brainbase => (e.operation = "authority_mcp") = turn.authority

\* The agent sees no task outside its projects and no tool outside its policy.
SeenIsAllowed ==
  \A a \in Asks : asks[a].tool \in Paged /\ (asks[a].tool = "tool_catalog" => turn.authority) =>
    asks[a].seen \subseteq {"own"}
=============================================================================
