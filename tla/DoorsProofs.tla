---------------------------- MODULE DoorsProofs ----------------------------
(***************************************************************************)
(* Theorems about what comes in, for every value of the constants of three *)
(* of the components that DoorsMC puts side by side.                       *)
(*                                                                         *)
(* Interaction: any number of clicks.  Answered is the inductive           *)
(* invariant: a click on its way to the queue has seen the intake open     *)
(* (PressIsSound), and the selector is of a click that has started.        *)
(*                                                                         *)
(* Admission: any number of deliveries of one event, of messages' tries,   *)
(* changes and faults.  Admitted: the claim is held by a message that      *)
(* waits (ClaimIsSound), what was done is what was sealed (SealIsSound),   *)
(* and an event that was accepted waits or is settled (EventIsSound).      *)
(*                                                                         *)
(* Request: any size of a body, any buffer and any chunks, and two         *)
(* placements.  Requested: the buffer holds what came (BodyIsSound), and   *)
(* the event stays bound to the placement its configuration names          *)
(* (BindingIsSound).                                                       *)
(***************************************************************************)
EXTENDS DoorsMC, Sequences, FiniteSetTheorems, TLAPS

-----------------------------------------------------------------------------
(* The buttons.                                                            *)

(* Toggles and slips are counted.                                          *)
InteractionConstants == MaxToggles \in Nat /\ MaxSlips \in Nat

(* What a click and the selector can hold.                                 *)
Presses == [kind : Interaction!Kinds, on : Clicks \cup {Interaction!Nobody}, menu : BOOLEAN, failed : BOOLEAN, open : BOOLEAN, left : 0..2,
            pc : {"idle", "receipt", "resolve", "project", "act", "gate", "work", "send", "tell", "done"},
            then : {"send", "done"}, told : BOOLEAN, fate : {"none", "untold", "unowned", "died"}]
Screens == [by : Clicks \cup {Interaction!Nobody}, shows : {"menu", "progress", "pending", "confirmed", "notice"}]

(* A click is only in the queue, or on its way there, when the intake was  *)
(* open at some time since it was made, and a choice does not end without  *)
(* a command, an answer or a fate of its own.                              *)
PressIsSound(c, r, queue) ==
  /\ r.menu => r.kind = "navigate" /\ r.pc # "receipt"
  /\ r.pc = "act" => r.kind = "act"
  /\ r.pc \in {"work", "send"} \/ (r.pc = "tell" /\ r.then = "send") => r.open
  /\ r.pc = "done" /\ r.kind \in {"choose", "confirm"} => c \in queue \/ r.told \/ r.fate # "none"
  /\ c \in queue => r.open /\ r.pc # "idle"

InteractionTypes ==
  /\ clicks \in [Clicks -> Presses] /\ screen \in Screens
  /\ commands \subseteq Clicks /\ pause \in BOOLEAN /\ toggles \in 0..MaxToggles /\ slips \in 0..MaxSlips

(* A click that never saw the intake open was made in a pause that lasts,  *)
(* and the shared selector shows what a click that has started made of it. *)
Answered ==
  /\ InteractionTypes
  /\ \A c \in Clicks : PressIsSound(c, clicks[c], commands) /\ (clicks[c].pc # "idle" => clicks[c].open \/ pause)
  /\ screen.by # Interaction!Nobody => clicks[screen.by].pc # "idle" /\ clicks[screen.by].kind \in {"navigate", "choose"}

(* Answered is inductive, and says all that the run checks.                *)
LEMMA AnsweredAtFirst == ASSUME InteractionConstants, Interaction!Init PROVE Answered
<1>1. Interaction!Unmade \in Presses /\ 0 \in 0..MaxToggles /\ 0 \in 0..MaxSlips
  BY DEF InteractionConstants, Interaction!Unmade, Presses, Interaction!Kinds, Interaction!Nobody
<1>2. InteractionTypes
  BY <1>1 DEF InteractionTypes, Interaction!Init, Screens
<1>3. QED
  BY <1>2 DEF Answered, Interaction!Init, PressIsSound, Interaction!Unmade

(* How the work of one click goes on: what it does to its own record and   *)
(* to the selector leaves the others as they were.                         *)
LEMMA Pressing ==
  ASSUME Answered, NEW c \in Clicks, NEW r \in Presses, clicks[c].pc # "idle", r.pc # "idle",
         r.kind = clicks[c].kind, r.open = clicks[c].open, Interaction!Became(c, r),
         commands' \in {commands, commands \cup {c}}, PressIsSound(c, r, commands'),
         slips' \in 0..MaxSlips, UNCHANGED <<pause, toggles>>,
         screen' = screen \/ (screen' \in Screens /\ screen'.by = c /\ r.kind \in {"navigate", "choose"})
  PROVE  Answered'
<1>1. /\ clicks' \in [Clicks -> Presses] /\ clicks'[c] = r
      /\ \A x \in Clicks : x # c => clicks'[x] = clicks[x]
  BY DEF Interaction!Became, Answered, InteractionTypes
<1>2. InteractionTypes'
  BY <1>1 DEF Answered, InteractionTypes
<1>3. \A x \in Clicks : PressIsSound(x, clicks'[x], commands')
  BY <1>1 DEF Answered, PressIsSound
<1>4. \A x \in Clicks : clicks'[x].pc # "idle" => clicks'[x].open \/ pause'
  BY <1>1 DEF Answered
<1>5. screen'.by # Interaction!Nobody => clicks'[screen'.by].pc # "idle" /\ clicks'[screen'.by].kind \in {"navigate", "choose"}
  <2>1. CASE screen' = screen
    BY <2>1, <1>1 DEF Answered, InteractionTypes, Screens
  <2>2. CASE screen'.by = c /\ r.kind \in {"navigate", "choose"}
    BY <2>2, <1>1
  <2>3. QED
    BY <2>1, <2>2
<1>6. QED
  BY <1>2, <1>3, <1>4, <1>5 DEF Answered

Shared(c) == screen' = screen \/ (screen' \in Screens /\ screen'.by = c /\ clicks[c].kind \in {"navigate", "choose"})

(* The pieces of that work: to change the selector, to be told of it, to   *)
(* set a flag.                                                             *)
LEMMA Painting ==
  ASSUME InteractionConstants, Answered, NEW c \in Clicks, NEW what, NEW ok, NEW failed, Interaction!Paint(c, what, ok, failed),
         Interaction!Is(c, {"navigate", "choose"}) => what \in {"menu", "progress", "pending", "confirmed", "notice"}
  PROVE  /\ Interaction!Became(c, ok) \/ Interaction!Became(c, failed)
         /\ slips' \in 0..MaxSlips /\ Shared(c)
         /\ screen' = screen \/ screen'.shows = what
<1>1. clicks[c].kind \in Interaction!Kinds
  BY DEF Answered, InteractionTypes, Presses
<1>2. slips' \in 0..MaxSlips
  BY DEF Interaction!Paint, Interaction!Slip, Answered, InteractionTypes, InteractionConstants
<1>3. CASE Interaction!Is(c, Interaction!Private \cup {"act"})
  BY <1>2, <1>3 DEF Interaction!Paint, Shared
<1>4. CASE ~Interaction!Is(c, Interaction!Private \cup {"act"})
  <2>1. clicks[c].kind \in {"navigate", "choose"}
    BY <1>1, <1>4 DEF Interaction!Is, Interaction!Private, Interaction!Kinds
  <2>2. [by |-> c, shows |-> what] \in Screens
    BY <2>1 DEF Interaction!Is, Screens
  <2>3. QED
    BY <1>2, <1>4, <2>1, <2>2 DEF Interaction!Paint, Shared
<1>5. QED
  BY <1>3, <1>4

LEMMA Telling ==
  ASSUME NEW r \in Presses, NEW n \in {1, 2}, NEW next \in {"send", "done"}
  PROVE  /\ Interaction!ToTell(r, n, next) \in Presses /\ Interaction!ToTell(r, n, next).pc = "tell" /\ Interaction!ToTell(r, n, next).then = next
         /\ Interaction!ToTell(r, n, next).kind = r.kind /\ Interaction!ToTell(r, n, next).open = r.open /\ Interaction!ToTell(r, n, next).menu = r.menu
<1>1. /\ DOMAIN r = {"kind", "on", "menu", "failed", "open", "left", "pc", "then", "told", "fate"}
      /\ r.menu \in BOOLEAN /\ r.open \in BOOLEAN
  BY DEF Presses
<1>2. /\ Interaction!ToTell(r, n, next).told = FALSE /\ Interaction!ToTell(r, n, next).failed = r.failed
      /\ Interaction!ToTell(r, n, next).kind = r.kind /\ Interaction!ToTell(r, n, next).open = r.open /\ Interaction!ToTell(r, n, next).menu = r.menu
      /\ Interaction!ToTell(r, n, next).pc = "tell" /\ Interaction!ToTell(r, n, next).then = next
  BY <1>1, Zenon DEF Interaction!ToTell
<1>3. Interaction!ToTell(r, n, next) \in Presses
  BY <1>2, n \in 0..2 DEF Interaction!ToTell, Presses
<1>4. QED
  BY <1>2, <1>3

LEMMA Setting ==
  ASSUME NEW r \in Presses, NEW b \in BOOLEAN
  PROVE  /\ [r EXCEPT !.pc = "resolve", !.menu = b] \in Presses
         /\ [r EXCEPT !.pc = "resolve", !.menu = b].pc = "resolve" /\ [r EXCEPT !.pc = "resolve", !.menu = b].menu = b
         /\ [r EXCEPT !.pc = "resolve", !.menu = b].kind = r.kind /\ [r EXCEPT !.pc = "resolve", !.menu = b].open = r.open
<1> DEFINE q == [r EXCEPT !.pc = "resolve", !.menu = b]
<1>1. /\ DOMAIN r = {"kind", "on", "menu", "failed", "open", "left", "pc", "then", "told", "fate"}
      /\ r.menu \in BOOLEAN /\ r.open \in BOOLEAN
  BY DEF Presses
<1>2. q.pc = "resolve" /\ q.menu = b /\ q.kind = r.kind /\ q.open = r.open
  BY <1>1, Zenon
<1>3. q \in Presses
  BY DEF Presses
<1>4. QED
  BY <1>2, <1>3

LEMMA Opening ==
  ASSUME NEW r \in Presses, NEW b \in BOOLEAN
  PROVE  [r EXCEPT !.open = @ \/ b] = IF b THEN [r EXCEPT !.open = TRUE] ELSE r
<1>1. r.open \in BOOLEAN /\ [r EXCEPT !.open = r.open] = r
  BY DEF Presses
<1>2. CASE b
  BY <1>2, r.open \/ b = TRUE, Zenon
<1>3. CASE ~b
  BY <1>1, <1>3, (r.open \/ b) = r.open, Zenon
<1>4. QED
  BY <1>2, <1>3

(* One case per step of the work.                                          *)
LEMMA WorkKeepsAnswered ==
  ASSUME InteractionConstants, Answered, NEW c \in Clicks, Interaction!Work(c) \/ Interaction!Die(c)
  PROVE  Answered'
<1> DEFINE p == clicks[c]
<1>0. /\ p \in Presses /\ PressIsSound(c, p, commands) /\ p.kind \in Interaction!Kinds
      /\ slips \in 0..MaxSlips /\ (Interaction!Slip => slips' \in 0..MaxSlips)
      /\ p.pc # "idle" => p.open \/ pause
  BY DEF Answered, InteractionTypes, Presses, Interaction!Slip, InteractionConstants
<1>a. \A n \in {1, 2}, next \in {"send", "done"} :
        /\ Interaction!ToTell(p, n, next) \in Presses /\ Interaction!ToTell(p, n, next).pc = "tell" /\ Interaction!ToTell(p, n, next).then = next
        /\ Interaction!ToTell(p, n, next).kind = p.kind /\ Interaction!ToTell(p, n, next).open = p.open /\ Interaction!ToTell(p, n, next).menu = p.menu
  BY <1>0, Telling
<1>1. CASE Interaction!Receipt(c)
  <2>1. PICK r \in {[p EXCEPT !.pc = "resolve", !.menu = Interaction!Is(c, {"navigate"})], [p EXCEPT !.pc = "resolve"]} :
          Interaction!Became(c, r) /\ slips' \in 0..MaxSlips /\ Shared(c)
    BY <1>1, Painting DEF Interaction!Receipt
  <2> DEFINE b == Interaction!Is(c, {"navigate"})
  <2>a. Interaction!Is(c, {"navigate"}) \in BOOLEAN /\ (Interaction!Is(c, {"navigate"}) => p.kind = "navigate")
    BY DEF Interaction!Is
  <2>b. /\ [p EXCEPT !.pc = "resolve", !.menu = b] \in Presses
        /\ [p EXCEPT !.pc = "resolve", !.menu = b].pc = "resolve" /\ [p EXCEPT !.pc = "resolve", !.menu = b].menu = b
        /\ [p EXCEPT !.pc = "resolve", !.menu = b].kind = p.kind /\ [p EXCEPT !.pc = "resolve", !.menu = b].open = p.open
    BY <1>0, <2>a, Setting, Zenon
  <2> DEFINE Right == r \in Presses /\ r.pc # "idle" /\ r.kind = p.kind /\ r.open = p.open /\ PressIsSound(c, r, commands)
  <2>c. ASSUME r = [p EXCEPT !.pc = "resolve"] PROVE Right
    BY <1>0, <1>1, <2>c DEF Presses, PressIsSound, Interaction!Receipt, Interaction!At
  <2>d. ASSUME r = [p EXCEPT !.pc = "resolve", !.menu = b] PROVE Right
    <3>1. r.pc = "resolve" /\ (r.menu => r.kind = "navigate") /\ r.open = p.open /\ r.kind = p.kind /\ r \in Presses
      BY <2>a, <2>b, <2>d, Zenon
    <3>2. QED
      BY <1>0, <1>1, <3>1 DEF PressIsSound, Interaction!Receipt, Interaction!At
  <2>2. r \in Presses /\ r.pc # "idle" /\ r.kind = p.kind /\ r.open = p.open /\ PressIsSound(c, r, commands)
    BY <2>1, <2>c, <2>d
  <2>3. QED
    BY <1>1, <2>1, <2>2, Pressing DEF Interaction!Receipt, Interaction!At, Shared
<1>2. CASE Interaction!Resolve(c)
  <2>1. PICK r \in {[p EXCEPT !.pc = "project"], Interaction!ToTell(p, 1, "done"), [p EXCEPT !.pc = "done", !.fate = "unowned"]} :
          Interaction!Became(c, r) /\ slips' \in 0..MaxSlips
    BY <1>0, <1>2 DEF Interaction!Resolve, Interaction!To
  <2> DEFINE Right == r \in Presses /\ r.pc # "idle" /\ r.kind = p.kind /\ r.open = p.open /\ PressIsSound(c, r, commands)
  <2>a. p.pc = "resolve"
    BY <1>2 DEF Interaction!Resolve, Interaction!At
  <2>b. ASSUME r = [p EXCEPT !.pc = "project"] PROVE Right
    BY <1>0, <2>a, <2>b DEF Presses, PressIsSound
  <2>c. ASSUME r = Interaction!ToTell(p, 1, "done") PROVE Right
    BY <1>0, <1>a, <2>a, <2>c DEF PressIsSound
  <2>d. ASSUME r = [p EXCEPT !.pc = "done", !.fate = "unowned"] PROVE Right
    BY <1>0, <2>a, <2>d DEF Presses, PressIsSound
  <2>2. Right
    BY <2>1, <2>b, <2>c, <2>d
  <2>3. QED
    BY <1>2, <2>1, <2>2, Pressing DEF Interaction!Resolve, Interaction!At
<1>3. CASE Interaction!Project(c)
  <2> DEFINE next == [p EXCEPT !.pc = IF Interaction!Is(c, {"act"}) THEN "act" ELSE "gate"]
  <2>1. PICK r \in {next, [next EXCEPT !.failed = TRUE]} :
          Interaction!Became(c, r) /\ slips' \in 0..MaxSlips /\ Shared(c)
    BY <1>0, <1>3, Painting DEF Interaction!Project, Shared
  <2>2. r \in Presses /\ r.pc # "idle" /\ r.kind = p.kind /\ r.open = p.open /\ PressIsSound(c, r, commands)
    BY <1>0, <1>3 DEF Presses, PressIsSound, Interaction!Is, Interaction!Project, Interaction!At
  <2>3. QED
    BY <1>3, <2>1, <2>2, Pressing DEF Interaction!Project, Interaction!At, Shared
<1>4. CASE Interaction!Act(c)
  <2>1. PICK r \in {[p EXCEPT !.pc = "done"], Interaction!ToTell(p, 1, "done")} : Interaction!Became(c, r) /\ slips' \in 0..MaxSlips
    BY <1>0, <1>4 DEF Interaction!Act, Interaction!To
  <2>2. r \in Presses /\ r.pc # "idle" /\ r.kind = p.kind /\ r.open = p.open /\ PressIsSound(c, r, commands)
    BY <1>0, <1>4, <1>a DEF Presses, PressIsSound, Interaction!Act, Interaction!At
  <2>3. QED
    BY <1>4, <2>1, <2>2, Pressing DEF Interaction!Act, Interaction!At
<1>5. CASE Interaction!Gate(c)
  <2>1. PICK r \in {[p EXCEPT !.pc = "work"], Interaction!ToTell(p, 1, "done"), Interaction!ToTell(p, 2, "done")} :
          Interaction!Became(c, r) /\ slips' \in 0..MaxSlips /\ (r.pc = "work" => ~pause)
    BY <1>0, <1>5, <1>a DEF Interaction!Gate, Interaction!To
  <2>2. r \in Presses /\ r.pc # "idle" /\ r.kind = p.kind /\ r.open = p.open /\ PressIsSound(c, r, commands)
    BY <1>0, <1>5, <1>a, <2>1 DEF Presses, PressIsSound, Interaction!Gate, Interaction!At
  <2>3. QED
    BY <1>5, <2>1, <2>2, Pressing DEF Interaction!Gate, Interaction!At
<1>6. CASE Interaction!Menu(c)
  <2>1. PICK r \in {[p EXCEPT !.pc = "done"], Interaction!ToTell(p, 1, "done")} :
          Interaction!Became(c, r) /\ slips' \in 0..MaxSlips /\ Shared(c)
    BY <1>0, <1>6, Painting DEF Interaction!Menu, Interaction!To, Shared
  <2>2. r \in Presses /\ r.pc # "idle" /\ r.kind = p.kind /\ r.open = p.open /\ PressIsSound(c, r, commands)
    BY <1>0, <1>6, <1>a DEF Presses, PressIsSound, Interaction!Menu, Interaction!At, Interaction!Is
  <2>3. QED
    BY <1>6, <2>1, <2>2, Pressing DEF Interaction!Menu, Interaction!At, Shared
<1>7. CASE Interaction!Answer(c)
  <2>1. CASE Interaction!Is(c, {"redo"})
    <3>1. PICK r \in {[p EXCEPT !.pc = "done", !.told = TRUE], Interaction!ToTell(p, 1, "done")} :
            Interaction!Became(c, r) /\ slips' \in 0..MaxSlips /\ Shared(c)
      BY <1>7, <2>1, Painting DEF Interaction!Answer, Interaction!Is
    <3> DEFINE Right == r \in Presses /\ r.pc # "idle" /\ r.kind = p.kind /\ r.open = p.open /\ PressIsSound(c, r, commands)
    <3>a. p.pc = "work" /\ p.kind = "redo"
      BY <1>7, <2>1 DEF Interaction!Answer, Interaction!At, Interaction!Is
    <3>b. ASSUME r = [p EXCEPT !.pc = "done", !.told = TRUE] PROVE Right
      BY <1>0, <3>a, <3>b DEF Presses, PressIsSound
    <3>c. ASSUME r = Interaction!ToTell(p, 1, "done") PROVE Right
      BY <1>0, <1>a, <3>a, <3>c DEF PressIsSound
    <3>2. Right
      BY <3>1, <3>b, <3>c
    <3>3. QED
      BY <1>7, <3>1, <3>2, Pressing DEF Interaction!Answer, Interaction!At, Shared
  <2>2. CASE ~Interaction!Is(c, {"redo"})
    <3>1. PICK r \in {[p EXCEPT !.pc = "send"], [p EXCEPT !.pc = "send", !.failed = TRUE]} :
            Interaction!Became(c, r) /\ slips' \in 0..MaxSlips /\ Shared(c)
      BY <1>7, <2>2, Painting DEF Interaction!Answer, Interaction!Is, Interaction!Private
    <3>2. r \in Presses /\ r.pc # "idle" /\ r.kind = p.kind /\ r.open = p.open /\ PressIsSound(c, r, commands)
      BY <1>0, <1>7, <2>2 DEF Presses, PressIsSound, Interaction!Answer, Interaction!At, Interaction!Is
    <3>3. QED
      BY <1>7, <3>1, <3>2, Pressing DEF Interaction!Answer, Interaction!At, Shared
  <2>3. QED
    BY <2>1, <2>2
<1>8. CASE Interaction!Show(c)
  <2>1. PICK r \in {[p EXCEPT !.pc = "send"], Interaction!ToTell(p, 1, "send"), Interaction!ToTell(p, 1, "done")} : Interaction!Became(c, r)
    BY <1>8 DEF Interaction!Show, Interaction!To
  <2>2. r \in Presses /\ r.pc # "idle" /\ r.kind = p.kind /\ r.open = p.open /\ PressIsSound(c, r, commands)
    BY <1>0, <1>8, <1>a DEF Presses, PressIsSound, Interaction!Show, Interaction!At
  <2>3. QED
    BY <1>0, <1>8, <2>1, <2>2, Pressing DEF Interaction!Show, Interaction!At
<1>9. CASE Interaction!Send(c)
  <2>1. PICK r \in {[p EXCEPT !.pc = "done"], Interaction!ToTell(p, 1, "done"), Interaction!ToTell(p, 2, "done")} :
          /\ Interaction!Became(c, r) /\ slips' \in 0..MaxSlips /\ commands' \in {commands, commands \cup {c}}
          /\ r.pc = "done" => commands' = commands \cup {c}
    BY <1>0, <1>9, <1>a DEF Interaction!Send, Interaction!To, Interaction!Enqueue
  <2>2. r \in Presses /\ r.pc # "idle" /\ r.kind = p.kind /\ r.open = p.open /\ PressIsSound(c, r, commands')
    BY <1>0, <1>9, <1>a, <2>1 DEF Presses, PressIsSound, Interaction!Send, Interaction!At
  <2>3. QED
    BY <1>9, <2>1, <2>2, Pressing DEF Interaction!Send, Interaction!At
<1>10. CASE Interaction!Tell(c)
  <2> DEFINE told == [p EXCEPT !.pc = p.then, !.told = TRUE]
             again == [p EXCEPT !.left = @ - 1]
             lost == [p EXCEPT !.pc = p.then, !.fate = "untold"]
             failed == IF p.left > 1 THEN again ELSE lost
             Right(r) == r \in Presses /\ r.pc # "idle" /\ r.kind = p.kind /\ r.open = p.open /\ PressIsSound(c, r, commands)
  <2>1. p.pc = "tell" /\ Interaction!Paint(c, "notice", told, failed)
    BY <1>10 DEF Interaction!Tell, Interaction!At
  <2>2. (Interaction!Became(c, told) \/ Interaction!Became(c, failed)) /\ slips' \in 0..MaxSlips /\ Shared(c)
    BY <2>1, Painting
  <2>3. p.then \in {"send", "done"} /\ p.left \in 0..2
    BY <1>0 DEF Presses
  <2>a. Right(told)
    BY <1>0, <2>1, <2>3 DEF Presses, PressIsSound
  <2>b. ASSUME p.left > 1 PROVE Right(again)
    <3>1. p.left - 1 \in 0..2
      BY <2>3, <2>b
    <3>2. QED
      BY <1>0, <2>1, <3>1 DEF Presses, PressIsSound
  <2>c. Right(lost)
    BY <1>0, <2>1, <2>3 DEF Presses, PressIsSound
  <2>4. PICK r \in {told, failed} : Interaction!Became(c, r) /\ Right(r)
    BY <2>2, <2>a, <2>b, <2>c
  <2>5. QED
    BY <1>10, <2>1, <2>2, <2>4, Pressing DEF Interaction!Tell, Shared
<1>11. CASE Interaction!Die(c)
  <2>1. [p EXCEPT !.pc = "done", !.fate = "died"] \in Presses /\ PressIsSound(c, [p EXCEPT !.pc = "done", !.fate = "died"], commands)
    BY <1>0, <1>11 DEF Presses, PressIsSound, Interaction!Die
  <2>2. QED
    BY <1>0, <1>11, <2>1, Pressing DEF Interaction!Die, Presses
<1>12. QED
  BY <1>1, <1>2, <1>3, <1>4, <1>5, <1>6, <1>7, <1>8, <1>9, <1>10, <1>11 DEF Interaction!Work

LEMMA AnsweredIsKept == ASSUME InteractionConstants, Answered, [Interaction!Next]_Interaction!interactionVars PROVE Answered'
<1>1. CASE Interaction!Toggle
  <2>0. pause \in BOOLEAN /\ clicks \in [Clicks -> Presses]
    BY DEF Answered, InteractionTypes
  <2>1. clicks' = [x \in Clicks |-> IF pause THEN [clicks[x] EXCEPT !.open = TRUE] ELSE clicks[x]]
    BY <1>1, <2>0, Opening DEF Interaction!Toggle
  <2>2. InteractionTypes'
    <3>1. \A x \in Clicks : [clicks[x] EXCEPT !.open = TRUE] \in Presses
      BY <2>0 DEF Presses
    <3>2. QED
      BY <1>1, <2>0, <2>1, <3>1 DEF Interaction!Toggle, Answered, InteractionTypes, InteractionConstants
  <2>3. \A x \in Clicks : PressIsSound(x, clicks'[x], commands') /\ (clicks'[x].pc # "idle" => clicks'[x].open \/ pause')
    BY <1>1, <2>0, <2>1 DEF Interaction!Toggle, Answered, PressIsSound, Presses
  <2>4. \A x \in Clicks : clicks'[x].kind = clicks[x].kind /\ clicks'[x].pc = clicks[x].pc
    BY <2>0, <2>1 DEF Presses
  <2>5. QED
    BY <1>1, <2>2, <2>3, <2>4 DEF Interaction!Toggle, Answered, InteractionTypes, Screens
<1>2. ASSUME NEW c \in Clicks, Interaction!Click(c) PROVE Answered'
  <2>1. PICK kind \in Interaction!Kinds :
          Interaction!Became(c, [Interaction!Unmade EXCEPT !.kind = kind, !.on = screen.by, !.open = ~pause,
                                   !.pc = IF kind \in {"navigate", "choose"} THEN "receipt" ELSE "resolve"])
    BY <1>2 DEF Interaction!Click
  <2> DEFINE r == [Interaction!Unmade EXCEPT !.kind = kind, !.on = screen.by, !.open = ~pause,
                                 !.pc = IF kind \in {"navigate", "choose"} THEN "receipt" ELSE "resolve"]
  <2>a. r \in Presses
    <3> DEFINE start == IF kind \in {"navigate", "choose"} THEN "receipt" ELSE "resolve"
    <3>1. screen.by \in Clicks \cup {Interaction!Nobody} /\ Interaction!Unmade \in Presses /\ start \in {"receipt", "resolve"}
      BY DEF Interaction!Unmade, Presses, Interaction!Kinds, Interaction!Nobody, Answered, InteractionTypes, Screens
    <3>2. \A u \in Presses, o \in BOOLEAN, s \in {"receipt", "resolve"} :
            [u EXCEPT !.kind = kind, !.on = screen.by, !.open = o, !.pc = s] \in Presses
      BY <3>1 DEF Presses
    <3>3. PICK o \in BOOLEAN : o = ~pause
      BY Zenon
    <3>4. [Interaction!Unmade EXCEPT !.kind = kind, !.on = screen.by, !.open = o, !.pc = start] \in Presses
      BY <3>1, <3>2
    <3>5. QED
      BY <3>3, <3>4, Zenon
  <2>b. r.pc \in {"receipt", "resolve"} /\ r.menu = FALSE
    BY DEF Interaction!Unmade
  <2>c. r.open = ~pause
    BY Zenon DEF Interaction!Unmade
  <2>2. r \in Presses /\ r.pc \in {"receipt", "resolve"} /\ r.menu = FALSE /\ (r.open <=> ~pause)
    BY <2>a, <2>b, <2>c, Zenon
  <2>3. clicks' \in [Clicks -> Presses] /\ clicks'[c] = r /\ \A x \in Clicks : x # c => clicks'[x] = clicks[x]
    BY <2>1, <2>2 DEF Interaction!Became, Answered, InteractionTypes
  <2>4. InteractionTypes'
    BY <1>2, <2>3 DEF Interaction!Click, Answered, InteractionTypes
  <2>5. \A x \in Clicks : PressIsSound(x, clicks'[x], commands') /\ (clicks'[x].pc # "idle" => clicks'[x].open \/ pause')
    <3>1. c \notin commands /\ UNCHANGED <<commands, pause>>
      BY <1>2 DEF Interaction!Click, Answered, PressIsSound, Interaction!At
    <3>2. ASSUME NEW x \in Clicks, x # c
          PROVE PressIsSound(x, clicks'[x], commands') /\ (clicks'[x].pc # "idle" => clicks'[x].open \/ pause')
      BY <2>3, <3>1, <3>2 DEF Answered
    <3>3. r.open \/ pause
      BY <2>2
    <3>4. PressIsSound(c, r, commands)
      BY <2>2, <3>1 DEF PressIsSound
    <3>5. QED
      BY <2>3, <3>1, <3>2, <3>3, <3>4
  <2>6. QED
    BY <1>2, <2>3, <2>4, <2>5 DEF Interaction!Click, Answered, Interaction!At, InteractionTypes, Screens
<1>3. CASE UNCHANGED Interaction!interactionVars
  BY <1>3 DEF Interaction!interactionVars, Answered, InteractionTypes, PressIsSound
<1>4. QED
  BY <1>1, <1>2, <1>3, WorkKeepsAnswered DEF Interaction!Next

LEMMA AnsweredIsEnough ==
  ASSUME Answered PROVE Interaction!TypeOK /\ Interaction!RedoKeepsStatus /\ Interaction!ChoiceIsAnswered /\ Interaction!PausedIsNotQueued
<1>1. Interaction!TypeOK
  BY DEF Answered, InteractionTypes, Interaction!TypeOK, Presses, Screens
<1>2. QED
  BY <1>1 DEF Answered, InteractionTypes, PressIsSound, Interaction!RedoKeepsStatus, Interaction!ChoiceIsAnswered, Interaction!PausedIsNotQueued, Interaction!At, Interaction!Is

(* Who puts a menu on the selector it found shows a notice, not what was   *)
(* chosen.                                                                 *)
LEMMA ChoiceIsSeen ==
  ASSUME InteractionConstants, Answered, [Interaction!Next]_Interaction!interactionVars, NEW a \in Clicks,
         clicks[a].menu, screen' # screen, screen'.by = a
  PROVE  screen'.shows = "notice"
<1>1. PICK c \in Clicks : Interaction!Work(c)
  BY DEF Interaction!Next, Interaction!Toggle, Interaction!Click, Interaction!Die, Interaction!interactionVars
<1>2. PressIsSound(a, clicks[a], commands)
  BY DEF Answered
<1>3. screen' # screen => screen'.by = c
  BY <1>1 DEF Interaction!Work, Interaction!Receipt, Interaction!Resolve, Interaction!Project, Interaction!Act, Interaction!Gate, Interaction!Menu, Interaction!Answer, Interaction!Show, Interaction!Send, Interaction!Tell, Interaction!Paint
<1>4. CASE Interaction!Tell(c)
  BY <1>4 DEF Interaction!Tell, Interaction!Paint
<1>5. CASE Interaction!Receipt(c) \/ Interaction!Project(c) \/ Interaction!Menu(c) \/ Interaction!Answer(c)
  BY <1>2, <1>3, <1>5 DEF PressIsSound, Interaction!Receipt, Interaction!Project, Interaction!Menu, Interaction!Answer, Interaction!Paint, Interaction!At, Interaction!Is, Interaction!Private
<1>6. QED
  BY <1>1, <1>4, <1>5 DEF Interaction!Work, Interaction!Resolve, Interaction!Act, Interaction!Gate, Interaction!Show, Interaction!Send

(* What the run checks of the buttons, of every behaviour.                 *)
LEMMA InteractionHolds ==
  ASSUME InteractionConstants
  PROVE  Interaction!Init /\ [][Interaction!Next]_Interaction!interactionVars
           => [](Interaction!TypeOK /\ Interaction!RedoKeepsStatus /\ Interaction!ChoiceIsAnswered /\ Interaction!PausedIsNotQueued) /\ Interaction!ChoiceStaysVisible
<1>1. Interaction!Init => Answered
  BY AnsweredAtFirst
<1>2. Answered /\ [Interaction!Next]_Interaction!interactionVars => Answered'
  BY AnsweredIsKept
<1>3. Answered => Interaction!TypeOK /\ Interaction!RedoKeepsStatus /\ Interaction!ChoiceIsAnswered /\ Interaction!PausedIsNotQueued
  BY AnsweredIsEnough
<1>4. Answered /\ [Interaction!Next]_Interaction!interactionVars =>
        [\A a, b \in Clicks :
           screen.by = b /\ clicks[b].on = a /\ clicks[a].menu /\ screen' # screen /\ screen'.by = a
             => screen'.shows = "notice"]_Interaction!interactionVars
  BY ChoiceIsSeen
<1>5. QED
  BY <1>1, <1>2, <1>3, <1>4, PTL DEF Interaction!ChoiceStaysVisible

-----------------------------------------------------------------------------
(* The admission of an event.                                              *)

(* A message is delivered at least once; changes and faults are counted.   *)
AdmissionConstants == MaxTries \in Nat \ {0} /\ MaxChanges \in Nat /\ MaxFaults \in Nat

(* What the deliveries, the messages and the workers can hold.             *)
Handlers == [pc : {"idle", "asking", "sending", "answering", "answered", "refused"}, rollout : Admission!Rollouts]
Letters == [state : {"none", "sealed", "queued", "taken", "acked", "dead"},
            route : {"T0", "CA"}, decision : Admission!Decisions, fresh : BOOLEAN, tries : 0..MaxTries]
Duties == [pc : {"idle", "accept", "route", "launch", "run", "settle", "fail", "release"},
           decision : Admission!Decisions, refreshed : BOOLEAN, posted : BOOLEAN]

AdmissionTypes ==
  /\ rollout \in Admission!Rollouts /\ policy \in Admission!Decisions /\ changes \in 0..MaxChanges /\ answered \in BOOLEAN
  /\ slack \in [Attempts -> Handlers] /\ mail \in [Attempts -> Letters] /\ worker \in [Attempts -> Duties]
  /\ claim \in [state : {"none", "claimed", "settled"}, by : Attempts \cup {Admission!Nobody}, live : BOOLEAN]
  /\ handoff \in Attempts \cup {Admission!Nobody} /\ outbox \in Attempts \cup {Admission!Nobody}
  /\ turn \in [state : {"none", "processing", "completed"}, by : Attempts \cup {Admission!Nobody}]
  /\ posts \subseteq [by : Attempts, decision : Admission!Decisions] /\ mishaps \in 0..MaxFaults

(* A message is there once its delivery sealed it, and one on the T0 route *)
(* was decided auto.                                                       *)
MailIsSound(a) ==
  /\ slack[a].pc \in {"idle", "asking", "refused"} => mail[a].state = "none"
  /\ slack[a].pc = "sending" => mail[a].state = "sealed" /\ mail[a].tries = 0
  /\ slack[a].pc \in {"answering", "answered"} => mail[a].state \in {"queued", "taken", "acked", "dead"}
  /\ mail[a].state = "queued" => mail[a].tries < MaxTries
  /\ mail[a].state \in {"none", "sealed"} => mail[a].fresh
  /\ mail[a].route = "T0" => mail[a].decision = "auto"

(* A worker has a message it took, and beyond its start the claim; it      *)
(* launches and runs what was sealed for that.                             *)
DutyIsSound(a) ==
  /\ worker[a].pc = "idle" <=> mail[a].state # "taken"
  /\ worker[a].pc \notin {"idle", "accept"} => claim.state = "claimed" /\ claim.by = a
  /\ worker[a].pc = "launch" => mail[a].route = "CA" /\ mail[a].decision = "auto"
  /\ worker[a].pc = "run" => turn.state = "processing" /\ turn.by = a /\ mail[a].decision = "auto"

(* A message that still can be worked on, or whose context ran out; a      *)
(* delivery that enqueued.                                                 *)
Waits(a) == mail[a].state \in {"queued", "taken", "dead"} \/ ~mail[a].fresh
Sent(a) == slack[a].pc \in {"answering", "answered"}

(* The claim is held by a message that waits.                              *)
ClaimIsSound == claim.state = "claimed" => claim.by \in Attempts /\ Waits(claim.by)

(* What was handed off, begun or posted was sent with that decision.       *)
SealIsSound ==
  /\ handoff # Admission!Nobody => Sent(handoff) /\ mail[handoff].decision # "auto"
  /\ outbox # Admission!Nobody => Sent(outbox) /\ mail[outbox].decision = "auto" /\ mail[outbox].route = "CA"
  /\ \A p \in posts : Sent(p.by) /\ mail[p.by].decision = "auto"

(* Once a reply is there, the turn of the message is complete.             *)
ReplyIsSound ==
  /\ posts # {} => turn.state = "completed"
  /\ \A p, q \in posts : p = q

(* Slack is answered, and a message acknowledged, when one still waits or  *)
(* the claim is settled.                                                   *)
Answerable == (\E a \in Attempts : Waits(a)) \/ claim.state = "settled"
EventIsSound ==
  /\ answered => Answerable
  /\ \A a \in Attempts : mail[a].state = "acked" => Answerable

(* All of it, for every delivery.                                          *)
Admitted ==
  /\ AdmissionTypes /\ ClaimIsSound /\ SealIsSound /\ ReplyIsSound /\ EventIsSound
  /\ \A a \in Attempts : MailIsSound(a) /\ DutyIsSound(a)

(* Admitted is inductive, by one case per step of a delivery and of a      *)
(* worker, and says all that the run checks.                               *)
LEMMA AdmittedAtFirst == ASSUME AdmissionConstants, Admission!Init PROVE Admitted
<1>1. AdmissionTypes
  <2>1. Admission!NoMail \in Letters /\ Admission!Resting \in Duties /\ 0 \in 0..MaxChanges /\ 0 \in 0..MaxFaults
    BY DEF AdmissionConstants, Letters, Duties, Admission!NoMail, Admission!Resting, Admission!Decisions
  <2>2. slack \in [Attempts -> Handlers]
    BY DEF Admission!Init, Handlers
  <2>3. claim \in [state : {"none", "claimed", "settled"}, by : Attempts \cup {Admission!Nobody}, live : BOOLEAN]
    BY DEF Admission!Init
  <2>4. QED
    BY <2>1, <2>2, <2>3 DEF AdmissionTypes, Admission!Init
<1>2. \A a \in Attempts : MailIsSound(a) /\ DutyIsSound(a)
  BY DEF Admission!Init, MailIsSound, DutyIsSound, Admission!NoMail, Admission!Resting, AdmissionConstants
<1>3. ClaimIsSound /\ SealIsSound /\ ReplyIsSound /\ EventIsSound
  BY DEF Admission!Init, ClaimIsSound, SealIsSound, ReplyIsSound, EventIsSound, Admission!NoMail, Admission!Nobody
<1>4. QED
  BY <1>1, <1>2, <1>3 DEF Admitted

(* How a message and its worker move on.                                   *)
Posted(a, states) ==
  /\ mail' \in [Attempts -> Letters] /\ \A x \in Attempts : x # a => mail'[x] = mail[x]
  /\ mail'[a].state \in states /\ mail'[a].route = mail[a].route /\ mail'[a].decision = mail[a].decision
  /\ mail'[a].fresh <=> mail[a].fresh
  /\ mail'[a].state = "queued" => mail'[a].tries < MaxTries
On(a, p) ==
  worker' \in [Attempts -> Duties] /\ (\A x \in Attempts : x # a => worker'[x] = worker[x]) /\ worker'[a].pc = p
Steppings == {"idle", "accept", "route", "launch", "run", "settle", "fail", "release"}
Records == <<handoff, outbox, turn, posts>>
World == <<rollout, policy, changes, answered, slack>>

(* An acknowledged or retried message, and the worker that steps or rests, *)
(* are of those forms.                                                     *)
LEMMA Mailing ==
  ASSUME AdmissionConstants, AdmissionTypes, NEW a \in Attempts
  PROVE  /\ mail' = Admission!Acked(a) => Posted(a, {"acked"})
         /\ mail' = Admission!Retried(a) => Posted(a, {"queued", "dead"})
<1>1. ASSUME NEW s \in {"acked", "queued", "dead"}, mail' = [mail EXCEPT ![a].state = s], s = "queued" => mail[a].tries < MaxTries
      PROVE  Posted(a, {s})
  <2>1. mail[a] \in Letters /\ [mail[a] EXCEPT !.state = s] \in Letters
    BY DEF AdmissionTypes, Letters
  <2>2. mail'[a] = [mail[a] EXCEPT !.state = s] /\ mail' \in [Attempts -> Letters] /\ \A x \in Attempts : x # a => mail'[x] = mail[x]
    BY <1>1, <2>1 DEF AdmissionTypes
  <2>3. QED
    BY <1>1, <2>1, <2>2 DEF Posted, Letters
<1>2. QED
  BY <1>1 DEF Admission!Acked, Admission!Retried, Posted

LEMMA Duty ==
  ASSUME AdmissionTypes, NEW a \in Attempts
  PROVE  /\ Admission!Rests(a) => On(a, "idle")
         /\ \A p \in Steppings : Admission!Steps(a, p) => On(a, p)
<1>1. Admission!Resting \in Duties /\ Admission!Resting.pc = "idle"
  BY DEF Admission!Resting, Duties, Admission!Decisions
<1>2. \A p \in Steppings : [worker[a] EXCEPT !.pc = p] \in Duties /\ [worker[a] EXCEPT !.pc = p].pc = p
  BY DEF AdmissionTypes, Duties, Steppings
<1>3. worker \in [Attempts -> Duties]
  BY DEF AdmissionTypes
<1>4. Admission!Rests(a) => On(a, "idle")
  BY <1>1, <1>3 DEF Admission!Rests, On
<1>5. ASSUME NEW p \in Steppings, Admission!Steps(a, p) PROVE On(a, p)
  <2>1. worker' = [worker EXCEPT ![a] = [worker[a] EXCEPT !.pc = p]]
    BY <1>3, <1>5 DEF Admission!Steps
  <2>2. QED
    BY <1>2, <1>3, <2>1 DEF On
<1>6. QED
  BY <1>4, <1>5

(* What was sealed stays sealed.                                           *)
LEMMA SealStays ==
  ASSUME Admitted, UNCHANGED <<handoff, outbox, posts>>,
         \A x \in Attempts : Sent(x) => Sent(x)' /\ mail'[x].decision = mail[x].decision /\ mail'[x].route = mail[x].route
  PROVE  SealIsSound'
BY DEF Admitted, AdmissionTypes, SealIsSound

(* A worker that ends: its message acknowledged or retried.                *)
LEMMA RestKeepsAdmitted ==
  ASSUME AdmissionConstants, Admitted, NEW a \in Attempts, worker[a].pc # "idle",
         On(a, "idle"), Posted(a, {"acked", "queued", "dead"}), UNCHANGED <<World, Records>>, mishaps' \in 0..MaxFaults,
         \/ /\ claim' = claim
            /\ mail'[a].state = "acked" => ~mail[a].fresh \/ claim.state = "settled" \/ (claim.state = "claimed" /\ claim.by # a)
         \/ worker[a].pc # "accept" /\ claim' = [claim EXCEPT !.state = "settled"]
         \/ /\ worker[a].pc # "accept" /\ claim' = [state |-> "none", by |-> Admission!Nobody, live |-> FALSE]
            /\ mail'[a].state # "acked"
  PROVE  Admitted'
<1>0. /\ mail[a].state = "taken" /\ Waits(a) /\ DutyIsSound(a) /\ Answerable
      /\ \A x \in Attempts : mail[x] \in Letters /\ worker[x] \in Duties
  BY DEF Admitted, DutyIsSound, Waits, Answerable, AdmissionTypes, Duties
<1>1. AdmissionTypes'
  <2>1. claim' \in [state : {"none", "claimed", "settled"}, by : Attempts \cup {Admission!Nobody}, live : BOOLEAN]
    <3> DEFINE Claims == [state : {"none", "claimed", "settled"}, by : Attempts \cup {Admission!Nobody}, live : BOOLEAN]
    <3>1. \A c \in Claims : [c EXCEPT !.state = "settled"] \in Claims
      OBVIOUS
    <3>2. [state |-> "none", by |-> Admission!Nobody, live |-> FALSE] \in Claims
      OBVIOUS
    <3>3. claim \in Claims
      BY DEF Admitted, AdmissionTypes
    <3>4. QED
      BY <3>1, <3>2, <3>3
  <2>2. QED
    BY <2>1 DEF Admitted, AdmissionTypes, World, Records, On, Posted
<1>2. ClaimIsSound'
  BY <1>0 DEF Admitted, ClaimIsSound, Waits, AdmissionTypes, DutyIsSound, Posted
<1>3. SealIsSound'
  BY <1>0, SealStays DEF World, Records, Posted, Sent
<1>4. ReplyIsSound'
  BY DEF Admitted, ReplyIsSound, Records
<1>5. EventIsSound'
  BY <1>0 DEF Admitted, EventIsSound, Answerable, Waits, ClaimIsSound, AdmissionTypes, DutyIsSound, Posted, World
<1>6. ASSUME NEW x \in Attempts PROVE MailIsSound(x)'
  BY <1>0 DEF Admitted, MailIsSound, Posted, World
<1>7. ASSUME NEW x \in Attempts PROVE DutyIsSound(x)'
  BY <1>0 DEF Admitted, DutyIsSound, Posted, On, Records, World, AdmissionTypes
<1>8. QED
  BY <1>1, <1>2, <1>3, <1>4, <1>5, <1>6, <1>7 DEF Admitted

(* A context refreshed, a worker released, a worker that dies.             *)
LEMMA EndingKeepsAdmitted ==
  ASSUME AdmissionConstants, Admitted, NEW a \in Attempts, Admission!Reject(a) \/ Admission!Settle(a) \/ Admission!Release(a) \/ Admission!Die(a)
  PROVE  Admitted'
<1>0. AdmissionTypes /\ DutyIsSound(a) /\ (Admission!Mishap => mishaps' \in 0..MaxFaults) /\ mishaps \in 0..MaxFaults
  BY DEF Admitted, AdmissionTypes, Admission!Mishap, AdmissionConstants
<1>a. (mail' = Admission!Acked(a) \/ mail' = Admission!Retried(a)) => Posted(a, {"acked", "queued", "dead"})
  BY <1>0, Mailing DEF Posted
<1>b. mail' = Admission!Retried(a) => mail'[a].state # "acked"
  BY <1>0, Mailing DEF Posted
<1>c. Admission!Rests(a) => On(a, "idle")
  BY <1>0, Duty
<1>1. CASE Admission!Reject(a)
  BY <1>1, <1>0, <1>a, <1>b, <1>c, RestKeepsAdmitted DEF Admission!Reject, Admission!AtStep, World, Records
<1>2. CASE Admission!Settle(a)
  BY <1>2, <1>0, <1>a, <1>b, <1>c, RestKeepsAdmitted DEF Admission!Settle, World, Records, DutyIsSound
<1>3. CASE Admission!Release(a)
  BY <1>3, <1>0, <1>a, <1>b, <1>c, RestKeepsAdmitted DEF Admission!Release, Admission!AtStep, World, Records, DutyIsSound
<1>4. CASE Admission!Die(a)
  BY <1>4, <1>0, <1>a, <1>b, <1>c, RestKeepsAdmitted DEF Admission!Die, World, Records
<1>5. QED
  BY <1>1, <1>2, <1>3, <1>4

(* A worker that goes on, with the claim.                                  *)
LEMMA GoKeepsAdmitted ==
  ASSUME AdmissionConstants, Admitted, NEW a \in Attempts, worker[a].pc # "idle",
         NEW p \in Steppings \ {"idle"}, On(a, p),
         UNCHANGED <<World, mail, mishaps>>,
         claim' = claim \/ (claim.state # "settled" /\ claim' = [state |-> "claimed", by |-> a, live |-> TRUE]
                            /\ (claim.state = "claimed" => claim.by = a)),
         p # "accept" => claim'.state = "claimed" /\ claim'.by = a,
         p = "launch" => mail[a].route = "CA" /\ mail[a].decision = "auto",
         p = "run" => turn'.state = "processing" /\ turn'.by = a /\ mail[a].decision = "auto",
         turn' = turn \/ worker[a].pc = "run" \/ turn.state = "none",
         AdmissionTypes', SealIsSound', ReplyIsSound'
  PROVE  Admitted'
<1>0. /\ mail[a].state = "taken" /\ Waits(a) /\ DutyIsSound(a) /\ Answerable
      /\ \A x \in Attempts : mail[x] \in Letters /\ worker[x] \in Duties
  BY DEF Admitted, DutyIsSound, Waits, Answerable, AdmissionTypes, Duties
<1>1. ClaimIsSound'
  BY <1>0 DEF Admitted, ClaimIsSound, Waits
<1>2. EventIsSound'
  BY <1>0 DEF Admitted, EventIsSound, Answerable, Waits, World
<1>3. ASSUME NEW x \in Attempts PROVE MailIsSound(x)'
  BY DEF Admitted, MailIsSound, World
<1>4. DutyIsSound(a)'
  BY <1>0 DEF DutyIsSound, On, Steppings
<1>5. ASSUME NEW x \in Attempts, x # a PROVE DutyIsSound(x)'
  <2>1. worker'[x] = worker[x] /\ DutyIsSound(x)
    BY <1>5 DEF On, Admitted
  <2>2. worker[x].pc = "run" => turn' = turn
    BY <1>0, <1>5, <2>1 DEF DutyIsSound
  <2>3. worker[x].pc \notin {"idle", "accept"} => claim' = claim
    BY <1>5, <2>1 DEF DutyIsSound
  <2>4. QED
    BY <2>1, <2>2, <2>3 DEF DutyIsSound
<1>6. QED
  BY <1>1, <1>2, <1>3, <1>4, <1>5 DEF Admitted

(* The steps of a worker.                                                  *)
LEMMA WorkKeepsAdmitted ==
  ASSUME AdmissionConstants, Admitted, NEW a \in Attempts,
         Admission!Claim(a) \/ Admission!HandOff(a) \/ Admission!Begin(a) \/ Admission!Launch(a) \/ Admission!Refresh(a) \/ Admission!Post(a) \/ Admission!TakeTurn(a)
  PROVE  Admitted'
<1>0. /\ AdmissionTypes /\ DutyIsSound(a) /\ MailIsSound(a) /\ worker[a] \in Duties /\ mail[a] \in Letters
      /\ "idle" \in Steppings /\ {"route", "launch", "run", "settle", "fail", "release"} \subseteq Steppings \ {"idle"}
      /\ worker[a].pc # "idle" => Sent(a)
  <2>1. AdmissionTypes /\ DutyIsSound(a) /\ MailIsSound(a)
    BY DEF Admitted
  <2>2. worker[a] \in Duties /\ mail[a] \in Letters /\ slack[a] \in Handlers
    BY <2>1 DEF AdmissionTypes
  <2>3. worker[a].pc # "idle" => Sent(a)
    BY <2>1, <2>2 DEF DutyIsSound, MailIsSound, Sent, Handlers, Duties
  <2>4. QED
    BY <2>1, <2>2, <2>3 DEF Steppings
<1>a. \A p \in Steppings : Admission!Steps(a, p) => On(a, p)
  BY <1>0, Duty
<1>b. UNCHANGED <<slack, mail, handoff, outbox, posts>> => SealIsSound'
  BY SealStays DEF Sent
<1>c. ASSUME NEW q \in Duties, worker' = [worker EXCEPT ![a] = q] PROVE On(a, q.pc)
  BY <1>0, <1>c DEF On, AdmissionTypes
<1>1. CASE Admission!Claim(a)
  <2>1. CASE Admission!Steps(a, "route")
    <3>0. On(a, "route")
      BY <1>0, <1>a, <2>1
    <3>1. ~Admission!Rests(a)
      BY <1>0, <3>0, Duty DEF On
    <3>2. /\ worker[a].pc = "accept" /\ claim' = [state |-> "claimed", by |-> a, live |-> TRUE]
          /\ claim.state # "settled" /\ (claim.state = "claimed" => claim.by = a)
          /\ UNCHANGED <<World, mail, mishaps, handoff, outbox, posts, turn>>
      BY <1>1, <3>1 DEF Admission!Claim, Admission!AtStep, World
    <3>3. AdmissionTypes'
      BY <1>0, <3>0, <3>2 DEF AdmissionTypes, On, World
    <3>4. SealIsSound'
      BY <1>b, <3>2 DEF World
    <3>5. ReplyIsSound'
      BY <3>2 DEF Admitted, ReplyIsSound
    <3>6. QED
      BY <1>0, <3>0, <3>2, <3>3, <3>4, <3>5, GoKeepsAdmitted
  <2>2. CASE Admission!Rests(a)
    <3>1. On(a, "idle")
      BY <1>0, <2>2, Duty
    <3>2. ~Admission!Steps(a, "route")
      BY <1>0, <1>a, <3>1 DEF On
    <3>3. /\ worker[a].pc = "accept" /\ UNCHANGED <<World, Records, mishaps, claim>>
          /\ \/ mail' = Admission!Retried(a)
             \/ mail' = Admission!Acked(a) /\ claim.state # "none" /\ (claim.by # a \/ claim.state = "settled")
      BY <1>1, <3>2 DEF Admission!Claim, Admission!AtStep, World, Records
    <3>4. /\ Posted(a, {"acked", "queued", "dead"})
          /\ mail'[a].state = "acked" => claim.state # "none" /\ (claim.by # a \/ claim.state = "settled")
      BY <1>0, <3>3, Mailing DEF Posted
    <3>5. mishaps \in 0..MaxFaults /\ claim.state \in {"none", "claimed", "settled"}
      BY <1>0 DEF AdmissionTypes
    <3>6. QED
      BY <3>1, <3>3, <3>4, <3>5, RestKeepsAdmitted
  <2>3. QED
    BY <1>1, <2>1, <2>2 DEF Admission!Claim
<1>2. CASE Admission!HandOff(a)
  <2>1. PICK p \in {"settle", "fail"} : Admission!Steps(a, p)
    BY <1>2 DEF Admission!HandOff
  <2>2. On(a, p) /\ worker[a].pc = "route" /\ UNCHANGED <<World, mail, mishaps, claim, outbox, turn, posts>>
    BY <1>0, <1>2, <1>a, <2>1 DEF Admission!HandOff, Admission!AtStep, World
  <2>3. AdmissionTypes'
    BY <1>0, <1>2, <2>2 DEF AdmissionTypes, Admission!HandOff, On, World
  <2>4. SealIsSound'
    BY <1>0, <1>2, <2>2 DEF Admitted, SealIsSound, Sent, Admission!HandOff, AdmissionTypes, World
  <2>5. ReplyIsSound'
    BY <2>2 DEF Admitted, ReplyIsSound
  <2>6. QED
    BY <1>0, <2>1, <2>2, <2>3, <2>4, <2>5, GoKeepsAdmitted DEF DutyIsSound
<1>3. CASE Admission!Begin(a)
  <2>1. PICK p \in {"launch", "settle", "fail"} : On(a, p) /\ (p = "launch" <=> outbox = Admission!Nobody)
    <3>1. CASE outbox = Admission!Nobody
      <4>1. [worker[a] EXCEPT !.pc = "launch", !.decision = "auto"] \in Duties
        BY <1>0 DEF Duties, Admission!Decisions
      <4>2. worker' = [worker EXCEPT ![a] = [worker[a] EXCEPT !.pc = "launch", !.decision = "auto"]]
        BY <1>0, <1>3, <3>1 DEF Admission!Begin, AdmissionTypes
      <4>3. [worker[a] EXCEPT !.pc = "launch", !.decision = "auto"].pc = "launch"
        BY <1>0 DEF Duties
      <4>4. QED
        BY <1>c, <3>1, <4>1, <4>2, <4>3
    <3>2. CASE outbox # Admission!Nobody
      BY <1>0, <1>3, <1>a, <3>2 DEF Admission!Begin
    <3>3. QED
      BY <3>1, <3>2
  <2>2. worker[a].pc = "route" /\ UNCHANGED <<World, mail, mishaps, claim, handoff, turn, posts>> /\ mail[a].route = "CA"
        /\ mail[a].decision = "auto" /\ outbox' = IF outbox = Admission!Nobody THEN a ELSE outbox
    BY <1>3 DEF Admission!Begin, Admission!AtStep, World
  <2>3. AdmissionTypes'
    BY <1>0, <2>1, <2>2 DEF AdmissionTypes, On, World
  <2>4. SealIsSound'
    BY <1>0, <2>2 DEF Admitted, SealIsSound, Sent, AdmissionTypes, World
  <2>5. ReplyIsSound'
    BY <2>2 DEF Admitted, ReplyIsSound
  <2>6. QED
    BY <1>0, <2>1, <2>2, <2>3, <2>4, <2>5, GoKeepsAdmitted DEF DutyIsSound
<1>4. CASE Admission!Launch(a)
  <2>1. PICK p \in {"run", "settle"} : Admission!Steps(a, p) /\ (p = "run" <=> mail[a].fresh /\ turn.state = "none")
    BY <1>4 DEF Admission!Launch
  <2>2. On(a, p) /\ worker[a].pc = "launch" /\ UNCHANGED <<World, mail, mishaps, claim, handoff, outbox, posts>>
        /\ IF p = "run" THEN turn.state = "none" /\ turn' = [state |-> "processing", by |-> a] ELSE turn' = turn
    BY <1>0, <1>4, <1>a, <2>1 DEF Admission!Launch, Admission!AtStep, World
  <2>3. AdmissionTypes'
    BY <1>0, <2>2 DEF AdmissionTypes, On, World
  <2>4. SealIsSound'
    BY <1>b, <2>2 DEF World
  <2>5. ReplyIsSound'
    BY <2>2 DEF Admitted, ReplyIsSound
  <2>6. QED
    BY <1>0, <2>1, <2>2, <2>3, <2>4, <2>5, GoKeepsAdmitted DEF DutyIsSound
<1>5. CASE Admission!Refresh(a)
  <2>1. On(a, "run") /\ worker[a].pc = "run" /\ UNCHANGED <<World, mail, mishaps, claim, handoff, outbox, turn, posts>>
    <3>1. [worker[a] EXCEPT !.refreshed = TRUE, !.decision = policy] \in Duties
      BY <1>0 DEF Duties, AdmissionTypes
    <3>2. worker' = [worker EXCEPT ![a] = [worker[a] EXCEPT !.refreshed = TRUE, !.decision = policy]]
      BY <1>0, <1>5 DEF Admission!Refresh, AdmissionTypes
    <3>3. [worker[a] EXCEPT !.refreshed = TRUE, !.decision = policy].pc = "run"
      BY <1>0, <1>5 DEF Duties, Admission!Refresh, Admission!AtStep
    <3>4. QED
      BY <1>5, <1>c, <3>1, <3>2, <3>3 DEF Admission!Refresh, Admission!AtStep, World
  <2>2. AdmissionTypes'
    BY <1>0, <2>1 DEF AdmissionTypes, On, World
  <2>3. SealIsSound'
    BY <1>b, <2>1 DEF World
  <2>4. ReplyIsSound'
    BY <2>1 DEF Admitted, ReplyIsSound
  <2>5. QED
    BY <1>0, <2>1, <2>2, <2>3, <2>4, GoKeepsAdmitted DEF DutyIsSound
<1>6. CASE Admission!Post(a)
  <2>1. CASE mail[a].fresh \/ worker[a].refreshed
    <3>1. [worker[a] EXCEPT !.pc = "settle", !.posted = TRUE] \in Duties
      BY <1>0 DEF Duties
    <3>2. worker' = [worker EXCEPT ![a] = [worker[a] EXCEPT !.pc = "settle", !.posted = TRUE]]
      BY <1>0, <1>6, <2>1 DEF Admission!Post, AdmissionTypes
    <3>3. [worker[a] EXCEPT !.pc = "settle", !.posted = TRUE].pc = "settle"
      BY <1>0 DEF Duties
    <3>4. On(a, "settle")
      BY <1>c, <3>1, <3>2, <3>3
    <3>5. /\ worker[a].pc = "run" /\ UNCHANGED <<World, mail, mishaps, claim, handoff, outbox>>
          /\ posts' = posts \cup {[by |-> a, decision |-> worker[a].decision]} /\ turn' = [turn EXCEPT !.state = "completed"]
      BY <1>6, <2>1 DEF Admission!Post, Admission!AtStep, World
    <3>6. [by |-> a, decision |-> worker[a].decision] \in [by : Attempts, decision : Admission!Decisions]
      BY <1>0 DEF Duties
    <3>7. AdmissionTypes'
      BY <1>0, <3>4, <3>5, <3>6 DEF AdmissionTypes, On, World
    <3>8. SealIsSound'
      BY <1>0, <3>5 DEF Admitted, SealIsSound, Sent, AdmissionTypes, World, DutyIsSound
    <3>9. ReplyIsSound'
      <4>1. posts = {}
        BY <1>0, <3>5 DEF Admitted, ReplyIsSound, DutyIsSound
      <4>2. QED
        BY <1>0, <3>5, <4>1 DEF ReplyIsSound, AdmissionTypes
    <3>10. QED
      BY <1>0, <3>4, <3>5, <3>7, <3>8, <3>9, GoKeepsAdmitted DEF DutyIsSound
  <2>2. CASE ~(mail[a].fresh \/ worker[a].refreshed)
    <3>1. On(a, "fail") /\ worker[a].pc = "run" /\ UNCHANGED <<World, mail, mishaps, claim, handoff, outbox, posts, turn>>
      BY <1>0, <1>6, <1>a, <2>2 DEF Admission!Post, Admission!AtStep, World
    <3>2. AdmissionTypes'
      BY <1>0, <3>1 DEF AdmissionTypes, On, World
    <3>3. SealIsSound'
      BY <1>b, <3>1 DEF World
    <3>4. ReplyIsSound'
      BY <3>1 DEF Admitted, ReplyIsSound
    <3>5. QED
      BY <1>0, <3>1, <3>2, <3>3, <3>4, GoKeepsAdmitted DEF DutyIsSound
  <2>3. QED
    BY <2>1, <2>2
<1>7. CASE Admission!TakeTurn(a)
  <2>1. PICK p \in {"run", "settle", "release"} : Admission!Steps(a, p) /\ (p = "run" <=> turn.state = "none")
        /\ IF p = "run" THEN turn' = [state |-> "processing", by |-> a] ELSE turn' = turn
    BY <1>7 DEF Admission!TakeTurn
  <2>2. On(a, p) /\ worker[a].pc = "route" /\ UNCHANGED <<World, mail, mishaps, claim, handoff, outbox, posts>>
        /\ mail[a].decision = "auto"
    BY <1>0, <1>7, <1>a, <2>1 DEF Admission!TakeTurn, Admission!AtStep, World, MailIsSound
  <2>3. AdmissionTypes'
    BY <1>0, <2>1, <2>2 DEF AdmissionTypes, On, World
  <2>4. SealIsSound'
    BY <1>b, <2>2 DEF World
  <2>5. ReplyIsSound'
    BY <2>1, <2>2 DEF Admitted, ReplyIsSound
  <2>6. QED
    BY <1>0, <2>1, <2>2, <2>3, <2>4, <2>5, GoKeepsAdmitted DEF DutyIsSound
<1>8. QED
  BY <1>1, <1>2, <1>3, <1>4, <1>5, <1>6, <1>7

(* A message is taken, and claimed or rejected.                            *)
LEMMA TakingKeepsAdmitted ==
  ASSUME AdmissionConstants, Admitted, NEW a \in Attempts, Admission!Deliver(a) \/ Admission!Expire(a)
  PROVE  Admitted'
<1>0. /\ AdmissionTypes /\ DutyIsSound(a) /\ MailIsSound(a) /\ worker[a] \in Duties /\ mail[a] \in Letters
      /\ Admission!Mishap => mishaps' \in 0..MaxFaults
      /\ \A x \in Attempts : mail[x] \in Letters
  BY DEF Admitted, AdmissionTypes, Admission!Mishap, AdmissionConstants
<1>1. CASE Admission!Deliver(a)
  <2> DEFINE m == [mail[a] EXCEPT !.state = "taken", !.tries = @ + 1]
  <2>1. mail[a].state = "queued" /\ mail[a].tries < MaxTries /\ mail[a].tries \in 0..MaxTries /\ worker[a].pc = "idle"
    BY <1>0, <1>1 DEF Admission!Deliver, Admission!AtStep, MailIsSound, Letters
  <2>2. mail[a].tries + 1 \in 0..MaxTries
    BY <2>1 DEF AdmissionConstants
  <2>3. m \in Letters /\ m.state = "taken" /\ m.route = mail[a].route /\ m.decision = mail[a].decision /\ (m.fresh <=> mail[a].fresh)
    BY <1>0, <2>2 DEF Letters
  <2>4. mail' = [mail EXCEPT ![a] = m]
    BY <1>0, <1>1 DEF Admission!Deliver, AdmissionTypes
  <2>5. mail' \in [Attempts -> Letters] /\ mail'[a] = m /\ \A x \in Attempts : x # a => mail'[x] = mail[x]
    BY <1>0, <2>3, <2>4 DEF AdmissionTypes
  <2>6. On(a, "accept") /\ UNCHANGED <<World, Records, claim, mishaps>>
    BY <1>0, <1>1, Duty DEF Admission!Deliver, Steppings, World, Records
  <2>7. AdmissionTypes'
    BY <1>0, <2>5, <2>6 DEF AdmissionTypes, World, Records, On
  <2>8. \A x \in Attempts : Waits(x) => Waits(x)'
    BY <2>1, <2>3, <2>5 DEF Waits
  <2>9. ClaimIsSound' /\ EventIsSound'
    BY <2>1, <2>3, <2>5, <2>6, <2>8 DEF Admitted, ClaimIsSound, EventIsSound, Answerable, World
  <2>10. SealIsSound'
    BY <1>0, <2>3, <2>5, <2>6, SealStays DEF Sent, World, Records
  <2>11. ReplyIsSound'
    BY <2>6 DEF Admitted, ReplyIsSound, Records
  <2>12. ASSUME NEW x \in Attempts PROVE MailIsSound(x)' /\ DutyIsSound(x)'
    <3>1. CASE x = a
      <4>1. MailIsSound(a)'
        BY <1>0, <2>1, <2>3, <2>5, <2>6 DEF MailIsSound, World
      <4>2. DutyIsSound(a)'
        BY <2>3, <2>5, <2>6 DEF DutyIsSound, On
      <4>3. QED
        BY <3>1, <4>1, <4>2
    <3>2. CASE x # a
      BY <3>2, <2>5, <2>6 DEF Admitted, MailIsSound, DutyIsSound, World, Records, On
    <3>3. QED
      BY <3>1, <3>2
  <2>13. QED
    BY <2>7, <2>9, <2>10, <2>11, <2>12 DEF Admitted
<1>2. CASE Admission!Expire(a)
  <2> DEFINE m == [mail[a] EXCEPT !.fresh = FALSE]
  <2>1. m \in Letters /\ m.state = mail[a].state /\ m.route = mail[a].route /\ m.decision = mail[a].decision
        /\ m.tries = mail[a].tries /\ ~m.fresh /\ mail[a].state \in {"queued", "taken"}
    BY <1>0, <1>2 DEF Letters, Admission!Expire
  <2>2. mail' = [mail EXCEPT ![a] = m]
    BY <1>0, <1>2 DEF Admission!Expire, AdmissionTypes
  <2>3. mail' \in [Attempts -> Letters] /\ mail'[a] = m /\ \A x \in Attempts : x # a => mail'[x] = mail[x]
    BY <1>0, <2>1, <2>2 DEF AdmissionTypes
  <2>4. UNCHANGED <<World, Records, claim, worker>> /\ mishaps' \in 0..MaxFaults
    BY <1>0, <1>2 DEF Admission!Expire, World, Records
  <2>5. AdmissionTypes'
    BY <1>0, <2>3, <2>4 DEF AdmissionTypes, World, Records
  <2>6. \A x \in Attempts : Waits(x) => Waits(x)'
    BY <2>1, <2>3 DEF Waits
  <2>7. ClaimIsSound' /\ EventIsSound'
    BY <2>1, <2>3, <2>4, <2>6 DEF Admitted, ClaimIsSound, EventIsSound, Answerable, World
  <2>8. SealIsSound'
    BY <1>0, <2>1, <2>3, <2>4, SealStays DEF Sent, World, Records
  <2>9. ReplyIsSound'
    BY <2>4 DEF Admitted, ReplyIsSound, Records
  <2>10. ASSUME NEW x \in Attempts PROVE MailIsSound(x)' /\ DutyIsSound(x)'
    <3>1. CASE x = a
      <4>1. MailIsSound(a)'
        BY <1>0, <2>1, <2>3, <2>4 DEF MailIsSound, World
      <4>2. DutyIsSound(a)'
        BY <1>0, <2>1, <2>3, <2>4 DEF DutyIsSound, Records
      <4>3. QED
        BY <3>1, <4>1, <4>2
    <3>2. CASE x # a
      BY <3>2, <2>3, <2>4 DEF Admitted, MailIsSound, DutyIsSound, World, Records
    <3>3. QED
      BY <3>1, <3>2
  <2>11. QED
    BY <2>5, <2>7, <2>8, <2>9, <2>10 DEF Admitted
<1>3. QED
  BY <1>1, <1>2

(* What a delivery seals.                                                  *)
Sealed(l, n, x, y) ==
  l \in Letters /\ l.state = "sealed" /\ (n.fresh => l.fresh) /\ l.tries = n.tries /\ l.decision = x /\ l.route = y

(* The steps of a delivery: the authority is asked, the message sent,      *)
(* Slack answered.                                                         *)
LEMMA IngressKeepsAdmitted ==
  ASSUME AdmissionConstants, Admitted, NEW a \in Attempts, Admission!Arrive(a) \/ Admission!Handle(a) \/ Admission!Refuse(a)
  PROVE  Admitted'
<1>0. /\ AdmissionTypes /\ DutyIsSound(a) /\ MailIsSound(a) /\ slack[a] \in Handlers /\ mail[a] \in Letters
      /\ Admission!Mishap => mishaps' \in 0..MaxFaults
      /\ \A x \in Attempts : mail[x] \in Letters
  BY DEF Admitted, AdmissionTypes, Admission!Mishap, AdmissionConstants
<1> DEFINE Moved(h, m) ==
      /\ h \in Handlers /\ m \in Letters
      /\ slack' = [slack EXCEPT ![a] = h] /\ mail' = [mail EXCEPT ![a] = m]
      /\ UNCHANGED <<rollout, policy, changes, worker, claim, Records>>
      /\ mishaps' \in 0..MaxFaults /\ answered' \in BOOLEAN
      /\ m.route = "T0" => m.decision = "auto"
      /\ m.state = "queued" => m.tries < MaxTries
      /\ \/ slack[a].pc = "idle" /\ h.pc = "asking" /\ m = mail[a] /\ (answered' => answered)
         \/ /\ slack[a].pc = "asking" /\ h.pc = "sending" /\ (answered' => answered)
            /\ m.state = "sealed" /\ m.fresh /\ m.tries = 0
         \/ /\ slack[a].pc = "sending" /\ h.pc = "answering" /\ m.state = "queued" /\ (answered' => answered)
         \/ slack[a].pc = "answering" /\ h.pc = "answered" /\ m = mail[a]
         \/ /\ slack[a].pc \in {"asking", "sending"} /\ h.pc = "refused" /\ m.state = "none" /\ m.fresh
            /\ (answered' => answered)
<1>m. [mail EXCEPT ![a] = mail[a]] = mail /\ mishaps \in 0..MaxFaults /\ answered \in BOOLEAN
  BY <1>0 DEF AdmissionTypes
<1>s. /\ \A p \in {"sending", "answering", "answered", "refused"} :
           [slack[a] EXCEPT !.pc = p] \in Handlers /\ [slack[a] EXCEPT !.pc = p].pc = p
      /\ \A q : [slack EXCEPT ![a].pc = q] = [slack EXCEPT ![a] = [slack[a] EXCEPT !.pc = q]]
      /\ \A q : [mail EXCEPT ![a].state = q] = [mail EXCEPT ![a] = [mail[a] EXCEPT !.state = q]]
  BY <1>0 DEF Handlers, AdmissionTypes
<1>1. \E h, m : Moved(h, m)
  <2>1. CASE Admission!Arrive(a)
    <3>1. Moved([pc |-> "asking", rollout |-> rollout], mail[a])
      <4>1. [pc |-> "asking", rollout |-> rollout] \in Handlers
        BY <1>0 DEF Handlers, AdmissionTypes
      <4>2. QED
        BY <1>0, <1>m, <2>1, <4>1 DEF Admission!Arrive, Admission!Idle, MailIsSound, Records
    <3>2. QED
      BY <3>1
  <2>2. CASE Admission!Ask(a)
    <3> DEFINE d == IF Admission!Selected(slack[a].rollout) THEN policy ELSE "auto"
               m == [Admission!NoMail EXCEPT !.state = "sealed", !.decision = d, !.route = Admission!Route(slack[a].rollout, d)]
    <3>1. m \in Letters /\ m.state = "sealed" /\ m.fresh /\ m.tries = 0 /\ m.decision = d /\ m.route = Admission!Route(slack[a].rollout, d)
      <4>1. d \in Admission!Decisions /\ Admission!Route(slack[a].rollout, d) \in {"T0", "CA"}
        BY <1>0 DEF AdmissionTypes, Admission!Decisions, Admission!Route
      <4>2. Admission!NoMail \in Letters /\ Admission!NoMail.fresh /\ Admission!NoMail.tries = 0
        BY DEF Admission!NoMail, Letters, Admission!Decisions, AdmissionConstants
      <4>3. \A n \in Letters, x \in Admission!Decisions, y \in {"T0", "CA"} :
              Sealed([n EXCEPT !.state = "sealed", !.decision = x, !.route = y], n, x, y)
        BY DEF Letters, Sealed
      <4>4. Sealed(m, Admission!NoMail, d, Admission!Route(slack[a].rollout, d))
        <5> HIDE DEF d
        <5>1. QED
          BY <4>1, <4>2, <4>3
      <4>5. QED
        BY <4>2, <4>4 DEF Sealed
    <3>2. m.route = "T0" => m.decision = "auto"
      BY <3>1 DEF Admission!Route
    <3>3. Moved([slack[a] EXCEPT !.pc = "sending"], m)
      BY <1>m, <1>s, <2>2, <3>1, <3>2 DEF Admission!Ask, Records
    <3>4. QED
      BY <3>3
  <2>3. CASE Admission!Send(a)
    <3>1. [mail[a] EXCEPT !.state = "queued"] \in Letters /\ mail[a].tries = 0
      BY <1>0, <2>3 DEF Letters, Admission!Send, MailIsSound
    <3>2. Moved([slack[a] EXCEPT !.pc = "answering"], [mail[a] EXCEPT !.state = "queued"])
      <4>1. UNCHANGED <<rollout, policy, changes, worker, claim, Records, mishaps, answered>> /\ slack[a].pc = "sending"
            /\ slack' = [slack EXCEPT ![a] = [slack[a] EXCEPT !.pc = "answering"]]
            /\ mail' = [mail EXCEPT ![a] = [mail[a] EXCEPT !.state = "queued"]]
        BY <1>s, <2>3 DEF Admission!Send, Records
      <4>2. LET m == [mail[a] EXCEPT !.state = "queued"]
            IN m.tries < MaxTries /\ m.state = "queued" /\ (m.route = "T0" => m.decision = "auto")
        BY <1>0, <3>1 DEF Letters, MailIsSound, AdmissionConstants
      <4>3. QED
        BY <1>m, <1>s, <3>1, <4>1, <4>2
    <3>3. QED
      BY <3>2
  <2>4. CASE Admission!Answer(a)
    <3>1. Moved([slack[a] EXCEPT !.pc = "answered"], mail[a])
      BY <1>0, <1>m, <1>s, <2>4 DEF Admission!Answer, Records, MailIsSound
    <3>2. QED
      BY <3>1
  <2>5. CASE Admission!Refuse(a)
    <3>1. [mail[a] EXCEPT !.state = "none"] \in Letters /\ [mail[a] EXCEPT !.state = "none"].fresh
      BY <1>0, <2>5 DEF Letters, Admission!Refuse, MailIsSound
    <3>2. LET m == [mail[a] EXCEPT !.state = "none"] IN m.state = "none" /\ (m.route = "T0" => m.decision = "auto")
      BY <1>0, <3>1 DEF Letters, MailIsSound
    <3>3. Moved([slack[a] EXCEPT !.pc = "refused"], [mail[a] EXCEPT !.state = "none"])
      BY <1>0, <1>m, <1>s, <2>5, <3>1, <3>2 DEF Admission!Refuse, Records
    <3>4. QED
      BY <3>3
  <2>6. QED
    BY <2>1, <2>2, <2>3, <2>4, <2>5 DEF Admission!Handle
<1>2. PICK h, m : Moved(h, m)
  BY <1>1
<1>3. /\ slack' \in [Attempts -> Handlers] /\ slack'[a] = h /\ \A x \in Attempts : x # a => slack'[x] = slack[x]
      /\ mail' \in [Attempts -> Letters] /\ mail'[a] = m /\ \A x \in Attempts : x # a => mail'[x] = mail[x]
      /\ UNCHANGED <<rollout, policy, changes, worker, claim, Records>>
  BY <1>0, <1>2 DEF AdmissionTypes
<1>4. AdmissionTypes'
  BY <1>0, <1>2, <1>3 DEF AdmissionTypes, Records
<1>5. \A x \in Attempts : Waits(x) => Waits(x)'
  BY <1>0, <1>2, <1>3 DEF Waits, MailIsSound
<1>6. m.state = "taken" <=> mail[a].state = "taken"
  BY <1>0, <1>2 DEF MailIsSound
<1>7. ClaimIsSound'
  BY <1>3, <1>5 DEF Admitted, ClaimIsSound
<1>8. SealIsSound'
  <2>1. Sent(a) => Sent(a)' /\ m = mail[a]
    BY <1>2, <1>3 DEF Sent
  <2>2. \A x \in Attempts : Sent(x) => Sent(x)' /\ mail'[x].decision = mail[x].decision /\ mail'[x].route = mail[x].route
    BY <1>3, <2>1 DEF Sent
  <2>3. QED
    BY <1>3, <2>2, SealStays DEF Records
<1>9. ReplyIsSound'
  BY <1>3 DEF Admitted, ReplyIsSound, Records
<1>10. EventIsSound'
  <2>1. Answerable => Answerable'
    BY <1>3, <1>5 DEF Answerable
  <2>2. \A x \in Attempts : mail'[x].state = "acked" => Answerable
    BY <1>0, <1>2, <1>3 DEF Admitted, EventIsSound, MailIsSound
  <2>3. answered' => Answerable
    <3>1. slack[a].pc = "answering" => Answerable
      BY <1>0 DEF Admitted, EventIsSound, MailIsSound, Answerable, Waits
    <3>2. QED
      BY <1>2, <3>1 DEF Admitted, EventIsSound
  <2>4. QED
    BY <2>1, <2>2, <2>3 DEF EventIsSound
<1>11. MailIsSound(a)'
  BY <1>0, <1>2, <1>3 DEF MailIsSound
<1>12. DutyIsSound(a)'
  BY <1>0, <1>2, <1>3, <1>6 DEF DutyIsSound, MailIsSound, Records
<1>13. ASSUME NEW x \in Attempts, x # a PROVE MailIsSound(x)' /\ DutyIsSound(x)'
  BY <1>13, <1>3 DEF Admitted, MailIsSound, DutyIsSound, Records
<1>14. QED
  BY <1>4, <1>7, <1>8, <1>9, <1>10, <1>11, <1>12, <1>13 DEF Admitted

LEMMA AdmittedIsKept == ASSUME AdmissionConstants, Admitted, [Admission!Next]_Admission!admissionVars PROVE Admitted'
<1>1. CASE Admission!Change
  <2>1. /\ UNCHANGED <<answered, slack, mail, worker, claim, handoff, outbox, turn, posts, mishaps>>
        /\ rollout' \in Admission!Rollouts /\ policy' \in Admission!Decisions /\ changes' \in 0..MaxChanges
    BY <1>1 DEF Admission!Change, Admitted, AdmissionTypes, AdmissionConstants
  <2>2. QED
    BY <2>1 DEF Admitted, AdmissionTypes, ClaimIsSound, SealIsSound, Sent, ReplyIsSound, EventIsSound, Answerable,
       Waits, MailIsSound, DutyIsSound
<1>2. CASE Admission!Lapse
  <2>1. /\ UNCHANGED <<rollout, policy, changes, answered, slack, mail, worker, handoff, outbox, turn, posts, mishaps>>
        /\ claim' = [claim EXCEPT !.live = FALSE]
    BY <1>2 DEF Admission!Lapse
  <2>2. claim' \in [state : {"none", "claimed", "settled"}, by : Attempts \cup {Admission!Nobody}, live : BOOLEAN]
        /\ claim'.state = claim.state /\ claim'.by = claim.by
    BY <2>1 DEF Admitted, AdmissionTypes
  <2>3. QED
    BY <2>1, <2>2 DEF Admitted, AdmissionTypes, ClaimIsSound, SealIsSound, Sent, ReplyIsSound, EventIsSound,
       Answerable, Waits, MailIsSound, DutyIsSound
<1>3. ASSUME NEW a \in Attempts,
             Admission!Arrive(a) \/ Admission!Handle(a) \/ Admission!Refuse(a) \/ Admission!Expire(a) \/ Admission!Consume(a) \/ Admission!Refresh(a) \/ Admission!Release(a) \/ Admission!Die(a)
      PROVE  Admitted'
  BY <1>3, IngressKeepsAdmitted, TakingKeepsAdmitted, WorkKeepsAdmitted, EndingKeepsAdmitted DEF Admission!Consume
<1>4. CASE UNCHANGED Admission!admissionVars
  BY <1>4 DEF Admission!admissionVars, Admitted, AdmissionTypes, ClaimIsSound, SealIsSound, Sent, ReplyIsSound, EventIsSound,
     Answerable, Waits, MailIsSound, DutyIsSound
<1>5. QED
  BY <1>1, <1>2, <1>3, <1>4 DEF Admission!Next

LEMMA AdmittedIsEnough ==
  ASSUME Admitted PROVE Admission!TypeOK /\ Admission!FollowedAsSealed /\ Admission!RepliedOnce /\ Admission!AcceptedIsKept
<1>1. Admission!TypeOK
  BY DEF Admitted, AdmissionTypes, Admission!TypeOK, Handlers, Letters, Duties
<1>2. Admission!FollowedAsSealed
  BY DEF Admitted, SealIsSound, Admission!FollowedAsSealed
<1>3. Admission!RepliedOnce
  BY DEF Admitted, ReplyIsSound, Admission!RepliedOnce
<1>4. Admission!AcceptedIsKept
  BY DEF Admitted, EventIsSound, Answerable, Waits, Admission!AcceptedIsKept
<1>5. QED
  BY <1>1, <1>2, <1>3, <1>4

(* What the run checks of an event, of every behaviour.                    *)
LEMMA AdmissionHolds ==
  ASSUME AdmissionConstants
  PROVE  Admission!Init /\ [][Admission!Next]_Admission!admissionVars
           => [](Admission!TypeOK /\ Admission!FollowedAsSealed /\ Admission!RepliedOnce /\ Admission!AcceptedIsKept) /\ Admission!HandoffIsKept
<1>1. Admission!Init => Admitted
  BY AdmittedAtFirst
<1>2. Admitted /\ [Admission!Next]_Admission!admissionVars => Admitted'
  BY AdmittedIsKept
<1>3. Admitted => Admission!TypeOK /\ Admission!FollowedAsSealed /\ Admission!RepliedOnce /\ Admission!AcceptedIsKept
  BY AdmittedIsEnough
<1>4. [Admission!Next]_Admission!admissionVars => [handoff # Admission!Nobody => handoff' = handoff]_Admission!admissionVars
  BY DEF Admission!Next, Admission!Change, Admission!Lapse, Admission!Arrive, Admission!Handle, Admission!Ask, Admission!Send, Admission!Answer, Admission!Refuse, Admission!Expire, Admission!Consume, Admission!Deliver, Admission!Reject, Admission!Claim,
     Admission!HandOff, Admission!Begin, Admission!Launch, Admission!Post, Admission!TakeTurn, Admission!Settle, Admission!Refresh, Admission!Release, Admission!Die
<1>5. QED
  BY <1>1, <1>2, <1>3, <1>4, PTL DEF Admission!HandoffIsKept

-----------------------------------------------------------------------------
(* A request of Slack.                                                     *)

(* Lengths and changes are counted.                                        *)
RequestConstants == MaxBody \in Nat /\ FirstBuffer \in Nat /\ Chunks \subseteq Nat /\ MaxTurnovers \in Nat

(* What the buffer can hold, and how far a request is without and with a   *)
(* placement.                                                              *)
Bodies == [declared : 0..MaxBody + 2, total : 0..MaxBody, capacity : 0..MaxBody, came : Nat]
Unplaced == {"reading", "chunks", "verify", "normalise", "place", "too_large", "length_invalid", "body_invalid",
             "signature_invalid", "event_invalid", "configuration_invalid", "channel_not_allowed"}
Placed == {"lookup", "issue", "compare", "admitted", "executing", "denied"}

(* What was read fits the buffer and is all that came, until it is too     *)
(* much.                                                                   *)
BodyIsSound ==
  /\ bytes \in Bodies
  /\ bytes.total <= bytes.capacity \/ progress \in {"reading", "too_large"}
  /\ progress # "too_large" => bytes.total = bytes.came
  /\ progress \notin {"reading", "chunks", "too_large", "length_invalid"} => bytes.declared \in {Request!Undeclared, bytes.total}
  /\ progress = "reading" => bytes.total = 0

(* The event that is placed is the one that was made.                      *)
NoteIsSound ==
  /\ note.type \in {"none", "message", "app_mention"}
  /\ progress = "place" => arrival \in Request!Events /\ note = Request!Note(arrival)

(* It is bound from its placement on, as the configuration says.           *)
BindingIsSound ==
  /\ progress \in Unplaced \cup Placed /\ (progress \in Unplaced => bound = 0) /\ (progress \in Placed => bound # 0)
  /\ placements \in Request!Lists \cup {<<>>}
  /\ bound # 0 => placements \in Request!Lists /\ Request!Configured(placements) /\ bound = Request!Bound(placements, note)

(* The context is that of its sender, and of the connection when it is     *)
(* admitted.                                                               *)
ContextIsSound ==
  /\ turnovers \in 0..MaxTurnovers
  /\ progress \in {"compare", "admitted", "executing"} => context.actor = note.user
  /\ progress \in {"admitted", "executing"} => link.active /\ link.revision = context.revision
  /\ progress = "executing" => Request!Scope(placements[bound]) # "refused"

Requested == BodyIsSound /\ NoteIsSound /\ BindingIsSound /\ ContextIsSound

(* Cardinality as the instance has it.                                     *)
LEMMA SameCount == \A S : Request!Cardinality(S) = Cardinality(S)
BY DEF Request!Cardinality, Cardinality

(* Of two placements an event is bound to the first that has its channel;  *)
(* a direct message to the one that takes it, if the other does not.       *)
LEMMA PairIsBound ==
  ASSUME NEW p, NEW q, NEW n
  PROVE  Request!Bound(<<p, q>>, n) =
           IF p.channel = n.channel THEN 1
           ELSE IF q.channel = n.channel THEN 2
           ELSE IF n.channel = "dm" /\ (p.im /\ n.user \in p.audience) /\ ~(q.im /\ n.user \in q.audience) THEN 1
           ELSE IF n.channel = "dm" /\ ~(p.im /\ n.user \in p.audience) /\ (q.im /\ n.user \in q.audience) THEN 2
           ELSE 0
<1> DEFINE list == <<p, q>>
<1>1. Len(list) = 2 /\ list[1] = p /\ list[2] = q /\ DOMAIN list = 1..2 /\ 1..2 = {1, 2}
  OBVIOUS
<1>2. Request!Direct(list, n) = IF p.channel = n.channel THEN 1 ELSE IF q.channel = n.channel THEN 2 ELSE 0
  <2> DEFINE I == {i \in 1..Len(list) : list[i].channel = n.channel}
  <2>1. Request!Direct(list, n) = IF I # {} THEN Request!Min(I) ELSE 0
    BY DEF Request!Direct, Request!SelectInSeq
  <2>2. I = {i \in {1, 2} : list[i].channel = n.channel}
    BY <1>1
  <2>3. CASE p.channel = n.channel
    <3>1. 1 \in I /\ \A j \in I : 1 <= j
      BY <1>1, <2>2, <2>3
    <3>2. \A m \in I : (\A j \in I : m <= j) => m = 1
      BY <1>1, <2>2, <3>1
    <3>3. Request!Min(I) = 1
      <4> HIDE DEF I
      <4>1. QED
        BY <3>1, <3>2 DEF Request!Min
    <3>4. QED
      BY <2>1, <2>3, <3>1, <3>3
  <2>4. CASE p.channel # n.channel /\ q.channel = n.channel
    <3>1. I = {2}
      BY <1>1, <2>2, <2>4
    <3>2. Request!Min({2}) = 2
      BY DEF Request!Min
    <3>3. QED
      BY <2>1, <2>4, <3>1, <3>2
  <2>5. CASE p.channel # n.channel /\ q.channel # n.channel
    <3>1. I = {}
      BY <1>1, <2>2, <2>5
    <3>2. QED
      BY <2>1, <2>5, <3>1
  <2>6. QED
    BY <2>3, <2>4, <2>5
<1> DEFINE P == p.im /\ n.user \in p.audience
           Q == q.im /\ n.user \in q.audience
<1>3. Request!Bindable(list, n) = {i \in {1, 2} : (i = 1 /\ P) \/ (i = 2 /\ Q)}
  BY <1>1 DEF Request!Bindable
<1>0. SUFFICES Request!Bound(list, n) = IF p.channel = n.channel THEN 1
                                ELSE IF q.channel = n.channel THEN 2
                                ELSE IF n.channel = "dm" /\ P /\ ~Q THEN 1
                                ELSE IF n.channel = "dm" /\ ~P /\ Q THEN 2
                                ELSE 0
  OBVIOUS
<1> HIDE DEF P, Q
<1>4. CASE P /\ Q
  <2>1. Request!Bindable(list, n) = {1, 2}
    BY <1>3, <1>4
  <2>2. Request!Cardinality({1, 2}) = 2
    <3>1. Cardinality({1}) = 1 /\ IsFiniteSet({1})
      BY FS_Singleton
    <3>2. Cardinality({1} \cup {2}) = Cardinality({1}) + 1
      BY <3>1, FS_AddElement
    <3>3. QED
      BY <3>1, <3>2, SameCount, {1} \cup {2} = {1, 2}
  <2>3. QED
    BY <1>2, <1>4, <2>1, <2>2 DEF Request!Bound
<1>5. CASE ~P /\ ~Q
  <2>1. Request!Bindable(list, n) = {}
    BY <1>3, <1>5
  <2>2. Request!Cardinality(Request!Bindable(list, n)) = 0
    BY <2>1, SameCount, FS_EmptySet
  <2>3. QED
    BY <1>2, <1>5, <2>2 DEF Request!Bound
<1>6. CASE P /\ ~Q
  <2>1. Request!Bindable(list, n) = {1}
    BY <1>3, <1>6
  <2>2. Request!Cardinality(Request!Bindable(list, n)) = 1
    BY <2>1, SameCount, FS_Singleton
  <2>3. (CHOOSE i \in Request!Bindable(list, n) : TRUE) = 1
    BY <2>1
  <2>4. Request!Bound(list, n) = IF Request!Direct(list, n) # 0 THEN Request!Direct(list, n) ELSE IF n.channel = "dm" THEN 1 ELSE 0
    BY <2>2, <2>3 DEF Request!Bound
  <2>5. QED
    BY <1>2, <1>6, <2>4
<1>7. CASE ~P /\ Q
  <2>1. Request!Bindable(list, n) = {2}
    BY <1>3, <1>7
  <2>2. Request!Cardinality(Request!Bindable(list, n)) = 1
    BY <2>1, SameCount, FS_Singleton
  <2>3. (CHOOSE i \in Request!Bindable(list, n) : TRUE) = 2
    BY <2>1
  <2>4. QED
    BY <1>2, <1>7, <2>2, <2>3 DEF Request!Bound
<1>8. QED
  BY <1>4, <1>5, <1>6, <1>7

(* So the order of two placements of different channels binds nothing, and *)
(* a direct message is bound for its sender.                               *)
LEMMA OrderIsNothing ==
  ASSUME NEW list \in Request!Lists, NEW n
  PROVE  /\ Request!Bound(list, n) \in 0..Len(list)
         /\ Request!Configured(list) /\ Request!Bound(list, n) # 0 =>
              /\ Request!Reverse(list)[Request!Bound(Request!Reverse(list), n)] = list[Request!Bound(list, n)]
              /\ n.channel = "dm" => n.user \in list[Request!Bound(list, n)].audience
              /\ list[Request!Bound(list, n)] \in Request!Placement
<1>1. PICK p \in Request!Placement, q \in Request!Placement : list = <<p, q>>
  BY DEF Request!Lists, Request!Answering
<1>2. Len(list) = 2 /\ list[1] = p /\ list[2] = q /\ DOMAIN list = {1, 2}
  BY <1>1
<1>3. Request!Reverse(list) = <<q, p>> /\ Request!Reverse(list)[1] = q /\ Request!Reverse(list)[2] = p
  <2>1. Request!Reverse(list) = [i \in 1..2 |-> list[2 - i + 1]]
    BY <1>2 DEF Request!Reverse
  <2>2. QED
    BY <1>2, <2>1
<1>4. Request!Configured(list) => p.channel # q.channel
  <2>1. SUFFICES ASSUME p.channel = q.channel PROVE ~Request!Configured(list)
    OBVIOUS
  <2>2. {list[i].channel : i \in DOMAIN list} = {p.channel}
    BY <1>2, <2>1
  <2>3. Request!Cardinality({p.channel}) = 1
    BY SameCount, FS_Singleton
  <2>4. QED
    BY <1>2, <2>2, <2>3 DEF Request!Configured
<1>5. Request!Bound(list, n) \in 0..2
  BY <1>1, PairIsBound
<1>6. p.channel # "dm" /\ q.channel # "dm"
  BY DEF Request!Placement
<1>7. ASSUME p.channel # q.channel, Request!Bound(list, n) # 0
      PROVE  /\ Request!Reverse(list)[Request!Bound(Request!Reverse(list), n)] = list[Request!Bound(list, n)]
             /\ n.channel = "dm" => n.user \in list[Request!Bound(list, n)].audience
  BY <1>1, <1>2, <1>3, <1>6, <1>7, PairIsBound
<1>8. QED
  BY <1>2, <1>4, <1>5, <1>7

(* Requested is inductive, and says all that the run checks.               *)
LEMMA RequestedAtFirst == ASSUME RequestConstants, Request!Init PROVE Requested
<1>1. BodyIsSound
  BY DEF Request!Init, BodyIsSound, Bodies, Request!Undeclared, RequestConstants
<1>2. NoteIsSound /\ BindingIsSound /\ ContextIsSound
  BY DEF Request!Init, NoteIsSound, Request!NoNote, BindingIsSound, Unplaced, Placed, ContextIsSound, RequestConstants
<1>3. QED
  BY <1>1, <1>2 DEF Requested

(* A body that was read stays as it is.                                    *)
LEMMA BodyStays ==
  ASSUME RequestConstants, BodyIsSound, UNCHANGED bytes, progress' \notin {"reading", "too_large"}, progress # "too_large",
         progress # "reading",
         \/ progress' \in {"chunks", "length_invalid"}
         \/ bytes.declared \in {Request!Undeclared, bytes.total}
  PROVE  BodyIsSound'
<1>1. bytes \in Bodies /\ bytes.total <= bytes.capacity /\ bytes.total = bytes.came
  BY DEF BodyIsSound
<1>2. bytes' = bytes /\ bytes' \in Bodies /\ Request!Undeclared' = Request!Undeclared
  BY <1>1
<1>3. progress' \notin {"reading", "chunks", "too_large", "length_invalid"} => bytes'.declared \in {Request!Undeclared, bytes'.total}
  BY <1>2
<1>4. bytes'.total <= bytes'.capacity /\ bytes'.total = bytes'.came
  BY <1>1, <1>2
<1>5. QED
  BY <1>2, <1>3, <1>4 DEF BodyIsSound

(* The steps that read the body and check its signature.                   *)
LEMMA BodyKeepsRequested ==
  ASSUME RequestConstants, Requested, Request!Declare \/ (\E n \in Chunks : Request!Chunk(n)) \/ Request!Close \/ Request!Verify
  PROVE  Requested'
<1> USE DEF Requested
<1>1. /\ UNCHANGED <<arrival, note, placements, bound, link, lookup, context, turnovers>>
      /\ progress \in {"reading", "chunks", "verify"}
      /\ progress' \in {"chunks", "verify", "normalise", "too_large", "length_invalid", "body_invalid", "signature_invalid"}
  BY DEF Request!Declare, Request!Chunk, Request!Close, Request!Verify, Request!Rest
<1>2. NoteIsSound' /\ BindingIsSound' /\ ContextIsSound'
  <2>1. NoteIsSound' /\ ContextIsSound'
    BY <1>1 DEF NoteIsSound, ContextIsSound
  <2>2. bound = 0 /\ progress' \in Unplaced /\ progress' \notin Placed
    BY <1>1 DEF BindingIsSound, Unplaced, Placed
  <2>3. placements' = placements /\ note' = note /\ bound' = 0 /\ bound' = bound
    BY <1>1, <2>2
  <2>4. BindingIsSound'
    BY <2>2, <2>3 DEF BindingIsSound
  <2>5. QED
    BY <2>1, <2>4
<1>3. bytes \in Bodies /\ bytes.declared \in 0..MaxBody + 2 /\ bytes.total \in 0..MaxBody /\ bytes.capacity \in 0..MaxBody
      /\ bytes.came \in Nat /\ MaxBody \in Nat
  BY DEF BodyIsSound, Bodies, RequestConstants
<1>4. CASE Request!Declare
  <2>1. progress = "reading" /\ bytes.total = 0 /\ bytes.came = 0
    BY <1>4, <1>3 DEF Request!Declare, BodyIsSound
  <2>2. CASE bytes.declared # Request!Undeclared /\ bytes.declared > MaxBody
    <3>1. bytes' = bytes /\ progress' = "too_large"
      BY <1>4, <2>2 DEF Request!Declare
    <3>2. QED
      BY <1>2, <1>3, <2>1, <3>1 DEF BodyIsSound
  <2>3. CASE ~(bytes.declared # Request!Undeclared /\ bytes.declared > MaxBody)
    <3> DEFINE size == IF bytes.declared # Request!Undeclared THEN bytes.declared ELSE Request!Least(FirstBuffer, MaxBody)
    <3>1. size \in 0..MaxBody
      BY <1>3, <2>3 DEF Request!Least, Request!Undeclared, RequestConstants
    <3>2. progress' = "chunks" /\ bytes' = [bytes EXCEPT !.capacity = size]
      BY <1>4, <2>3 DEF Request!Declare
    <3> HIDE DEF size
    <3>3. bytes' \in Bodies /\ bytes'.total = 0 /\ bytes'.came = 0 /\ bytes'.capacity = size
      BY <1>3, <2>1, <3>1, <3>2 DEF Bodies
    <3>4. QED
      BY <1>2, <1>3, <3>1, <3>2, <3>3 DEF BodyIsSound
  <2>4. QED
    BY <2>2, <2>3
<1>5. ASSUME NEW n \in Chunks, Request!Chunk(n) PROVE BodyIsSound'
  <2>1. n \in Nat /\ progress = "chunks" /\ bytes.total = bytes.came
    BY <1>5 DEF BodyIsSound, RequestConstants, Request!Chunk
  <2>2. CASE bytes.total + n > MaxBody
    <3>1. progress' = "too_large" /\ bytes' = [bytes EXCEPT !.came = @ + n]
      BY <1>5, <2>2 DEF Request!Chunk
    <3>2. bytes' \in Bodies
      BY <1>3, <2>1, <3>1 DEF Bodies
    <3>3. QED
      BY <3>1, <3>2 DEF BodyIsSound
  <2>3. CASE ~(bytes.total + n > MaxBody)
    <3> DEFINE size == IF bytes.total + n > bytes.capacity THEN Request!Grown(bytes.total + n, bytes.capacity) ELSE bytes.capacity
    <3>1. size \in 0..MaxBody /\ bytes.total + n <= size /\ bytes.total + n \in 0..MaxBody
      BY <1>3, <2>1, <2>3 DEF Request!Grown, Request!Least, Request!Most
    <3>2. progress' = progress /\ bytes' = [bytes EXCEPT !.total = bytes.total + n, !.came = @ + n, !.capacity = size]
      BY <1>5, <2>3 DEF Request!Chunk
    <3> HIDE DEF size
    <3>3. /\ bytes' \in Bodies /\ bytes'.total = bytes.total + n /\ bytes'.came = bytes.came + n
          /\ bytes'.capacity = size
      <4>1. bytes.came + n \in Nat
        BY <1>3, <2>1
      <4>2. QED
        BY <1>3, <2>1, <3>1, <3>2, <4>1 DEF Bodies
    <3>4. QED
      BY <1>3, <2>1, <3>1, <3>2, <3>3 DEF BodyIsSound
  <2>4. QED
    BY <2>2, <2>3
<1>6. CASE Request!Close
  <2>1. progress = "chunks" /\ UNCHANGED bytes /\ progress' \in {"length_invalid", "verify", "body_invalid"}
        /\ (progress' # "length_invalid" => ~Request!EndedOther)
    BY <1>6 DEF Request!Close, Request!Rest
  <2>2. progress' = "length_invalid" \/ bytes.declared \in {Request!Undeclared, bytes.total}
    BY <2>1 DEF Request!EndedOther
  <2>3. BodyIsSound'
    BY <2>1, <2>2, BodyStays
  <2>4. QED
    BY <1>2, <2>3
<1>7. CASE Request!Verify
  <2>1. progress' \in {"normalise", "signature_invalid"} /\ bytes' = Request!NoBody
    BY <1>7 DEF Request!Verify, Request!Rest
  <2>2. Request!NoBody \in Bodies /\ Request!NoBody.total = 0 /\ Request!NoBody.capacity = 0 /\ Request!NoBody.came = 0 /\ Request!NoBody.declared = Request!Undeclared
    BY <1>3 DEF Request!NoBody, Bodies, Request!Undeclared
  <2>3. BodyIsSound'
    BY <2>1, <2>2 DEF BodyIsSound
  <2>4. QED
    BY <1>2, <2>3
<1>8. QED
  BY <1>2, <1>4, <1>5, <1>6, <1>7

(* A binding stays as it is.                                               *)
LEMMA BindingStays ==
  ASSUME BindingIsSound, UNCHANGED <<note, placements, bound>>, progress \in Placed, progress' \in Placed
  PROVE  BindingIsSound'
<1>1. bound # 0 /\ progress' \notin Unplaced
  BY DEF BindingIsSound, Placed, Unplaced
<1>2. QED
  BY <1>1 DEF BindingIsSound

(* The steps from the event to its execution.                              *)
LEMMA RouteKeepsRequested ==
  ASSUME RequestConstants, Requested,
         \/ \E e \in Request!Events : Request!Normalise(e)
         \/ \E list \in Request!Lists : Request!Place(list)
         \/ Request!Lookup \/ Request!Issue \/ Request!Compare \/ Request!Consume \/ Request!Turnover
  PROVE  Requested'
<1> USE DEF Requested
<1>1. BodyIsSound'
  <2>1. /\ UNCHANGED bytes
        /\ progress \in {"normalise", "place", "lookup", "issue", "compare", "admitted"}
        /\ progress' \notin {"reading", "chunks", "too_large", "length_invalid"}
    BY DEF Request!Normalise, Request!Place, Request!Lookup, Request!Issue, Request!Compare, Request!Consume, Request!Turnover
  <2>2. bytes.declared \in {Request!Undeclared, bytes.total}
    BY <2>1 DEF BodyIsSound
  <2>3. QED
    BY <2>1, <2>2, BodyStays
<1>2. ASSUME NEW e \in Request!Events, Request!Normalise(e) PROVE NoteIsSound' /\ BindingIsSound' /\ ContextIsSound'
  <2>1. Request!Note(e).type \in {"message", "app_mention"} /\ Request!NoNote.type = "none"
    BY DEF Request!Events, Request!Note, Request!Type, Request!NoNote
  <2>2. /\ progress = "normalise" /\ arrival' = e /\ UNCHANGED <<placements, bound, link, context, turnovers>>
        /\ \/ progress' = "place" /\ note' = Request!Note(e)
           \/ progress' = "event_invalid" /\ note' = Request!NoNote
    BY <1>2 DEF Request!Normalise
  <2>3. NoteIsSound' /\ ContextIsSound'
    BY <2>1, <2>2 DEF NoteIsSound, ContextIsSound
  <2>4. bound = 0 /\ progress' \in Unplaced /\ progress' \notin Placed
    BY <2>2 DEF BindingIsSound, Unplaced, Placed
  <2>5. BindingIsSound'
    BY <2>2, <2>4 DEF BindingIsSound
  <2>6. QED
    BY <2>3, <2>5
<1>3. ASSUME NEW list \in Request!Lists, Request!Place(list) PROVE NoteIsSound' /\ BindingIsSound' /\ ContextIsSound'
  <2>1. /\ progress = "place" /\ placements' = list /\ UNCHANGED <<note, link, context, turnovers>>
        /\ \/ progress' = "configuration_invalid" /\ bound' = 0
           \/ progress' = "channel_not_allowed" /\ bound' = 0
           \/ progress' = "lookup" /\ bound' = Request!Bound(list, note) /\ bound' # 0 /\ Request!Configured(list)
    BY <1>3 DEF Request!Place
  <2>2. \/ progress' \in Unplaced /\ progress' \notin Placed /\ bound' = 0
        \/ progress' \in Placed /\ progress' \notin Unplaced /\ bound' # 0
    BY <2>1 DEF Unplaced, Placed
  <2>3. BindingIsSound'
    BY <2>1, <2>2 DEF BindingIsSound
  <2>4. QED
    BY <2>1, <2>3 DEF NoteIsSound, ContextIsSound
<1>4. CASE Request!Lookup
  <2>1. progress = "lookup" /\ progress' \in {"issue", "denied"} /\ UNCHANGED <<note, placements, bound, link, context, turnovers>>
    BY <1>4 DEF Request!Lookup
  <2>2. BindingIsSound'
    BY <2>1, BindingStays DEF Placed
  <2>3. QED
    BY <1>1, <2>1, <2>2 DEF NoteIsSound, ContextIsSound
<1>5. CASE Request!Issue
  <2>1. /\ progress = "issue" /\ progress' \in {"denied", "compare"} /\ UNCHANGED <<note, placements, bound, link, turnovers>>
        /\ progress' = "compare" => context'.actor = note.user
    BY <1>5 DEF Request!Issue
  <2>2. BindingIsSound'
    BY <2>1, BindingStays DEF Placed
  <2>3. QED
    BY <1>1, <2>1, <2>2 DEF NoteIsSound, ContextIsSound
<1>6. CASE Request!Compare
  <2>1. /\ progress = "compare" /\ progress' \in {"denied", "admitted"}
        /\ UNCHANGED <<note, placements, bound, link, context, turnovers>>
        /\ progress' = "admitted" => link.active /\ link.revision = context.revision
    BY <1>6 DEF Request!Compare, Request!Current
  <2>2. BindingIsSound'
    BY <2>1, BindingStays DEF Placed
  <2>3. QED
    BY <1>1, <2>1, <2>2 DEF NoteIsSound, ContextIsSound
<1>7. CASE Request!Consume
  <2>1. /\ progress = "admitted" /\ progress' \in {"denied", "executing"}
        /\ UNCHANGED <<note, placements, bound, link, context, turnovers>>
        /\ progress' = "executing" => Request!Scope(placements[bound]) # "refused"
    BY <1>7 DEF Request!Consume
  <2>2. BindingIsSound'
    BY <2>1, BindingStays DEF Placed
  <2>3. QED
    BY <1>1, <2>1, <2>2 DEF NoteIsSound, ContextIsSound
<1>8. CASE Request!Turnover
  <2>1. progress \in {"lookup", "issue", "compare"} /\ UNCHANGED <<progress, arrival, note, placements, bound, context>>
        /\ turnovers' \in 0..MaxTurnovers
    BY <1>8 DEF Request!Turnover, ContextIsSound, RequestConstants
  <2>2. BindingIsSound'
    BY <2>1, BindingStays DEF Placed
  <2>3. QED
    BY <1>1, <2>1, <2>2 DEF NoteIsSound, ContextIsSound
<1>9. QED
  BY <1>1, <1>2, <1>3, <1>4, <1>5, <1>6, <1>7, <1>8

LEMMA RequestedIsKept == ASSUME RequestConstants, Requested, [Request!Next]_Request!requestVars PROVE Requested'
<1>1. CASE Request!Next
  BY <1>1, BodyKeepsRequested, RouteKeepsRequested DEF Request!Next
<1>2. CASE UNCHANGED Request!requestVars
  BY <1>2 DEF Request!requestVars, Requested, BodyIsSound, NoteIsSound, BindingIsSound, ContextIsSound
<1>3. QED
  BY <1>1, <1>2

LEMMA RequestedIsEnough ==
  ASSUME RequestConstants, Requested
  PROVE  Request!TypeOK /\ Request!BodyIsWhole /\ Request!MentionIsOne /\ Request!OrderBindsNothing /\ Request!ExecutedAsAdmitted /\ Request!AdmittedIsCurrent
<1> USE DEF Requested
<1>1. Request!TypeOK
  <2>1. bound \in 0..Len(placements)
    BY OrderIsNothing DEF BindingIsSound
  <2>2. QED
    BY <2>1 DEF Request!TypeOK, BodyIsSound, Bodies, NoteIsSound, ContextIsSound
<1>2. Request!BodyIsWhole
  BY DEF Request!BodyIsWhole, BodyIsSound
<1>3. Request!MentionIsOne
  <2>1. SUFFICES ASSUME progress = "place", arrival.mentions, arrival.authorized
                 PROVE Request!Note([arrival EXCEPT !.type = IF @ = "message" THEN "app_mention" ELSE "message"]) = note
    BY DEF Request!MentionIsOne
  <2> DEFINE other == [arrival EXCEPT !.type = IF @ = "message" THEN "app_mention" ELSE "message"]
  <2>2. arrival \in Request!Events /\ note = Request!Note(arrival)
    BY <2>1 DEF NoteIsSound
  <2>3. /\ other.channel = arrival.channel /\ other.user = arrival.user /\ other.reply = arrival.reply
        /\ other.mentions /\ other.authorized
        /\ arrival.type \in {"message", "app_mention"} /\ other.type \in {"message", "app_mention"}
    BY <2>1, <2>2 DEF Request!Events
  <2>4. Request!Type(arrival) = "app_mention" /\ Request!Type(other) = "app_mention"
    BY <2>1, <2>3 DEF Request!Type
  <2>5. QED
    BY <2>2, <2>3, <2>4 DEF Request!Note
<1>4. Request!OrderBindsNothing
  BY OrderIsNothing DEF Request!OrderBindsNothing, BindingIsSound
<1>5. Request!ExecutedAsAdmitted
  <2>1. SUFFICES ASSUME progress = "executing" PROVE Request!Canonical(<<placements[bound]>>) = <<Request!Scope(placements[bound])>>
    BY DEF Request!ExecutedAsAdmitted
  <2>2. placements[bound] \in Request!Placement
    BY <2>1, OrderIsNothing DEF BindingIsSound, Unplaced, Placed
  <2>3. Request!Scope(placements[bound]) # "refused"
    BY <2>1 DEF ContextIsSound
  <2> DEFINE p == placements[bound]
  <2>4. p.mapping \in {"none", "aligned"} /\ Request!Scope(p) = IF p.mapping = "none" THEN "codes" ELSE "ids"
    BY <2>2, <2>3 DEF Request!Scope, Request!Placement, Request!Mappings
  <2> HIDE DEF p
  <2>5. Request!Canonical(<<p>>) = [i \in {1} |-> IF p.mapping = "none" THEN "codes" ELSE "ids"]
    BY <2>4 DEF Request!Canonical
  <2>6. QED
    BY <2>4, <2>5 DEF p
<1>6. Request!AdmittedIsCurrent
  BY DEF Request!AdmittedIsCurrent, ContextIsSound
<1>7. QED
  BY <1>1, <1>2, <1>3, <1>4, <1>5, <1>6

(* What the run checks of a request, of every behaviour.                   *)
LEMMA RequestHolds ==
  ASSUME RequestConstants
  PROVE  Request!Init /\ [][Request!Next]_Request!requestVars
           => [](Request!TypeOK /\ Request!BodyIsWhole /\ Request!MentionIsOne /\ Request!OrderBindsNothing /\ Request!ExecutedAsAdmitted /\ Request!AdmittedIsCurrent)
<1>1. Request!Init => Requested
  BY RequestedAtFirst
<1>2. Requested /\ [Request!Next]_Request!requestVars => Requested'
  BY RequestedIsKept
<1>3. Requested => Request!TypeOK /\ Request!BodyIsWhole /\ Request!MentionIsOne /\ Request!OrderBindsNothing /\ Request!ExecutedAsAdmitted /\ Request!AdmittedIsCurrent
  BY RequestedIsEnough
<1>4. QED
  BY <1>1, <1>2, <1>3, PTL

-----------------------------------------------------------------------------
(* The suite.                                                              *)

(* The components side by side: each only moves by its own steps.          *)
LEMMA DoorsBehave ==
  Spec => /\ Admission!Init /\ [][Admission!Next]_Admission!admissionVars
          /\ Interaction!Init /\ [][Interaction!Next]_Interaction!interactionVars
          /\ Request!Init /\ [][Request!Next]_Request!requestVars
<1> USE DEF AdmissionMoves, InteractionMoves, suiteVars, admissionVars, interactionVars, requestVars
<1>1. Init => Admission!Init /\ Interaction!Init /\ Request!Init
  BY DEF Init
<1>2. [Next]_suiteVars => [Admission!Next]_Admission!admissionVars
  BY DEF Next, Admission!admissionVars
<1>3. [Next]_suiteVars => [Interaction!Next]_Interaction!interactionVars
  BY DEF Next, Interaction!interactionVars
<1>4. [Next]_suiteVars => [Request!Next]_Request!requestVars
  BY DEF Next, Request!requestVars
<1>5. QED
  BY <1>1, <1>2, <1>3, <1>4, PTL DEF Spec

(* A redo leaves the shared message alone, a choice is queued or its       *)
(* failure told, and a click that saw only a paused intake is not queued,  *)
(* however the work of the clicks overlaps (slack-interactions.ts).        *)
THEOREM ClicksAreAnswered ==
  ASSUME InteractionConstants
  PROVE  Spec => []ButtonsAreAnswered
BY InteractionHolds, DoorsBehave, PTL DEF ButtonsAreAnswered

(* A body is taken whole, the two events of a mention become one, the      *)
(* order of the placements binds nothing, a context is admitted for the    *)
(* connection as it is and executed with its projects (slack-request-body, *)
(* slack, runtime-config and runtime-boundaries.ts); a sealed decision is  *)
(* followed, an event replied to once and an accepted event kept, whatever *)
(* routes its messages take (company-authority-queue-runtime.ts).          *)
THEOREM AcceptedEventsAreFollowed ==
  ASSUME AdmissionConstants, RequestConstants
  PROVE  Spec => []EventsAreFollowed
BY AdmissionHolds, RequestHolds, DoorsBehave, PTL DEF EventsAreFollowed

(* A choice is not hidden by the click before it: that one can only put a  *)
(* notice there (the render of slack-interactions.ts).                     *)
THEOREM ChoicesStayVisible ==
  ASSUME InteractionConstants
  PROVE  Spec => Interaction!ChoiceStaysVisible
BY InteractionHolds, DoorsBehave, PTL

(* A handoff to a person is recorded once and not replaced, whichever      *)
(* message of the event comes later (company-authority-human-handoff.ts).  *)
THEOREM HandoffsAreKept ==
  ASSUME AdmissionConstants
  PROVE  Spec => Admission!HandoffIsKept
BY AdmissionHolds, DoorsBehave, PTL

=============================================================================
