-------------------------- MODULE CallbackPromise --------------------------
(***************************************************************************)
(* What the terminal callback of a development job promises to those who   *)
(* send it: the first payload is taken and no other, the job is accounted  *)
(* for once, as its delivery was told or as given up, and a callback is    *)
(* completed only if it was accounted for as told.                         *)
(***************************************************************************)
CONSTANTS
  Payload,  \* terminal payloads
  Nothing   \* no payload

VARIABLES
  taken,      \* the payload that was taken
  accounted,  \* how the job was accounted for
  completed   \* the callback is completed

Init == taken = Nothing /\ accounted = "open" /\ completed = FALSE

Take(p) == /\ taken = Nothing
           /\ taken' = p
           /\ UNCHANGED <<accounted, completed>>

Account == /\ taken # Nothing /\ accounted = "open"
           /\ accounted' = "told"
           /\ UNCHANGED <<taken, completed>>

GiveUp == /\ accounted = "open"
          /\ accounted' = "unknown"
          /\ UNCHANGED <<taken, completed>>

Complete == /\ accounted = "told" /\ ~completed
            /\ completed' = TRUE
            /\ UNCHANGED <<taken, accounted>>

Next == (\E p \in Payload : Take(p)) \/ Account \/ GiveUp \/ Complete

Spec == Init /\ [][Next]_<<taken, accounted, completed>>

=============================================================================
