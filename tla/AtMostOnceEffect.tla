-------------------------- MODULE AtMostOnceEffect --------------------------
(***************************************************************************)
(* What the outbox promises of an external effect: it is handed over once  *)
(* at most, has its result once at most and only while its outcome is      *)
(* open, and the outcome on record is the truth. An outcome nobody         *)
(* observed may later be found to be a success, never to be a failure.     *)
(***************************************************************************)
EXTENDS Naturals

CONSTANT Sender     \* who may hand the effect to its provider

VARIABLES
  handed,   \* the senders that handed it over
  results,  \* how often it had its result
  outcome   \* what is on record

Init == handed = {} /\ results = 0 /\ outcome = "open"

HandOver == /\ handed = {}
            /\ \E s \in Sender : handed' = {s}
            /\ UNCHANGED <<results, outcome>>

Take == /\ handed # {} /\ results = 0 /\ outcome = "open"
        /\ results' = 1
        /\ UNCHANGED <<handed, outcome>>

Decide == /\ handed # {} /\ outcome \in {"open", "unknown"}
          /\ \/ outcome' = "succeeded" /\ results = 1
             \/ outcome' = "failed_terminal" /\ results = 0 /\ outcome = "open"
             \/ outcome' = "unknown"
          /\ UNCHANGED <<handed, results>>

Next == HandOver \/ Take \/ Decide

Spec == Init /\ [][Next]_<<handed, results, outcome>>

=============================================================================
