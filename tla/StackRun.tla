------------------------------- MODULE StackRun -------------------------------
(***************************************************************************)
(* What a serving stack promises of one run, the handling of one call of   *)
(* /v1/messages/respond: whatever it changes in api-core (bookings,        *)
(* tickets) it changes before it stores the turn in the transcript, it     *)
(* stores at most one turn, and after its reply it does nothing more.  The *)
(* turn may be left unstored: no stack insists on it.                      *)
(***************************************************************************)
EXTENDS Naturals

VARIABLES
    stage,    \* "fresh", "stored" (or given up storing), "replied"
    acts      \* how many changes the run has made in api-core

Init == stage = "fresh" /\ acts = 0

Act == stage = "fresh" /\ acts' = acts + 1 /\ UNCHANGED stage

Store == stage = "fresh" /\ stage' = "stored" /\ UNCHANGED acts

Reply == stage # "replied" /\ stage' = "replied" /\ UNCHANGED acts

Next == Act \/ Store \/ Reply

Spec == Init /\ [][Next]_<<stage, acts>>
===============================================================================
