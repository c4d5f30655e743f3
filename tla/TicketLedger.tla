---------------------------- MODULE TicketLedger ----------------------------
(***************************************************************************)
(* What the support queue promises the people who use it, with queues,     *)
(* assignments, visits, requests and messages left out: a thread gets a    *)
(* new ticket only when every earlier ticket of that thread is closed;     *)
(* tickets keep their thread, are closed, and can be reopened.             *)
(***************************************************************************)
CONSTANTS Threads, Tickets, NoThread

VARIABLES stage,   \* where a ticket is in its life
          home     \* the thread it was filed from

ledgerVars == <<stage, home>>

Init ==
    /\ stage = [k \in Tickets |-> "none"]
    /\ home = [k \in Tickets |-> NoThread]

File(k, t) ==
    /\ stage[k] = "none"
    /\ \A j \in Tickets : home[j] = t => stage[j] = "closed"
    /\ stage' = [stage EXCEPT ![k] = "fresh"]
    /\ home' = [home EXCEPT ![k] = t]

Close(k) ==
    /\ stage[k] \in {"fresh", "reopened"}
    /\ stage' = [stage EXCEPT ![k] = "closed"]
    /\ UNCHANGED home

Reopen(k) ==
    /\ stage[k] = "closed"
    /\ stage' = [stage EXCEPT ![k] = "reopened"]
    /\ UNCHANGED home

Next == \E k \in Tickets : (\E t \in Threads : File(k, t)) \/ Close(k) \/ Reopen(k)

Spec == Init /\ [][Next]_ledgerVars
=============================================================================
