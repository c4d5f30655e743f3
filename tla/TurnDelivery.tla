----------------------------- MODULE TurnDelivery -----------------------------
(***************************************************************************)
(* The messages of one chat on their way through the gateway, a serving    *)
(* stack and api-core.                                                     *)
(*                                                                         *)
(* The gateway serves the messages of a chat one after the other and calls *)
(* the stack at most twice for each.  Giving a call up does not stop it:   *)
(* the run it began goes on reading, booking and storing behind the back   *)
(* of the gateway, which meanwhile repeats the call or serves the next     *)
(* message.  A run that is given up can be of any age, and so can a        *)
(* request to api-core whose response did not come in time.                *)
(*                                                                         *)
(* A run is what StackRun says a run is, with the calls it makes of        *)
(* api-core in two: the request taking effect and its response arriving.   *)
(* Texts are told apart by the message they belong to and by what they say *)
(* of a visit.  What operators do to tickets is SupportWorkflow's: here    *)
(* the ticket of a visit is open until the visit is cancelled.             *)
(***************************************************************************)
EXTENDS Naturals, Sequences, FiniteSets

CONSTANTS
    Messages,      \* number of messages of the chat, in the order they arrive
    Wishes,        \* what the messages may ask for, one after the other
    Window,        \* the newest rows of the transcript that make a context
    MaxMishaps     \* bound on what comes in between: calls that fail, crashes,
                   \* restarts, requests without a response, answers reworded
                   \* or not delivered, notes of operators

Updates == 1..Messages
Asking == {"answer", "book", "move", "cancel"}

ASSUME DeliveryAssumption ==
    /\ Messages \in Nat /\ Window \in Nat /\ MaxMishaps \in Nat
    /\ Wishes \subseteq [Updates -> Asking]

Runs == Updates \X {1, 2}      \* the n-th call for a message
UpdateOf(a) == a[1]
Nobody == <<0, 0>>             \* in the place of a run that did not wait for it

VARIABLES
    wants,        \* what each message asks for
    turn,         \* what has become of each message, and the number of its last call
    run,          \* where each run is, the rows it read, the answer it has
                  \* composed, and whether api-core confirmed that it is stored
    transcript,   \* the rows api-core has stored, oldest first, each with the
                  \* run that waited for its request (history)
    visits,       \* the visits of the chat, oldest first, each with the run
                  \* that waited for the request handled last (history)
    late,         \* requests to api-core whose run stopped waiting for the response
    mishaps       \* how often something has come in between

vars == <<wants, turn, run, transcript, visits, late, mishaps>>
apiCore == <<transcript, visits, late>>

NoContext == {0}               \* the context could not be read
Settled == {"answered", "withheld", "unanswered"}
Ended == {"replied", "reworded"}

Plain(u, status) == [of |-> u, status |-> status, visit |-> 0]
Question(u) == Plain(u, "asks")

NoRun(a) == [pc |-> "none", context |-> {}, says |-> Plain(UpdateOf(a), "info"), kept |-> FALSE]

Init ==
    /\ wants \in Wishes
    /\ turn = [u \in Updates |-> [pc |-> "unsent", call |-> 0]]
    /\ run = [a \in Runs |-> NoRun(a)]
    /\ transcript = <<>>
    /\ visits = <<>>
    /\ late = {}
    /\ mishaps = 0

-----------------------------------------------------------------------------
(* The gateway *)

Mishap == mishaps < MaxMishaps /\ mishaps' = mishaps + 1

Is(u, pc) == turn[u].pc = pc
BecomeTurn(u, pc) == turn' = [turn EXCEPT ![u].pc = pc]
Waiting(u) == Is(u, "calling")
Awaited(a) == Waiting(UpdateOf(a)) /\ turn[UpdateOf(a)].call = a[2]

(* _is_stale_chat_update: a newer message has come in.                      *)
Stale(u) == \E v \in Updates : v > u /\ ~Is(v, "unsent")

(* The webhook marks the message as the latest and leaves it to a task.     *)
Arrive(u) ==
    /\ Is(u, "unsent")
    /\ \A v \in 1..(u - 1) : ~Is(v, "unsent")
    /\ BecomeTurn(u, "queued")
    /\ UNCHANGED <<wants, run, apiCore, mishaps>>

(* The lock of the chat goes to whoever has waited longest.                 *)
TurnOf(u) == \A v \in 1..(u - 1) : turn[v].pc \in Settled

Call(u, n) ==
    /\ turn' = [turn EXCEPT ![u] = [pc |-> "calling", call |-> n]]
    /\ run' = [run EXCEPT ![<<u, n>>].pc = "sent"]

Serve(u) ==
    /\ Is(u, "queued") /\ TurnOf(u)
    /\ IF Stale(u) THEN BecomeTurn(u, "withheld") /\ UNCHANGED run ELSE Call(u, 1)
    /\ UNCHANGED <<wants, apiCore, mishaps>>

(* Variant: a failed call is repeated as long as it fails.                  *)
GiveUpNever(u) ==
    /\ Waiting(u)
    /\ turn' = [turn EXCEPT ![u].call = @ + 1]
    /\ Mishap
    /\ UNCHANGED <<wants, run, apiCore>>

(* The call times out or fails, whatever the run behind it is doing: it is  *)
(* repeated once; the second time, or when it is not the call that failed,  *)
(* the task ends, and at most tells the user to try later.                  *)
GiveUp(u) ==
    /\ Waiting(u)
    /\ \/ turn[u].call = 1 /\ Call(u, 2)
       \/ BecomeTurn(u, IF Stale(u) THEN "withheld" ELSE "unanswered") /\ UNCHANGED run
    /\ Mishap
    /\ UNCHANGED <<wants, apiCore>>

(* The run's answer comes back: it is withheld, sent, or not delivered.     *)
Answer(u) ==
    /\ Waiting(u)
    /\ run[<<u, turn[u].call>>].pc \in Ended
    /\ \/ BecomeTurn(u, IF Stale(u) THEN "withheld" ELSE "answered") /\ UNCHANGED mishaps
       \/ ~Stale(u) /\ BecomeTurn(u, "unanswered") /\ Mishap
    /\ UNCHANGED <<wants, run, apiCore>>

(* The gateway restarts: its tasks are lost, and the runs do not notice.    *)
Restart ==
    /\ turn' = [u \in Updates |->
                  IF turn[u].pc \in {"queued", "calling"} THEN [turn[u] EXCEPT !.pc = "unanswered"]
                  ELSE turn[u]]
    /\ Mishap
    /\ UNCHANGED <<wants, run, apiCore>>

-----------------------------------------------------------------------------
(* The transcript *)

Rows == Len(transcript)
Newest(count) == {i \in 1..Rows : i > Rows - count}
TextsAt(rows) == {transcript[i].text : i \in rows}

Write(texts, by) ==
    transcript' = transcript \o [i \in DOMAIN texts |-> [text |-> texts[i], by |-> by]]

(* append_conversation_messages: a turn the transcript already ends with is *)
(* skipped; otherwise each row is compared with the newest stored one, and  *)
(* two new rows, stored at one time, come out in either order.              *)
TurnRows(answer) ==
    LET question == Question(answer.of)
    IN IF Rows >= 2 /\ TextsAt(Newest(2)) = {question, answer} THEN {<<>>}
       ELSE IF TextsAt(Newest(1)) = {question} THEN {<<answer>>}
       ELSE IF TextsAt(Newest(1)) = {answer} THEN {<<question>>}
       ELSE {<<question, answer>>, <<answer, question>>}

StoreTurn(answer, by) == \E rows \in TurnRows(answer) : Write(rows, by)

(* Booking notes the message, once and then again: neither query sees the   *)
(* other's row, and the second may take either row of a turn for the newest.*)
NoteRows(u) ==
    LET question == Question(u)
        tied == IF Rows >= 2 /\ \E answer \in TextsAt(Newest(2)) :
                      answer.status \notin {"asks", "note"} /\ TextsAt(Newest(2)) = {Question(answer.of), answer}
                THEN Newest(2) ELSE Newest(1)
        first == IF TextsAt(Newest(1)) = {question} THEN <<>> ELSE <<question>>
    IN {first \o second : second \in
          {rows \in {<<>>, <<question>>} :
             IF rows = <<>> THEN question \in TextsAt(tied) ELSE TextsAt(tied) # {question}}}

-----------------------------------------------------------------------------
(* The visits *)

After(wish) == IF wish = "cancel" THEN "cancelled" ELSE "requested"
Outcome(u, v) == [of |-> u, status |-> After(wants[u]), visit |-> v]

(* Booking finds the visit whose ticket is open, or makes one; the other    *)
(* requests may name any visit by its code, and none when there is none.    *)
Reached(wish) ==
    LET open == {v \in DOMAIN visits : visits[v].status = "requested"}
    IN IF wish # "book" THEN DOMAIN visits
       ELSE IF open # {} THEN open ELSE {Len(visits) + 1}

Handle(u, v, by) ==
    /\ LET visit == [status |-> After(wants[u]), by |-> by]
       IN visits' = IF v \in DOMAIN visits THEN [visits EXCEPT ![v] = visit] ELSE Append(visits, visit)
    /\ IF wants[u] = "book" THEN \E rows \in NoteRows(u) : Write(rows, by) ELSE UNCHANGED transcript

(* The operator of a ticket leaves a note in the transcript.                *)
Note ==
    /\ visits # <<>>
    /\ Mishap
    /\ Write(<<Plain(0, "note")>>, Nobody)
    /\ UNCHANGED <<wants, run, turn, visits, late>>

(* A request whose response nobody waits for is handled after all.          *)
Land(r) ==
    /\ r \in late /\ ~r.done
    /\ late' = (late \ {r}) \cup {[r EXCEPT !.done = TRUE]}
    /\ \/ r.kind = "turn" /\ StoreTurn(run[r.of].says, Nobody) /\ UNCHANGED visits
       \/ r.kind = "visit" /\ \E v \in Reached(wants[UpdateOf(r.of)]) : Handle(UpdateOf(r.of), v, Nobody)
    /\ UNCHANGED <<wants, run, turn, mishaps>>

-----------------------------------------------------------------------------
(* A run of the stack *)

At(a, pc) == run[a].pc = pc
Go(a, pc, answer) == run' = [run EXCEPT ![a] = [@ EXCEPT !.pc = pc, !.context = {}, !.says = answer]]
Ask(a, kind) ==
    /\ Mishap
    /\ late' = late \cup {[of |-> a, kind |-> kind, done |-> FALSE]}

ReadContext(a) ==
    /\ At(a, "sent")
    /\ \E rows \in {Newest(Window), NoContext} :
          /\ run' = [run EXCEPT ![a] = [@ EXCEPT !.pc = "read", !.context = rows]]
          /\ IF rows = NoContext THEN Mishap ELSE UNCHANGED mishaps
    /\ UNCHANGED <<wants, apiCore, turn>>

Sorry(a) == Plain(UpdateOf(a), "sorry")
Acts(a) == At(a, "read") /\ wants[UpdateOf(a)] # "answer"

(* Variant: the answer does not look at whether the request was accepted.   *)
ActUnchecked(a) ==
    /\ Acts(a)
    /\ \E v \in Reached(wants[UpdateOf(a)]) :
          /\ Handle(UpdateOf(a), v, a) \/ UNCHANGED <<transcript, visits>>
          /\ Go(a, "acted", Outcome(UpdateOf(a), v))
    /\ UNCHANGED <<wants, late, turn, mishaps>>

(* _api_core_post: done, refused, or without a response in time.  Only of   *)
(* what was done the answer says so, with the code of the visit.            *)
Act(a) ==
    /\ Acts(a)
    /\ \/ \E v \in Reached(wants[UpdateOf(a)]) :
             /\ Handle(UpdateOf(a), v, a)
             /\ Go(a, "acted", Outcome(UpdateOf(a), v))
             /\ UNCHANGED <<late, mishaps>>
       \/ /\ Go(a, "acted", Sorry(a))
          /\ IF Reached(wants[UpdateOf(a)]) = {} THEN UNCHANGED mishaps ELSE Mishap
          /\ UNCHANGED apiCore
       \/ Ask(a, "visit") /\ Go(a, "acted", Sorry(a)) /\ UNCHANGED <<transcript, visits>>
    /\ UNCHANGED <<wants, turn>>

(* An exception before the answer is stored: the fallback that answers      *)
(* instead knows nothing of what was done.                                  *)
Crash(a) ==
    /\ run[a].pc \in {"read", "acted"} /\ run[a].says # Sorry(a)
    /\ Mishap
    /\ Go(a, "acted", Sorry(a))
    /\ UNCHANGED <<wants, apiCore, turn>>

ReadyToStore(a) == At(a, "acted") \/ (At(a, "read") /\ wants[UpdateOf(a)] = "answer")
EndStoring(a, kept) ==
    run' = [run EXCEPT ![a] = [@ EXCEPT !.pc = "stored", !.context = {}, !.kept = kept]]

(* Variant: the turn is stored in the background.                           *)
StoreInBackground(a) ==
    /\ ReadyToStore(a)
    /\ Ask(a, "turn") /\ EndStoring(a, TRUE)
    /\ UNCHANGED <<wants, transcript, visits, turn>>

(* _persist_conversation_turn: the run goes on whatever came of it.         *)
Store(a) ==
    /\ ReadyToStore(a)
    /\ \/ StoreTurn(run[a].says, a) /\ EndStoring(a, TRUE) /\ UNCHANGED <<late, mishaps>>
       \/ EndStoring(a, FALSE) /\ Mishap /\ UNCHANGED <<transcript, late>>
       \/ Ask(a, "turn") /\ EndStoring(a, FALSE) /\ UNCHANGED transcript
    /\ UNCHANGED <<wants, visits, turn>>

(* The stored answer is returned, or another text that postprocessing has   *)
(* put in its place after the turn was stored; of a run given up, to nobody.*)
Reply(a) ==
    /\ At(a, "stored") /\ Awaited(a)
    /\ \/ Go(a, "replied", run[a].says) /\ UNCHANGED mishaps
       \/ Go(a, "reworded", run[a].says) /\ Mishap
    /\ UNCHANGED <<wants, apiCore, turn>>

-----------------------------------------------------------------------------
RunStep(a) == ReadContext(a) \/ Act(a) \/ Crash(a) \/ Store(a) \/ Reply(a)

Next ==
    \/ \E u \in Updates : Arrive(u) \/ Serve(u) \/ GiveUp(u) \/ Answer(u)
    \/ \E a \in Runs : RunStep(a)
    \/ \E r \in late : Land(r)
    \/ Note \/ Restart

Spec == Init /\ [][Next]_vars

-----------------------------------------------------------------------------
(* Properties *)

Texts == [of: Updates \cup {0}, status: {"note", "asks", "info", "sorry", "requested", "cancelled"}, visit: Nat]
Hands == Runs \cup {Nobody}

TypeOK ==
    /\ wants \in Wishes
    /\ turn \in [Updates -> [pc: {"unsent", "queued", "calling"} \cup Settled, call: 0..2]]
    /\ run \in [Runs -> [pc: {"none", "sent", "read", "acted", "stored"} \cup Ended,
                         context: SUBSET Nat, says: Texts, kept: BOOLEAN]]
    /\ transcript \in Seq([text: Texts, by: Hands])
    /\ visits \in Seq([status: {"requested", "cancelled"}, by: Hands])
    /\ late \subseteq [of: Runs, kind: {"turn", "visit"}, done: BOOLEAN]
    /\ mishaps \in 0..MaxMishaps

(* The user has been sent the answer of this run.                           *)
Heard(a) == a \in Runs /\ Is(UpdateOf(a), "answered") /\ turn[UpdateOf(a)].call = a[2]

(* Rows that may stand after the answer of b: of a request nobody waited    *)
(* for, of a newer message, or of a run the user has never heard of.        *)
Follows(row, b) == row.by = Nobody \/ UpdateOf(row.by) > UpdateOf(b) \/ ~Heard(row.by)

(* What was answered to the user, and api-core confirmed, is in the context *)
(* a later message is answered with, unless the whole context is made of    *)
(* what was stored since: by newer messages, by runs that were given up, or *)
(* by requests that had been.                                               *)
ShownIsRemembered ==
    \A a, b \in Runs :
        /\ At(a, "read") /\ run[a].context # NoContext
        /\ UpdateOf(b) < UpdateOf(a) /\ Heard(b) /\ run[b].kept
        => \/ run[b].says \in TextsAt(run[a].context)
           \/ /\ Cardinality(run[a].context) = Window
              /\ \A i \in run[a].context :
                    transcript[i].text = Question(UpdateOf(b)) \/ Follows(transcript[i], b)

(* The user has read what this run made of visit v.                         *)
Told(a, v) == Heard(a) /\ At(a, "replied") /\ run[a].says.visit = v

LastTold(a, v) == Told(a, v) /\ \A b \in Runs : Told(b, v) => UpdateOf(b) <= UpdateOf(a)

(* A visit is as the user was last told it is, or what was done to it last  *)
(* is something the user has not been told at all: by a run given up,       *)
(* withheld, crashed, reworded or still under way, or by a request that was *)
(* handled after its run had stopped waiting.                               *)
VisitAsTold ==
    \A v \in DOMAIN visits : \A a \in Runs :
        LastTold(a, v) /\ Told(visits[v].by, v) => visits[v].status = run[a].says.status
=============================================================================
