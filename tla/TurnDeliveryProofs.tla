--------------------------- MODULE TurnDeliveryProofs ---------------------------
(***************************************************************************)
(* For any number of messages, any size of the context and any number of   *)
(* things that come in between: what the user has read is remembered, and  *)
(* the visits are as the user was told.                                    *)
(***************************************************************************)
EXTENDS TurnDelivery, FiniteSetTheorems, SequenceTheorems, TLAPS

Acted == {"acted", "stored"} \cup Ended
Row == [text: Texts, by: Hands]

(* A call is counted from one on; a run begins when its message is served,  *)
(* which is when all earlier ones are settled.                              *)
CallsCounted ==
    \A a \in Runs : run[a].pc # "none" =>
        turn[UpdateOf(a)].pc \notin {"unsent", "queued"} /\ a[2] <= turn[UpdateOf(a)].call
InTurn ==
    /\ \A u \in Updates : Waiting(u) =>
          turn[u].call \in {1, 2} /\ \A v \in 1..(u - 1) : turn[v].pc \in Settled
    /\ \A a \in Runs : run[a].pc # "none" => \A v \in 1..(UpdateOf(a) - 1) : turn[v].pc \in Settled

(* An answer comes from a run that has ended, belongs to the run's own      *)
(* message, is confirmed only once it is stored, and speaks of a visit only *)
(* once the run has acted.                                                  *)
AnswersEnded ==
    \A a \in Runs :
        /\ Heard(a) => run[a].pc \in Ended
        /\ run[a].kept => run[a].pc \in {"stored"} \cup Ended
        /\ run[a].says.of = UpdateOf(a)
        /\ run[a].says.visit # 0 => run[a].pc \in Acted

(* The context of a run is made of rows that are stored.                    *)
ContextsRead ==
    \A a \in Runs : At(a, "read") => run[a].context = NoContext \/ run[a].context \subseteq 1..Rows

(* The answer of a run stands in the transcript, and after it at most the   *)
(* question it belongs to and what may follow it.                           *)
InPlace(b, i) ==
    /\ transcript[i].text = run[b].says
    /\ \A j \in (i + 1)..Rows :
          \/ j = i + 1 /\ transcript[j].text = Question(UpdateOf(b))
          \/ transcript[j].by # b /\ Follows(transcript[j], b)
Placed(b) == \E i \in 1..Rows : InPlace(b, i)
KeptInPlace == \A b \in Runs : run[b].kept /\ (Heard(b) \/ Awaited(b)) => Placed(b)

(* A run that handled a visit last has acted, and says how it is if it says *)
(* anything of it; and no run of a newer message has spoken of that visit,  *)
(* unless the user will never hear of what was done last.                   *)
SaidTruly ==
    \A v \in DOMAIN visits : visits[v].by \in Runs =>
        LET c == visits[v].by
        IN run[c].pc \in Acted /\ (run[c].says.visit = v => run[c].says.status = visits[v].status)
SaidInOrder ==
    \A v \in DOMAIN visits : \A a \in Runs :
        /\ visits[v].by \in Runs /\ run[a].says.visit = v
        /\ UpdateOf(visits[v].by) < UpdateOf(a)
        => ~Heard(visits[v].by)

IInv ==
    /\ TypeOK /\ CallsCounted /\ InTurn /\ AnswersEnded /\ ContextsRead /\ KeptInPlace
    /\ ShownIsRemembered /\ SaidTruly /\ SaidInOrder

-----------------------------------------------------------------------------

(* The messages of runs are messages.                                       *)
LEMMA RunUpdates == \A a \in Runs : UpdateOf(a) \in Updates /\ a[2] \in {1, 2} /\ a = <<UpdateOf(a), a[2]>>
BY DEF Runs, UpdateOf

LEMMA NobodyRuns == Nobody \notin Runs
BY DeliveryAssumption DEF Nobody, Runs, Updates

(* Messages before a message are messages too.                              *)
LEMMA Earlier == \A u \in Updates : u \in Nat /\ \A v \in Nat \ {0} : v < u => v \in Updates /\ v \in 1..(u - 1)
BY DeliveryAssumption DEF Updates

(* The answer of at most one run of a message is heard or awaited.          *)
LEMMA OneAnswer ==
    ASSUME NEW a \in Runs, NEW b \in Runs, UpdateOf(a) = UpdateOf(b),
           Heard(a) \/ Awaited(a), Heard(b) \/ Awaited(b)
    PROVE  a = b
<1>1. a = <<UpdateOf(a), a[2]>> /\ b = <<UpdateOf(b), b[2]>>
  BY RunUpdates
<1>2. a[2] = turn[UpdateOf(a)].call /\ b[2] = turn[UpdateOf(b)].call
  BY DEF Heard, Awaited
<1> QED
  BY <1>1, <1>2

(* At first no message has been sent.                                       *)
LEMMA InitInv == Init => IInv
<1> SUFFICES ASSUME Init PROVE IInv
  OBVIOUS
<1>1. \A a \in Runs : UpdateOf(a) \in Updates
  BY RunUpdates
<1>2. TypeOK
  <2>1. \A a \in Runs : NoRun(a) \in [pc: {"none", "sent", "read", "acted", "stored"} \cup Ended,
                         context: SUBSET Nat, says: Texts, kept: BOOLEAN]
    <3> SUFFICES ASSUME NEW a \in Runs
                 PROVE NoRun(a) \in [pc: {"none", "sent", "read", "acted", "stored"} \cup Ended,
                         context: SUBSET Nat, says: Texts, kept: BOOLEAN]
      OBVIOUS
    <3>1. Plain(UpdateOf(a), "info") \in Texts
      BY <1>1 DEF Plain, Texts
    <3> QED
      BY <3>1 DEF NoRun
  <2>2. run \in [Runs -> [pc: {"none", "sent", "read", "acted", "stored"} \cup Ended,
                         context: SUBSET Nat, says: Texts, kept: BOOLEAN]]
    BY <2>1 DEF Init
  <2>3. transcript = <<>> /\ visits = <<>> /\ late = {} /\ mishaps \in 0..MaxMishaps /\ wants \in Wishes
    BY DeliveryAssumption DEF Init
  <2>4. turn \in [Updates -> [pc: {"unsent", "queued", "calling"} \cup Settled, call: 0..2]]
    BY DEF Init
  <2> QED
    BY <2>2, <2>3, <2>4 DEF TypeOK
<1>3. \A u \in Updates : turn[u].pc = "unsent"
  BY DEF Init
<1>4. \A a \in Runs : run[a] = NoRun(a)
  BY DEF Init
<1>5. \A a \in Runs : ~Heard(a) /\ run[a].pc = "none" /\ ~run[a].kept /\ run[a].says.of = UpdateOf(a) /\ run[a].says.visit = 0
  <2> TAKE a \in Runs
  <2>1. ~Heard(a)
    BY <1>1, <1>3 DEF Heard, Is
  <2>2. run[a] = [pc |-> "none", context |-> {}, says |-> Plain(UpdateOf(a), "info"), kept |-> FALSE]
    BY <1>4 DEF NoRun
  <2> QED
    BY <2>1, <2>2 DEF Plain
<1>6. CallsCounted /\ InTurn /\ AnswersEnded /\ ContextsRead /\ KeptInPlace /\ ShownIsRemembered
  BY <1>3, <1>5 DEF CallsCounted, InTurn, AnswersEnded, ContextsRead, KeptInPlace, ShownIsRemembered,
                    Waiting, Is, At
<1>7. SaidTruly /\ SaidInOrder
  BY DEF Init, SaidTruly, SaidInOrder
<1> QED
  BY <1>2, <1>6, <1>7 DEF IInv

-----------------------------------------------------------------------------
(* The steps of the gateway *)

TurnRecord == [pc: {"unsent", "queued", "calling"} \cup Settled, call: 0..2]
RunRecord == [pc: {"none", "sent", "read", "acted", "stored"} \cup Ended,
              context: SUBSET Nat, says: Texts, kept: BOOLEAN]

(* What can become of a message in a step of the gateway, and what of the   *)
(* runs: one that has not begun may begin.                                  *)
Ends(u) ==
    /\ turn[u].pc \in {"queued", "calling"} /\ turn'[u].call = turn[u].call
    /\ \/ turn'[u].pc \in {"withheld", "unanswered"}
       \/ turn'[u].pc = "answered" /\ Waiting(u) /\ run[<<u, turn[u].call>>].pc \in Ended
Begins(u) ==
    /\ turn[u].pc \in {"queued", "calling"} /\ turn'[u].pc = "calling" /\ turn'[u].call \in {1, 2}
    /\ turn[u].pc = "calling" => turn[u].call <= turn'[u].call
    /\ run[<<u, turn'[u].call>>].pc = "none"
    /\ \A v \in 1..(u - 1) : turn[v].pc \in Settled
Moves(u) ==
    \/ turn'[u] = turn[u]
    \/ turn[u].pc = "unsent" /\ turn'[u].pc = "queued"
    \/ Ends(u)
    \/ Begins(u)
RunMoves(a) ==
    \/ run'[a] = run[a]
    \/ /\ run[a].pc = "none" /\ run'[a] = [run[a] EXCEPT !.pc = "sent"]
       /\ Begins(UpdateOf(a)) /\ turn'[UpdateOf(a)].call = a[2]

(* Such a step keeps the invariant.                                         *)
LEMMA GatewayStep ==
    ASSUME IInv, turn' \in [Updates -> TurnRecord], run' \in [Runs -> RunRecord],
           \A u \in Updates : Moves(u), \A a \in Runs : RunMoves(a),
           UNCHANGED <<wants, apiCore>>, mishaps' \in 0..MaxMishaps
    PROVE  IInv'
<1> USE DEF IInv
<1>1. UNCHANGED <<wants, transcript, visits, late>>
  BY DEF apiCore
<1>2. TypeOK'
  BY <1>1 DEF TypeOK, TurnRecord, RunRecord
<1>3. \A u \in Updates : turn[u].pc \in Settled => turn'[u] = turn[u]
  BY DEF Moves, Ends, Begins, Settled
<1>4. \A a \in Runs : /\ run'[a].kept = run[a].kept /\ run'[a].says = run[a].says
                      /\ run'[a].context = run[a].context
                      /\ run'[a].pc # run[a].pc => run[a].pc = "none" /\ run'[a].pc = "sent"
  BY DEF RunMoves, TypeOK
<1>5. CallsCounted'
  <2> SUFFICES ASSUME NEW a \in Runs, run'[a].pc # "none"
               PROVE turn'[UpdateOf(a)].pc \notin {"unsent", "queued"} /\ a[2] <= turn'[UpdateOf(a)].call
    BY DEF CallsCounted
  <2>1. UpdateOf(a) \in Updates /\ a[2] \in {1, 2}
    BY RunUpdates
  <2>0. PICK u \in Updates : u = UpdateOf(a)
    BY <2>1
  <2>2. CASE run[a].pc = "none"
    <3>1. Begins(u) /\ turn'[u].call = a[2]
      BY <2>0, <2>2 DEF RunMoves
    <3> QED
      BY <2>0, <2>1, <3>1 DEF Begins
  <2>3. CASE run[a].pc # "none"
    <3>1. turn[u].pc \notin {"unsent", "queued"} /\ a[2] <= turn[u].call
      BY <2>0, <2>3 DEF CallsCounted
    <3>2. Moves(u) /\ turn[u].call \in Nat /\ turn'[u].call \in Nat
      BY <2>1 DEF TypeOK, TurnRecord
    <3>3. CASE turn'[u] = turn[u]
      BY <2>0, <3>1, <3>3
    <3>4. CASE Ends(u)
      BY <2>0, <3>1, <3>4 DEF Ends
    <3>5. CASE Begins(u)
      <4>1. turn[u].pc = "calling" /\ turn[u].call <= turn'[u].call
        BY <3>1, <3>5 DEF Begins
      <4>2. turn'[u].pc = "calling"
        BY <3>5 DEF Begins
      <4> QED
        BY <2>0, <2>1, <3>1, <3>2, <4>1, <4>2
    <3> QED
      BY <2>0, <3>1, <3>2, <3>3, <3>4, <3>5 DEF Moves
  <2> QED
    BY <2>2, <2>3
<1>6. InTurn'
  <2>1. \A u \in Updates : \A v \in 1..(u - 1) : v \in Updates
    BY DeliveryAssumption DEF Updates
  <2>2. \A u \in Updates : turn'[u].pc = "calling" =>
          turn'[u].call \in {1, 2} /\ \A v \in 1..(u - 1) : turn[v].pc \in Settled
    <3> SUFFICES ASSUME NEW u \in Updates, turn'[u].pc = "calling"
                 PROVE turn'[u].call \in {1, 2} /\ \A v \in 1..(u - 1) : turn[v].pc \in Settled
      OBVIOUS
    <3>1. turn'[u] = turn[u] \/ Begins(u)
      BY DEF Moves, Ends
    <3> QED
      BY <3>1 DEF Begins, InTurn, Waiting, Is
  <2>3. \A a \in Runs : run'[a].pc # "none" => \A v \in 1..(UpdateOf(a) - 1) : turn[v].pc \in Settled
    BY DEF RunMoves, Begins, InTurn
  <2>4. \A u \in Updates : \A v \in 1..(u - 1) : turn[v].pc \in Settled => turn'[v].pc \in Settled
    BY <1>3, <2>1
  <2> QED
    BY <2>2, <2>3, <2>4, RunUpdates DEF InTurn, Waiting, Is
<1>7. \A c \in Runs : Heard(c)' =>
          Heard(c) \/ (Waiting(UpdateOf(c)) /\ Awaited(c) /\ run[c].pc \in Ended)
  <2> SUFFICES ASSUME NEW c \in Runs, Heard(c)', ~Heard(c)
               PROVE Waiting(UpdateOf(c)) /\ Awaited(c) /\ run[c].pc \in Ended
    OBVIOUS
  <2>1. UpdateOf(c) \in Updates /\ c = <<UpdateOf(c), c[2]>>
    BY RunUpdates
  <2>2. turn'[UpdateOf(c)] # turn[UpdateOf(c)] /\ turn'[UpdateOf(c)].pc = "answered" /\ turn'[UpdateOf(c)].call = c[2]
    BY DEF Heard, Is
  <2>3. Ends(UpdateOf(c))
    BY <2>1, <2>2 DEF Moves, Begins
  <2> QED
    BY <2>1, <2>2, <2>3 DEF Ends, Awaited
<1>8. \A c \in Runs : Awaited(c)' => Awaited(c) \/ run[c].pc = "none"
  <2> SUFFICES ASSUME NEW c \in Runs, Awaited(c)', run[c].pc # "none" PROVE Awaited(c)
    OBVIOUS
  <2>1. UpdateOf(c) \in Updates /\ c = <<UpdateOf(c), c[2]>>
    BY RunUpdates
  <2>2. turn'[UpdateOf(c)].pc = "calling" /\ turn'[UpdateOf(c)].call = c[2]
    BY DEF Awaited, Waiting, Is
  <2>3. ~Begins(UpdateOf(c))
    BY <2>1, <2>2 DEF Begins
  <2>4. turn'[UpdateOf(c)] = turn[UpdateOf(c)]
    BY <2>1, <2>2, <2>3 DEF Moves, Ends
  <2> QED
    BY <2>2, <2>4 DEF Awaited, Waiting, Is
<1>9. AnswersEnded'
  <2>1. \A c \in Runs : Heard(c)' => run[c].pc \in Ended
    BY <1>7 DEF AnswersEnded
  <2>2. \A a \in Runs : run[a].pc # "none" => run'[a].pc = run[a].pc
    BY <1>4
  <2>3. \A a \in Runs : (run[a].says.visit # 0 \/ run[a].kept) => run[a].pc # "none"
    BY DEF AnswersEnded, Acted, Ended
  <2>4. \A c \in Runs : Heard(c)' => run'[c].pc \in Ended
    BY <2>1, <2>2 DEF Ended
  <2> QED
    BY <1>4, <2>2, <2>3, <2>4 DEF AnswersEnded
<1>10. ContextsRead'
  BY <1>1, <1>4 DEF ContextsRead, At, Rows
<1>11. ASSUME NEW c \in Runs, NEW b \in Runs, Heard(c)', ~Heard(c), run[b].pc # "none"
       PROVE  UpdateOf(b) <= UpdateOf(c)
  <2>1. UpdateOf(c) \in Updates /\ UpdateOf(b) \in Updates /\ turn[UpdateOf(c)].pc = "calling"
    BY <1>7, <1>11, RunUpdates DEF Waiting, Is
  <2>2. UpdateOf(c) < UpdateOf(b) => UpdateOf(c) \in 1..(UpdateOf(b) - 1)
    BY <2>1, DeliveryAssumption DEF Updates
  <2>3. ~(UpdateOf(c) < UpdateOf(b))
    BY <1>11, <2>1, <2>2 DEF InTurn, Settled
  <2> QED
    BY <2>1, <2>3, DeliveryAssumption DEF Updates
<1>12. KeptInPlace'
  <2> SUFFICES ASSUME NEW b \in Runs, run'[b].kept, (Heard(b) \/ Awaited(b))' PROVE Placed(b)'
    BY DEF KeptInPlace
  <2>1. run[b].kept /\ run[b].pc # "none"
    BY <1>4 DEF AnswersEnded, Ended
  <2>2. Heard(b) \/ Awaited(b)
    BY <1>7, <1>8, <2>1
  <2>3. PICK i \in 1..Rows : InPlace(b, i)
    BY <2>1, <2>2 DEF KeptInPlace, Placed
  <2>4. ASSUME NEW j \in (i + 1)..Rows, transcript[j].by # b, Follows(transcript[j], b)
        PROVE  Follows(transcript[j], b)'
    <3>0. PICK c : c = transcript[j].by
      OBVIOUS
    <3> SUFFICES ASSUME c # Nobody, ~(UpdateOf(c) > UpdateOf(b)), Heard(c)' PROVE FALSE
      BY <1>1, <3>0 DEF Follows
    <3>1. c \in Runs /\ ~Heard(c)
      BY <2>4, <3>0 DEF Follows, Heard
    <3>2. UpdateOf(b) <= UpdateOf(c) /\ UpdateOf(b) \in Updates /\ UpdateOf(c) \in Updates
      BY <1>11, <2>1, <3>1, RunUpdates
    <3>3. UpdateOf(b) = UpdateOf(c)
      BY <3>2, DeliveryAssumption DEF Updates
    <3>4. Awaited(c)
      BY <1>7, <3>1
    <3> QED
      BY <2>2, <2>4, <3>0, <3>1, <3>3, <3>4, OneAnswer
  <2>5. InPlace(b, i)'
    BY <1>1, <1>4, <2>3, <2>4 DEF InPlace, Rows
  <2> QED
    BY <1>1, <2>5 DEF Placed, Rows
<1>13. ShownIsRemembered'
  <2> SUFFICES ASSUME NEW a \in Runs, NEW b \in Runs, At(a, "read")', run'[a].context # NoContext,
                      UpdateOf(b) < UpdateOf(a), Heard(b)', run'[b].kept
               PROVE  \/ run[b].says \in TextsAt(run[a].context)
                      \/ /\ Cardinality(run[a].context) = Window
                         /\ \A i \in run[a].context :
                               transcript[i].text = Question(UpdateOf(b)) \/ Follows(transcript[i], b)'
    BY <1>1, <1>4 DEF ShownIsRemembered, TextsAt, Follows
  <2>1. At(a, "read") /\ run[a].context # NoContext /\ run[b].kept
    BY <1>4 DEF At
  <2>2. UpdateOf(a) \in Nat /\ UpdateOf(b) \in Nat
    BY RunUpdates, Earlier
  <2>3. Heard(b)
    <3> SUFFICES ASSUME ~Heard(b) PROVE FALSE
      OBVIOUS
    <3>1. UpdateOf(a) <= UpdateOf(b)
      BY <1>11, <2>1 DEF At
    <3> QED
      BY <2>2, <3>1
  <2>4. ASSUME NEW i \in run[a].context, Follows(transcript[i], b) PROVE Follows(transcript[i], b)'
    <3>0. PICK c : c = transcript[i].by
      OBVIOUS
    <3> SUFFICES ASSUME c # Nobody, ~(UpdateOf(c) > UpdateOf(b)), Heard(c)' PROVE FALSE
      BY <1>1, <3>0 DEF Follows
    <3>1. c \in Runs /\ ~Heard(c)
      BY <2>4, <3>0 DEF Follows, Heard
    <3>2. UpdateOf(a) <= UpdateOf(c) /\ UpdateOf(c) \in Nat
      BY <1>11, <2>1, <3>1, RunUpdates, Earlier DEF At
    <3> QED
      BY <2>2, <3>2
  <2>5. \/ run[b].says \in TextsAt(run[a].context)
        \/ /\ Cardinality(run[a].context) = Window
           /\ \A i \in run[a].context :
                 transcript[i].text = Question(UpdateOf(b)) \/ Follows(transcript[i], b)
    BY <2>1, <2>3 DEF ShownIsRemembered
  <2> QED
    BY <2>4, <2>5
<1>14. SaidTruly'
  BY <1>1, <1>4 DEF SaidTruly, Acted, Ended
<1>15. SaidInOrder'
  <2> SUFFICES ASSUME NEW v \in DOMAIN visits, NEW a \in Runs, NEW c \in Runs, c = visits[v].by,
                      run[a].says.visit = v, UpdateOf(c) < UpdateOf(a), Heard(c)'
               PROVE FALSE
    BY <1>1, <1>4 DEF SaidInOrder
  <2>1. ~Heard(c)
    BY DEF SaidInOrder
  <2>2. run[a].pc # "none"
    <3>1. v # 0
      BY DEF TypeOK
    <3> QED
      BY <3>1 DEF AnswersEnded, Acted, Ended
  <2>3. UpdateOf(a) <= UpdateOf(c) /\ UpdateOf(a) \in Nat /\ UpdateOf(c) \in Nat
    BY <1>11, <2>1, <2>2, RunUpdates, Earlier
  <2> QED
    BY <2>3
<1> QED
  BY <1>2, <1>5, <1>6, <1>9, <1>10, <1>12, <1>13, <1>14, <1>15

(* A message whose state alone changes.                                     *)
LEMMA TurnStep ==
    ASSUME IInv, NEW u \in Updates, NEW pc \in {"queued", "withheld", "unanswered", "answered"},
           BecomeTurn(u, pc),
           \/ turn[u].pc = "unsent" /\ pc = "queued"
           \/ turn[u].pc \in {"queued", "calling"} /\ pc \in {"withheld", "unanswered"}
           \/ Waiting(u) /\ pc = "answered" /\ run[<<u, turn[u].call>>].pc \in Ended,
           UNCHANGED <<wants, run, apiCore>>, mishaps' \in 0..MaxMishaps
    PROVE  IInv'
<1>1. turn \in [Updates -> TurnRecord] /\ run \in [Runs -> RunRecord]
  BY DEF IInv, TypeOK, TurnRecord, RunRecord
<1>2. turn' = [turn EXCEPT ![u].pc = pc]
  BY DEF BecomeTurn
<1>3. turn' \in [Updates -> TurnRecord]
  BY <1>1, <1>2 DEF TurnRecord, Settled
<1>4. /\ turn'[u].pc = pc /\ turn'[u].call = turn[u].call
      /\ \A v \in Updates : v # u => turn'[v] = turn[v]
  BY <1>1, <1>2 DEF TurnRecord
<1>5. \A v \in Updates : Moves(v)
  BY <1>4 DEF Moves, Ends, Waiting, Is
<1>6. \A a \in Runs : RunMoves(a)
  BY DEF RunMoves
<1> QED
  BY <1>1, <1>3, <1>5, <1>6, GatewayStep

(* The first or the second call of a message.                               *)
LEMMA CallStep ==
    ASSUME IInv, NEW u \in Updates, NEW n \in {1, 2}, turn[u].pc \in {"queued", "calling"},
           \A v \in 1..(u - 1) : turn[v].pc \in Settled,
           turn[u].pc = "calling" => turn[u].call <= n,
           run[<<u, n>>].pc = "none",
           Call(u, n), UNCHANGED <<wants, apiCore>>, mishaps' \in 0..MaxMishaps
    PROVE  IInv'
<1>0. PICK b \in Runs : b = <<u, n>>
  BY DEF Runs
<1>1. turn \in [Updates -> TurnRecord] /\ run \in [Runs -> RunRecord]
  BY DEF IInv, TypeOK, TurnRecord, RunRecord
<1>2. /\ turn' = [turn EXCEPT ![u] = [pc |-> "calling", call |-> n]]
      /\ run' = [run EXCEPT ![b].pc = "sent"]
  BY <1>0 DEF Call
<1>3. turn' \in [Updates -> TurnRecord]
  BY <1>1, <1>2 DEF TurnRecord
<1>4. run' \in [Runs -> RunRecord]
  <2>1. run[b] \in RunRecord
    BY <1>1
  <2>2. [run[b] EXCEPT !.pc = "sent"] \in RunRecord
    BY <2>1 DEF RunRecord
  <2> QED
    BY <1>1, <1>2, <2>2
<1>5. /\ turn'[u].pc = "calling" /\ turn'[u].call = n
      /\ \A v \in Updates : v # u => turn'[v] = turn[v]
  BY <1>1, <1>2
<1>6. Begins(u)
  BY <1>0, <1>5 DEF Begins
<1>7. \A v \in Updates : Moves(v)
  BY <1>5, <1>6 DEF Moves
<1>8. \A a \in Runs : RunMoves(a)
  <2> TAKE a \in Runs
  <2>1. CASE a = b
    <3>1. UpdateOf(a) = u /\ a[2] = n
      BY <1>0, <2>1 DEF UpdateOf
    <3>2. run'[a] = [run[a] EXCEPT !.pc = "sent"]
      BY <1>1, <1>2, <2>1
    <3>3. run[a].pc = "none"
      BY <1>0, <2>1
    <3> QED
      BY <1>5, <1>6, <3>1, <3>2, <3>3 DEF RunMoves
  <2>2. CASE a # b
    BY <1>1, <1>2, <2>2 DEF RunMoves
  <2> QED
    BY <2>1, <2>2
<1> QED
  BY <1>3, <1>4, <1>7, <1>8, GatewayStep

(* Things come in between no more often than they may.                      *)
LEMMA MishapBound == TypeOK /\ (Mishap \/ UNCHANGED mishaps) => mishaps' \in 0..MaxMishaps
BY DeliveryAssumption DEF TypeOK, Mishap

LEMMA ArriveStep == ASSUME IInv, NEW u \in Updates, Arrive(u) PROVE IInv'
<1>1. turn[u].pc = "unsent" /\ BecomeTurn(u, "queued") /\ UNCHANGED <<wants, run, apiCore>>
  BY DEF Arrive, Is
<1>2. mishaps' \in 0..MaxMishaps
  BY MishapBound DEF Arrive, IInv
<1> QED
  BY <1>1, <1>2, TurnStep

LEMMA ServeStep == ASSUME IInv, NEW u \in Updates, Serve(u) PROVE IInv'
<1>1. turn[u].pc = "queued" /\ UNCHANGED <<wants, apiCore>> /\ \A v \in 1..(u - 1) : turn[v].pc \in Settled
  BY DEF Serve, Is, TurnOf
<1>2. mishaps' \in 0..MaxMishaps
  BY MishapBound DEF Serve, IInv
<1>3. CASE Stale(u)
  <2>1. BecomeTurn(u, "withheld") /\ UNCHANGED run
    BY <1>3 DEF Serve
  <2> QED
    BY <1>1, <1>2, <2>1, TurnStep
<1>4. CASE ~Stale(u)
  <2>1. <<u, 1>> \in Runs
    BY DEF Runs
  <2>2. run[<<u, 1>>].pc = "none"
    BY <1>1, <2>1 DEF IInv, CallsCounted, UpdateOf
  <2>3. Call(u, 1)
    BY <1>4 DEF Serve
  <2> QED
    BY <1>1, <1>2, <2>2, <2>3, CallStep
<1> QED
  BY <1>3, <1>4

LEMMA GiveUpStep == ASSUME IInv, NEW u \in Updates, GiveUp(u) PROVE IInv'
<1>1. turn[u].pc = "calling" /\ UNCHANGED <<wants, apiCore>>
  BY DEF GiveUp, Waiting, Is
<1>2. mishaps' \in 0..MaxMishaps
  BY MishapBound DEF GiveUp, IInv
<1>3. CASE turn[u].call = 1 /\ Call(u, 2)
  <2>1. <<u, 2>> \in Runs
    BY DEF Runs
  <2>2. run[<<u, 2>>].pc = "none"
    BY <1>3, <2>1 DEF IInv, CallsCounted, UpdateOf
  <2>3. \A v \in 1..(u - 1) : turn[v].pc \in Settled
    BY <1>1 DEF IInv, InTurn, Waiting, Is
  <2>4. turn[u].call <= 2
    BY <1>3
  <2> QED
    BY <1>1, <1>2, <1>3, <2>2, <2>3, <2>4, CallStep
<1>4. CASE BecomeTurn(u, IF Stale(u) THEN "withheld" ELSE "unanswered") /\ UNCHANGED run
  BY <1>1, <1>2, <1>4, TurnStep
<1> QED
  BY <1>3, <1>4 DEF GiveUp

LEMMA AnswerStep == ASSUME IInv, NEW u \in Updates, Answer(u) PROVE IInv'
<1>1. /\ Waiting(u) /\ turn[u].pc = "calling" /\ run[<<u, turn[u].call>>].pc \in Ended
      /\ UNCHANGED <<wants, run, apiCore>>
  BY DEF Answer, Waiting, Is
<1>2. mishaps' \in 0..MaxMishaps
  BY MishapBound DEF Answer, IInv
<1>3. PICK pc \in {"withheld", "unanswered", "answered"} : BecomeTurn(u, pc)
  BY DEF Answer
<1> QED
  BY <1>1, <1>2, <1>3, TurnStep

LEMMA RestartStep == ASSUME IInv, Restart PROVE IInv'
<1>1. turn \in [Updates -> TurnRecord] /\ run \in [Runs -> RunRecord]
  BY DEF IInv, TypeOK, TurnRecord, RunRecord
<1>2. \A u \in Updates :
        turn'[u] = IF turn[u].pc \in {"queued", "calling"} THEN [turn[u] EXCEPT !.pc = "unanswered"]
                   ELSE turn[u]
  BY DEF Restart
<1>3. turn' \in [Updates -> TurnRecord]
  <2>1. \A u \in Updates : turn'[u] \in TurnRecord
    BY <1>1, <1>2 DEF TurnRecord, Settled
  <2> QED
    BY <2>1 DEF Restart
<1>4. \A u \in Updates : Moves(u)
  BY <1>1, <1>2 DEF Moves, Ends, TurnRecord
<1>5. UNCHANGED <<wants, run, apiCore>> /\ \A a \in Runs : RunMoves(a)
  BY DEF Restart, RunMoves
<1>6. mishaps' \in 0..MaxMishaps
  BY MishapBound DEF Restart, IInv
<1> QED
  BY <1>1, <1>3, <1>4, <1>5, <1>6, GatewayStep

-----------------------------------------------------------------------------
(* What api-core stores *)

(* The transcript is added to, with rows of one and the same run.           *)
Extends(by) ==
    /\ transcript' \in Seq(Row) /\ Rows <= Rows'
    /\ \A i \in 1..Rows : transcript'[i] = transcript[i]
    /\ \A i \in 1..Rows' : i > Rows => transcript'[i].by = by

LEMMA Written ==
    ASSUME TypeOK, NEW texts \in Seq(Texts), NEW by \in Hands, Write(texts, by)
    PROVE  /\ Extends(by) /\ Rows' = Rows + Len(texts)
           /\ \A i \in 1..Len(texts) : transcript'[Rows + i].text = texts[i]
           /\ Len(texts) = 0 => Rows' = Rows
           /\ Len(texts) = 1 => Rows' = Rows + 1 /\ transcript'[Rows + 1].text = texts[1]
<1> DEFINE rows == [i \in 1..Len(texts) |-> [text |-> texts[i], by |-> by]]
<1>1. DOMAIN texts = 1..Len(texts) /\ Len(texts) \in Nat
  OBVIOUS
<1>2. \A i \in 1..Len(texts) : [text |-> texts[i], by |-> by] \in Row
  BY DEF Row
<1>3. rows \in Seq(Row) /\ Len(rows) = Len(texts)
  BY <1>1, <1>2
<1>4. transcript \in Seq(Row) /\ transcript' = transcript \o rows
  BY <1>1 DEF TypeOK, Row, Write
<1>5. \A i \in 1..Len(texts) : rows[i].text = texts[i] /\ rows[i].by = by
  OBVIOUS
<1> HIDE DEF rows
<1>6. transcript' \in Seq(Row) /\ Len(transcript') = Len(transcript) + Len(rows)
  BY <1>3, <1>4, ConcatProperties
<1>7. \A i \in 1..Len(transcript') :
         transcript'[i] = IF i <= Len(transcript) THEN transcript[i] ELSE rows[i - Len(transcript)]
  BY <1>3, <1>4, ConcatProperties, <1>6
<1>8. Len(transcript) \in Nat
  BY <1>4
<1>9. \A i \in 1..Len(transcript) : transcript'[i] = transcript[i]
  BY <1>3, <1>6, <1>7, <1>8
<1>10. \A i \in 1..Len(transcript') : i > Len(transcript) => transcript'[i].by = by
  BY <1>1, <1>3, <1>5, <1>6, <1>7, <1>8
<1>11. \A i \in 1..Len(texts) : transcript'[Len(transcript) + i].text = texts[i]
  <2> TAKE i \in 1..Len(texts)
  <2>1. Len(transcript) + i \in 1..Len(transcript') /\ ~(Len(transcript) + i <= Len(transcript))
    BY <1>1, <1>3, <1>6, <1>8
  <2>2. (Len(transcript) + i) - Len(transcript) = i
    BY <1>1, <1>8
  <2> QED
    BY <1>5, <1>7, <2>1, <2>2
<1> QED
  <2>1. Extends(by) /\ Rows' = Rows + Len(texts)
    BY <1>1, <1>3, <1>6, <1>8, <1>9, <1>10 DEF Extends, Rows
  <2>2. Rows = Len(transcript) /\ Rows' = Len(transcript') /\ Rows \in Nat
    BY <1>8 DEF Rows
  <2>3. Len(texts) = 1 => transcript'[Len(transcript) + 1].text = texts[1]
    BY <1>11
  <2> QED
    BY <1>11, <2>1, <2>2, <2>3

(* The texts of the newest row and of the newest two.                       *)
LEMMA NewestOne ==
    ASSUME TypeOK, NEW text, TextsAt(Newest(1)) = {text}
    PROVE  Rows \in Nat \ {0} /\ transcript[Rows].text = text
<1>1. Rows \in Nat /\ Newest(1) = {i \in 1..Rows : i > Rows - 1}
  BY DEF TypeOK, Rows, Newest
<1>2. PICK i \in Newest(1) : transcript[i].text = text
  BY DEF TextsAt
<1>3. i = Rows /\ Rows # 0
  BY <1>1, <1>2
<1> QED
  BY <1>1, <1>2, <1>3

LEMMA NewestTwo ==
    ASSUME TypeOK, NEW question, NEW answer, Rows >= 2, TextsAt(Newest(2)) = {question, answer}
    PROVE  /\ Rows \in Nat \ {0, 1}
           /\ \/ transcript[Rows].text = answer
              \/ transcript[Rows].text = question /\ transcript[Rows - 1].text = answer
<1>0. Rows \in Nat
  BY DEF TypeOK, Rows
<1>1. Rows \in Nat \ {0, 1} /\ Newest(2) = {i \in 1..Rows : i > Rows - 2}
  BY <1>0 DEF Newest
<1>2. Rows \in Newest(2)
  BY <1>1
<1>3. transcript[Rows].text \in {question, answer}
  BY <1>2 DEF TextsAt
<1>4. PICK i \in Newest(2) : transcript[i].text = answer
  BY DEF TextsAt
<1>5. i = Rows \/ i = Rows - 1
  BY <1>1, <1>4
<1> QED
  BY <1>1, <1>3, <1>4, <1>5

(* Once a turn is stored its answer stands in the transcript, and nothing   *)
(* after it but the question it belongs to.                                 *)
LEMMA TurnStored ==
    ASSUME TypeOK, NEW by \in Hands, NEW answer \in Texts, answer.of \in Updates, StoreTurn(answer, by)
    PROVE  /\ Extends(by)
           /\ \E i \in 1..Rows' :
                 /\ transcript'[i].text = answer
                 /\ \A j \in (i + 1)..Rows' : j = i + 1 /\ transcript'[j].text = Question(answer.of)
<1>0. PICK question \in Texts : question = Question(answer.of)
  BY DEF Question, Plain, Texts
<1>1. PICK rows \in TurnRows(answer) : Write(rows, by)
  BY DEF StoreTurn
<1>2. Rows \in Nat
  BY DEF TypeOK, Rows
<1>3. CASE Rows >= 2 /\ TextsAt(Newest(2)) = {question, answer}
  <2>1. rows = <<>> /\ rows \in Seq(Texts) /\ Len(rows) = 0
    BY <1>0, <1>1, <1>3 DEF TurnRows
  <2>2. Extends(by) /\ Rows' = Rows
    BY <1>1, <1>2, <2>1, Written
  <2>3. \A i \in 1..Rows : transcript'[i] = transcript[i]
    BY <2>2 DEF Extends
  <2>4. /\ Rows \in Nat \ {0, 1}
        /\ \/ transcript[Rows].text = answer
           \/ transcript[Rows].text = question /\ transcript[Rows - 1].text = answer
    BY <1>3, NewestTwo
  <2>5. CASE transcript[Rows].text = answer
    <3>1. Rows \in 1..Rows /\ transcript'[Rows].text = answer /\ (Rows + 1)..Rows = {}
      BY <2>3, <2>4, <2>5
    <3> QED
      BY <2>2, <3>1
  <2>6. CASE transcript[Rows].text = question /\ transcript[Rows - 1].text = answer
    <3>1. /\ Rows - 1 \in 1..Rows /\ transcript'[Rows - 1].text = answer
          /\ \A j \in ((Rows - 1) + 1)..Rows : j = (Rows - 1) + 1 /\ transcript'[j].text = question
      BY <2>3, <2>4, <2>6
    <3> QED
      BY <1>0, <2>2, <3>1
  <2> QED
    BY <2>4, <2>5, <2>6
<1>4. CASE rows = <<answer>>
  <2>1. rows \in Seq(Texts) /\ Len(rows) = 1 /\ rows[1] = answer
    BY <1>4
  <2>2. Extends(by) /\ Rows' = Rows + 1 /\ transcript'[Rows + 1].text = answer
    BY <1>1, <2>1, Written
  <2>3. Rows + 1 \in 1..(Rows + 1) /\ ((Rows + 1) + 1)..(Rows + 1) = {}
    BY <1>2
  <2> QED
    BY <2>2, <2>3
<1>5. CASE TextsAt(Newest(1)) = {answer} /\ rows = <<question>>
  <2>1. rows \in Seq(Texts) /\ Len(rows) = 1 /\ rows[1] = question
    BY <1>5
  <2>2. Extends(by) /\ Rows' = Rows + 1 /\ transcript'[Rows + 1].text = question
    BY <1>1, <2>1, Written
  <2>3. Rows \in 1..Rows /\ transcript[Rows].text = answer
    BY <1>5, NewestOne
  <2>4. transcript'[Rows].text = answer
    BY <2>2, <2>3 DEF Extends
  <2>5. Rows \in 1..(Rows + 1) /\ \A j \in (Rows + 1)..(Rows + 1) : j = Rows + 1
    BY <1>2, <2>3
  <2> QED
    BY <1>0, <2>2, <2>4, <2>5
<1>6. CASE rows = <<question, answer>>
  <2>1. rows \in Seq(Texts) /\ Len(rows) = 2 /\ rows[2] = answer
    BY <1>6
  <2>2. Extends(by) /\ Rows' = Rows + 2 /\ transcript'[Rows + 2].text = answer
    BY <1>1, <2>1, Written
  <2>3. Rows + 2 \in 1..(Rows + 2) /\ ((Rows + 2) + 1)..(Rows + 2) = {}
    BY <1>2
  <2> QED
    BY <2>2, <2>3
<1>7. CASE rows = <<answer, question>>
  <2>1. rows \in Seq(Texts) /\ Len(rows) = 2 /\ rows[1] = answer /\ rows[2] = question
    BY <1>7
  <2>2. /\ Extends(by) /\ Rows' = Rows + 2
        /\ transcript'[Rows + 1].text = answer /\ transcript'[Rows + 2].text = question
    BY <1>1, <2>1, Written
  <2>3. Rows + 1 \in 1..(Rows + 2) /\ \A j \in ((Rows + 1) + 1)..(Rows + 2) : j = (Rows + 1) + 1 /\ j = Rows + 2
    BY <1>2
  <2> QED
    BY <1>0, <2>2, <2>3
<1> QED
  BY <1>0, <1>1, <1>3, <1>4, <1>5, <1>6, <1>7 DEF TurnRows

LEMMA NotesStored ==
    ASSUME TypeOK, NEW u \in Updates, NEW by \in Hands, NEW rows \in NoteRows(u), Write(rows, by)
    PROVE  Extends(by)
<1>1. PICK question \in Texts : question = Question(u)
  BY DEF Question, Plain, Texts
<1>2. PICK first \in {<<>>, <<question>>}, second \in {<<>>, <<question>>} : rows = first \o second
  BY <1>1 DEF NoteRows
<1>0. <<>> \in Seq(Texts) /\ <<question>> \in Seq(Texts)
  OBVIOUS
<1>3. first \in Seq(Texts) /\ second \in Seq(Texts)
  BY <1>0, <1>2
<1>4. rows \in Seq(Texts)
  BY <1>2, <1>3, ConcatProperties
<1> QED
  BY <1>4, Written

Visit == [status: {"requested", "cancelled"}, by: Hands]
Requests == [of: Runs, kind: {"turn", "visit"}, done: BOOLEAN]

(* A request that is handled leaves the other visits as they are.           *)
LEMMA VisitHandled ==
    ASSUME TypeOK, NEW u \in Updates, NEW by \in Hands, NEW v \in Reached(wants[u]), Handle(u, v, by)
    PROVE  /\ v \in Nat \ {0} /\ visits' \in Seq(Visit) /\ v \in DOMAIN visits'
           /\ visits'[v].by = by /\ visits'[v].status = After(wants[u])
           /\ \A w \in DOMAIN visits' : w # v => w \in DOMAIN visits /\ visits'[w] = visits[w]
           /\ Extends(by)
<1>0. visits \in Seq(Visit) /\ Len(visits) \in Nat /\ DOMAIN visits = 1..Len(visits)
  BY DEF TypeOK, Visit
<1>1. PICK visit : visit = [status |-> After(wants[u]), by |-> by]
  OBVIOUS
<1>2. visit \in Visit /\ visit.by = by /\ visit.status = After(wants[u])
  BY <1>1 DEF Visit, After
<1>3. v \in DOMAIN visits \/ v = Len(visits) + 1
  BY <1>0 DEF Reached
<1>4. visits' = IF v \in DOMAIN visits THEN [visits EXCEPT ![v] = visit] ELSE Append(visits, visit)
  BY <1>1 DEF Handle
<1>5. /\ visits' \in Seq(Visit) /\ v \in DOMAIN visits' /\ visits'[v] = visit
      /\ \A w \in DOMAIN visits' : w # v => w \in DOMAIN visits /\ visits'[w] = visits[w]
  <2>1. CASE v \in DOMAIN visits
    BY <1>0, <1>2, <1>4, <2>1, ExceptSeq
  <2>2. CASE v \notin DOMAIN visits
    <3>1. visits' = Append(visits, visit) /\ v = Len(visits) + 1
      BY <1>3, <1>4, <2>2
    <3> QED
      BY <1>0, <1>2, <3>1, AppendProperties
  <2> QED
    BY <2>1, <2>2
<1>6. Extends(by)
  <2>1. CASE UNCHANGED transcript
    <3>1. transcript \in Seq(Row) /\ Rows \in Nat /\ Rows' = Rows
      BY <2>1 DEF TypeOK, Row, Rows
    <3> QED
      BY <2>1, <3>1 DEF Extends
  <2>2. CASE \E rows \in NoteRows(u) : Write(rows, by)
    BY <2>2, NotesStored
  <2> QED
    BY <2>1, <2>2 DEF Handle
<1> QED
  BY <1>0, <1>2, <1>3, <1>5, <1>6

LEMMA Unextended == ASSUME TypeOK, UNCHANGED transcript, NEW by \in Hands PROVE Extends(by)
<1>1. transcript \in Seq(Row) /\ Rows \in Nat /\ Rows' = Rows
  BY DEF TypeOK, Row, Rows
<1> QED
  BY <1>1 DEF Extends

(* How a run goes on: what it says of a visit it has done itself, what is   *)
(* confirmed is in its place, and what it reads is what is stored.          *)
Proceeds(a) ==
    /\ run[a].pc \notin {"none"} \cup Ended
    /\ run'[a].pc # "none"
    /\ run[a].pc \in Acted => run'[a].pc \in Acted
    /\ run'[a].kept => /\ run'[a].pc \in {"stored"} \cup Ended
                       /\ Placed(a)' \/ (run[a].kept /\ run'[a].says = run[a].says /\ UNCHANGED transcript)
    /\ run'[a].says.of = UpdateOf(a)
    /\ \/ run'[a].says = run[a].says
       \/ run'[a].says.visit = 0
       \/ run[a].pc = "read" /\ run'[a].pc = "acted" /\ visits'[run'[a].says.visit].by = a
    /\ run'[a].pc = "read" => run'[a].context \in {Newest(Window), NoContext} /\ UNCHANGED transcript

(* A visit that is handled in this step is handled for this run.            *)
Keeps(v, by) ==
    \/ v \in DOMAIN visits /\ visits'[v] = visits[v]
    \/ /\ visits'[v].by = by
       /\ by \in Runs => /\ run[by].pc = "read" /\ run'[by].pc = "acted"
                         /\ run'[by].says.visit = v /\ run'[by].says.status = visits'[v].status

(* A step of a run, or of api-core on nobody's account, keeps the invariant.*)
LEMMA DataStep ==
    ASSUME IInv, NEW by \in Hands, UNCHANGED <<wants, turn>>, run' \in [Runs -> RunRecord],
           Extends(by), visits' \in Seq(Visit), late' \subseteq Requests, mishaps' \in 0..MaxMishaps,
           \A b \in Runs : b # by => run'[b] = run[b],
           by \in Runs => Proceeds(by),
           \A v \in DOMAIN visits' : Keeps(v, by)
    PROVE  IInv'
<1> USE DEF IInv
<1>1. TypeOK'
  BY DEF TypeOK, Extends, Row, RunRecord, Visit, Requests
<1>2. \A b \in Runs \cup {Nobody} : (Heard(b)' <=> Heard(b)) /\ (Awaited(b)' <=> Awaited(b))
  BY DEF Heard, Awaited, Waiting, Is
<1>3. by \in Runs => ~Heard(by)
  BY DEF Proceeds, AnswersEnded
<1>4. CallsCounted' /\ InTurn'
  BY DEF CallsCounted, InTurn, Waiting, Is, Proceeds
<1>5. AnswersEnded'
  <2> SUFFICES ASSUME NEW b \in Runs
               PROVE /\ Heard(b) => run'[b].pc \in Ended
                     /\ run'[b].kept => run'[b].pc \in {"stored"} \cup Ended
                     /\ run'[b].says.of = UpdateOf(b)
                     /\ run'[b].says.visit # 0 => run'[b].pc \in Acted
    BY <1>2 DEF AnswersEnded
  <2>1. CASE b = by
    BY <1>3, <2>1 DEF Proceeds, AnswersEnded, Acted
  <2>2. CASE b # by
    BY <2>2 DEF AnswersEnded
  <2> QED
    BY <2>1, <2>2
<1>6. /\ Rows \in Nat /\ Rows' \in Nat /\ Rows <= Rows'
      /\ \A i \in 1..Rows : i \in 1..Rows' /\ transcript'[i] = transcript[i]
      /\ \A i \in 1..Rows' : i > Rows => transcript'[i].by = by
  BY DEF Extends, TypeOK, Rows
<1>7. ContextsRead'
  <2> SUFFICES ASSUME NEW a \in Runs, run'[a].pc = "read", run'[a].context # NoContext
               PROVE run'[a].context \subseteq 1..Rows'
    BY DEF ContextsRead, At
  <2>1. CASE a = by
    <3>1. run'[a].context = Newest(Window)
      BY <2>1 DEF Proceeds
    <3>2. Newest(Window) \subseteq 1..Rows
      BY DEF Newest
    <3> QED
      BY <1>6, <3>1, <3>2
  <2>2. CASE a # by
    <3>1. run[a].context \subseteq 1..Rows /\ run'[a].context = run[a].context
      BY <2>2 DEF ContextsRead, At
    <3> QED
      BY <1>6, <3>1
  <2> QED
    BY <2>1, <2>2
<1>8. ASSUME NEW row, NEW b \in Runs PROVE Follows(row, b)' <=> Follows(row, b)
  <2>1. row.by \in Runs => (Heard(row.by)' <=> Heard(row.by))
    BY <1>2
  <2>2. row.by \notin Runs => ~Heard(row.by)' /\ ~Heard(row.by)
    BY DEF Heard
  <2> QED
    BY <2>1, <2>2 DEF Follows
<1>9. ASSUME NEW b \in Runs, b # by, Placed(b) PROVE Placed(b)'
  <2>1. PICK i \in 1..Rows : InPlace(b, i)
    BY <1>9 DEF Placed
  <2>2. run'[b].says = run[b].says
    BY <1>9
  <2>3. ASSUME NEW j \in (i + 1)..Rows'
        PROVE  \/ j = i + 1 /\ transcript'[j].text = Question(UpdateOf(b))
               \/ transcript'[j].by # b /\ Follows(transcript'[j], b)
    <3>1. CASE j <= Rows
      <4>1. j \in (i + 1)..Rows /\ transcript'[j] = transcript[j]
        BY <1>6, <2>1, <3>1
      <4> QED
        BY <2>1, <4>1 DEF InPlace
    <3>2. CASE ~(j <= Rows)
      <4>1. transcript'[j].by = by
        BY <1>6, <2>1, <3>2
      <4>2. by = Nobody \/ ~Heard(by)
        BY <1>3 DEF Hands
      <4> QED
        BY <1>9, <4>1, <4>2 DEF Follows
    <3> QED
      BY <3>1, <3>2
  <2>4. /\ i \in 1..Rows' /\ transcript'[i].text = run'[b].says
        /\ \A j \in (i + 1)..Rows' :
              \/ j = i + 1 /\ transcript'[j].text = Question(UpdateOf(b))
              \/ transcript'[j].by # b /\ Follows(transcript[j], b)'
    <3>1. \A j \in (i + 1)..Rows' : Follows(transcript[j], b)' <=> Follows(transcript'[j], b)
      <4> TAKE j \in (i + 1)..Rows'
      <4>1. PICK row : row = transcript'[j]
        OBVIOUS
      <4>2. Follows(transcript[j], b)' <=> Follows(row, b)'
        BY <4>1 DEF Follows
      <4> QED
        BY <1>8, <4>1, <4>2
    <3> QED
      BY <1>6, <2>1, <2>2, <2>3, <3>1 DEF InPlace
  <2> QED
    BY <2>4 DEF Placed, InPlace
<1>10. KeptInPlace'
  <2> SUFFICES ASSUME NEW b \in Runs, run'[b].kept, Heard(b) \/ Awaited(b) PROVE Placed(b)'
    BY <1>2 DEF KeptInPlace
  <2>1. CASE b # by
    BY <1>9, <2>1 DEF KeptInPlace
  <2>2. CASE b = by
    <3>1. Placed(b)' \/ (run[b].kept /\ run'[b].says = run[b].says /\ UNCHANGED transcript)
      BY <2>2 DEF Proceeds
    <3>2. CASE run[b].kept /\ run'[b].says = run[b].says /\ UNCHANGED transcript
      <4>1. Placed(b)
        BY <3>2 DEF KeptInPlace
      <4>2. PICK i \in 1..Rows : InPlace(b, i)
        BY <4>1 DEF Placed
      <4>3. Rows' = Rows /\ transcript' = transcript
        BY <3>2 DEF Rows
      <4>4. \A j \in (i + 1)..Rows : Follows(transcript[j], b) => Follows(transcript[j], b)'
        BY <1>8, <4>3 DEF Follows
      <4>5. InPlace(b, i)'
        BY <3>2, <4>2, <4>3, <4>4 DEF InPlace
      <4> QED
        BY <4>3, <4>5 DEF Placed
    <3> QED
      BY <3>1, <3>2
  <2> QED
    BY <2>1, <2>2
<1>11. SaidTruly'
  <2> SUFFICES ASSUME NEW v \in DOMAIN visits', NEW c \in Runs, c = visits'[v].by
               PROVE  /\ run'[c].pc \in Acted
                      /\ run'[c].says.visit = v => run'[c].says.status = visits'[v].status
    BY DEF SaidTruly
  <2>1. CASE v \in DOMAIN visits /\ visits'[v] = visits[v]
    <3>1. run[c].pc \in Acted /\ (run[c].says.visit = v => run[c].says.status = visits[v].status)
      BY <2>1 DEF SaidTruly
    <3>2. v # 0
      BY <2>1 DEF TypeOK
    <3>3. CASE c = by
      BY <2>1, <3>1, <3>2, <3>3 DEF Proceeds, Acted, Ended
    <3> QED
      BY <2>1, <3>1, <3>3
  <2>2. CASE ~(v \in DOMAIN visits /\ visits'[v] = visits[v])
    BY <2>2 DEF Keeps, Acted
  <2> QED
    BY <2>1, <2>2
<1>12. SaidInOrder'
  <2> SUFFICES ASSUME NEW v \in DOMAIN visits', NEW c \in Runs, c = visits'[v].by, NEW a \in Runs,
                      run'[a].says.visit = v, UpdateOf(c) < UpdateOf(a), Heard(c)
               PROVE  FALSE
    BY <1>2 DEF SaidInOrder
  <2>0. c # a /\ v # 0
    BY RunUpdates, Earlier
  <2>1. v \in DOMAIN visits /\ visits'[v] = visits[v]
    BY <1>3 DEF Keeps
  <2>2. CASE a # by
    BY <2>1, <2>2 DEF SaidInOrder
  <2>3. CASE a = by
    <3>1. run'[a].says = run[a].says
      BY <2>0, <2>3 DEF Proceeds
    <3> QED
      BY <2>1, <3>1 DEF SaidInOrder
  <2> QED
    BY <2>2, <2>3
<1>13. ShownIsRemembered'
  <2> SUFFICES ASSUME NEW a \in Runs, NEW b \in Runs, run'[a].pc = "read", run'[a].context # NoContext,
                      UpdateOf(b) < UpdateOf(a), Heard(b), run'[b].kept
               PROVE  \/ run'[b].says \in {transcript'[i].text : i \in run'[a].context}
                      \/ /\ Cardinality(run'[a].context) = Window
                         /\ \A i \in run'[a].context :
                               transcript'[i].text = Question(UpdateOf(b)) \/ Follows(transcript[i], b)'
    BY <1>2 DEF ShownIsRemembered, At, TextsAt
  <2>1. b # by /\ run'[b] = run[b]
    BY <1>3
  <2>2. CASE a # by
    <3>1. run'[a] = run[a] /\ run[a].context \subseteq 1..Rows
      BY <2>2 DEF ContextsRead, At
    <3>2. \/ run[b].says \in {transcript[i].text : i \in run[a].context}
          \/ /\ Cardinality(run[a].context) = Window
             /\ \A i \in run[a].context :
                   transcript[i].text = Question(UpdateOf(b)) \/ Follows(transcript[i], b)
      BY <2>1, <3>1 DEF ShownIsRemembered, At, TextsAt
    <3>3. \A i \in run[a].context : transcript'[i] = transcript[i]
      BY <1>6, <3>1
    <3>4. \A i \in run[a].context : Follows(transcript[i], b) => Follows(transcript[i], b)'
      BY <1>8, <3>3 DEF Follows
    <3> QED
      BY <2>1, <3>1, <3>2, <3>3, <3>4
  <2>3. CASE a = by
    <3>1. run'[a].context = Newest(Window) /\ transcript' = transcript
      BY <2>3 DEF Proceeds
    <3>2. Placed(b)
      BY <2>1 DEF KeptInPlace
    <3>3. PICK i \in 1..Rows : InPlace(b, i)
      BY <3>2 DEF Placed
    <3>4. Window \in Nat /\ Newest(Window) = {j \in 1..Rows : j > Rows - Window}
      BY DeliveryAssumption DEF Newest
    <3>5. CASE i > Rows - Window
      BY <2>1, <3>1, <3>3, <3>4, <3>5 DEF InPlace
    <3>6. CASE ~(i > Rows - Window)
      <4>1. Newest(Window) = (Rows - Window + 1)..Rows
        BY <1>6, <3>4, <3>6
      <4>2. Cardinality((Rows - Window + 1)..Rows) = Window
        <5>1. Rows - Window + 1 \in Int /\ Rows \in Int
          BY <1>6, <3>4
        <5>2. Cardinality((Rows - Window + 1)..Rows) =
                IF Rows - Window + 1 > Rows THEN 0 ELSE Rows - (Rows - Window + 1) + 1
          BY <5>1, FS_Interval
        <5> QED
          BY <1>6, <3>4, <5>2
      <4>3. \A j \in Newest(Window) : j \in (i + 1)..Rows
        BY <1>6, <3>4, <3>6
      <4>4. \A j \in Newest(Window) :
               transcript[j].text = Question(UpdateOf(b)) \/ Follows(transcript[j], b)
        BY <3>3, <4>3 DEF InPlace
      <4>5. \A j \in Newest(Window) : Follows(transcript[j], b) => Follows(transcript[j], b)'
        BY <1>8, <3>1 DEF Follows
      <4> QED
        BY <3>1, <4>1, <4>2, <4>4, <4>5
    <3> QED
      BY <3>5, <3>6
  <2> QED
    BY <2>2, <2>3
<1> QED
  BY <1>1, <1>4, <1>5, <1>7, <1>10, <1>11, <1>12, <1>13

-----------------------------------------------------------------------------
(* The steps of a run *)

(* What a run becomes when it goes on with an answer, or has stored it.     *)
LEMMA Going ==
    ASSUME TypeOK, NEW a \in Runs, NEW pc \in {"acted"} \cup Ended, NEW answer \in Texts, Go(a, pc, answer)
    PROVE  /\ run' \in [Runs -> RunRecord]
           /\ run'[a].pc = pc /\ run'[a].says = answer /\ run'[a].kept = run[a].kept
           /\ \A b \in Runs : b # a => run'[b] = run[b]
<1>1. run \in [Runs -> RunRecord]
  BY DEF TypeOK, RunRecord
<1>2. PICK before \in RunRecord : before = run[a]
  BY <1>1
<1>3. PICK next : next = [before EXCEPT !.pc = pc, !.context = {}, !.says = answer]
  OBVIOUS
<1>4. next \in RunRecord /\ next.pc = pc /\ next.says = answer /\ next.kept = before.kept
  BY <1>3 DEF RunRecord
<1>5. run' = [run EXCEPT ![a] = next]
  BY <1>2, <1>3 DEF Go
<1> QED
  BY <1>1, <1>2, <1>4, <1>5

LEMMA Storing ==
    ASSUME TypeOK, NEW a \in Runs, NEW kept \in BOOLEAN, EndStoring(a, kept)
    PROVE  /\ run' \in [Runs -> RunRecord]
           /\ run'[a].pc = "stored" /\ run'[a].says = run[a].says /\ run'[a].kept = kept
           /\ \A b \in Runs : b # a => run'[b] = run[b]
<1>1. run \in [Runs -> RunRecord]
  BY DEF TypeOK, RunRecord
<1>2. PICK before \in RunRecord : before = run[a]
  BY <1>1
<1>3. PICK next : next = [before EXCEPT !.pc = "stored", !.context = {}, !.kept = kept]
  OBVIOUS
<1>4. next \in RunRecord /\ next.pc = "stored" /\ next.says = before.says /\ next.kept = kept
  BY <1>3 DEF RunRecord
<1>5. run' = [run EXCEPT ![a] = next]
  BY <1>2, <1>3 DEF EndStoring
<1> QED
  BY <1>1, <1>2, <1>4, <1>5

(* What the tables are when a request is not handled.                       *)
LEMMA Untouched ==
    ASSUME TypeOK, NEW by \in Hands
    PROVE  /\ visits \in Seq(Visit) /\ late \subseteq Requests
           /\ UNCHANGED transcript => Extends(by)
           /\ UNCHANGED visits => visits' \in Seq(Visit) /\ \A v \in DOMAIN visits' : Keeps(v, by)
<1>1. visits \in Seq(Visit) /\ late \subseteq Requests
  BY DEF TypeOK, Visit, Requests
<1>2. UNCHANGED transcript => Extends(by)
  BY Unextended
<1>3. UNCHANGED visits => \A v \in DOMAIN visits' : Keeps(v, by)
  BY DEF Keeps
<1> QED
  BY <1>1, <1>2, <1>3

(* What a run can say: that it failed, what it did, what it said before.    *)
LEMMA Sayings ==
    ASSUME TypeOK, AnswersEnded, NEW a \in Runs
    PROVE  /\ Sorry(a) \in Texts /\ Sorry(a).of = UpdateOf(a) /\ Sorry(a).visit = 0
           /\ run[a].says \in Texts /\ run[a].says.of = UpdateOf(a)
           /\ UpdateOf(a) \in Updates
           /\ \A v \in Nat : /\ Outcome(UpdateOf(a), v) \in Texts
                             /\ Outcome(UpdateOf(a), v).of = UpdateOf(a)
                             /\ Outcome(UpdateOf(a), v).visit = v
                             /\ Outcome(UpdateOf(a), v).status = After(wants[UpdateOf(a)])
<1>1. UpdateOf(a) \in Updates
  BY RunUpdates
<1>2. Sorry(a) \in Texts /\ Sorry(a).of = UpdateOf(a) /\ Sorry(a).visit = 0
  BY <1>1 DEF Sorry, Plain, Texts
<1>3. run[a].says \in Texts /\ run[a].says.of = UpdateOf(a)
  BY DEF TypeOK, AnswersEnded
<1>4. After(wants[UpdateOf(a)]) \in {"requested", "cancelled"}
  BY DEF After
<1> QED
  BY <1>1, <1>2, <1>3, <1>4 DEF Outcome, Texts

LEMMA ReadStep == ASSUME IInv, NEW a \in Runs, ReadContext(a) PROVE IInv'
<1>1. TypeOK /\ AnswersEnded /\ a \in Hands
  BY DEF IInv, Hands
<1>2. PICK rows \in {Newest(Window), NoContext} :
         /\ run' = [run EXCEPT ![a] = [@ EXCEPT !.pc = "read", !.context = rows]]
         /\ IF rows = NoContext THEN Mishap ELSE UNCHANGED mishaps
  BY DEF ReadContext
<1>3. run \in [Runs -> RunRecord] /\ run[a].pc = "sent" /\ UNCHANGED <<wants, turn, transcript, visits, late>>
  BY <1>1 DEF TypeOK, RunRecord, ReadContext, At, apiCore
<1>4. mishaps' \in 0..MaxMishaps
  BY <1>1, <1>2, MishapBound
<1>5. rows \subseteq Nat
  <2>1. Rows \in Nat
    BY <1>1 DEF TypeOK, Rows
  <2> QED
    BY <1>2, <2>1 DEF Newest, NoContext
<1>6. run'[a] = [run[a] EXCEPT !.pc = "read", !.context = rows]
  BY <1>2, <1>3
<1>7. run'[a] \in RunRecord
  <2>1. PICK before \in RunRecord : before = run[a]
    BY <1>3
  <2>2. [before EXCEPT !.pc = "read", !.context = rows] \in RunRecord
    BY <1>5 DEF RunRecord
  <2> QED
    BY <1>6, <2>1, <2>2
<1>8. run' \in [Runs -> RunRecord] /\ \A b \in Runs : b # a => run'[b] = run[b]
  BY <1>2, <1>3, <1>6, <1>7
<1>9. run'[a].pc = "read" /\ run'[a].context = rows /\ run'[a].says = run[a].says /\ run'[a].kept = run[a].kept
  BY <1>3, <1>6 DEF RunRecord
<1>10. Proceeds(a)
  <2>1. ~run[a].kept /\ run[a].says.of = UpdateOf(a)
    BY <1>1, <1>3 DEF AnswersEnded, Ended
  <2> QED
    BY <1>2, <1>3, <1>9, <2>1 DEF Proceeds, Ended, Acted
<1>11. /\ visits' \in Seq(Visit) /\ Extends(a) /\ late' \subseteq Requests
       /\ \A v \in DOMAIN visits' : Keeps(v, a)
  BY <1>1, <1>3, Untouched
<1> QED
  BY <1>1, <1>3, <1>4, <1>8, <1>10, <1>11, DataStep

LEMMA ActStep == ASSUME IInv, NEW a \in Runs, Act(a) PROVE IInv'
<1>1. TypeOK /\ AnswersEnded /\ a \in Hands
  BY DEF IInv, Hands
<1>2. run[a].pc = "read" /\ UNCHANGED <<wants, turn>> /\ ~run[a].kept
  <2>1. run[a].pc = "read" /\ UNCHANGED <<wants, turn>>
    BY DEF Act, Acts, At
  <2> QED
    BY <1>1, <2>1 DEF AnswersEnded, Ended
<1>3. CASE \E v \in Reached(wants[UpdateOf(a)]) :
             /\ Handle(UpdateOf(a), v, a)
             /\ Go(a, "acted", Outcome(UpdateOf(a), v))
             /\ UNCHANGED <<late, mishaps>>
  <2>1. PICK v \in Reached(wants[UpdateOf(a)]) :
             /\ Handle(UpdateOf(a), v, a)
             /\ Go(a, "acted", Outcome(UpdateOf(a), v))
             /\ UNCHANGED <<late, mishaps>>
    BY <1>3
  <2>2. UpdateOf(a) \in Updates
    BY RunUpdates
  <2>3. /\ v \in Nat \ {0} /\ visits' \in Seq(Visit) /\ v \in DOMAIN visits'
        /\ visits'[v].by = a /\ visits'[v].status = After(wants[UpdateOf(a)])
        /\ \A w \in DOMAIN visits' : w # v => w \in DOMAIN visits /\ visits'[w] = visits[w]
        /\ Extends(a)
    BY <1>1, <2>1, <2>2, VisitHandled
  <2>4. PICK answer \in Texts : /\ answer = Outcome(UpdateOf(a), v) /\ answer.of = UpdateOf(a)
                               /\ answer.visit = v /\ answer.status = After(wants[UpdateOf(a)])
    BY <1>1, <2>3, Sayings
  <2>5. /\ run' \in [Runs -> RunRecord] /\ run'[a].pc = "acted" /\ run'[a].says = answer
        /\ run'[a].kept = run[a].kept /\ \A b \in Runs : b # a => run'[b] = run[b]
    BY <1>1, <2>1, <2>4, Going
  <2>6. Proceeds(a)
    BY <1>2, <2>3, <2>4, <2>5 DEF Proceeds, Ended, Acted
  <2>7. \A w \in DOMAIN visits' : Keeps(w, a)
    BY <1>2, <2>3, <2>4, <2>5 DEF Keeps
  <2>8. mishaps' \in 0..MaxMishaps /\ late' \subseteq Requests
    BY <1>1, <2>1, MishapBound, Untouched
  <2> QED
    BY <1>1, <1>2, <2>3, <2>5, <2>6, <2>7, <2>8, DataStep
<1>4. CASE /\ Go(a, "acted", Sorry(a)) /\ UNCHANGED <<transcript, visits>>
           /\ mishaps' \in 0..MaxMishaps /\ late' \subseteq Requests
  <2>1. PICK answer \in Texts : answer = Sorry(a) /\ answer.of = UpdateOf(a) /\ answer.visit = 0
    BY <1>1, Sayings
  <2>2. /\ run' \in [Runs -> RunRecord] /\ run'[a].pc = "acted" /\ run'[a].says = answer
        /\ run'[a].kept = run[a].kept /\ \A b \in Runs : b # a => run'[b] = run[b]
    BY <1>1, <1>4, <2>1, Going
  <2>3. Proceeds(a)
    BY <1>2, <2>1, <2>2 DEF Proceeds, Ended, Acted
  <2>4. Extends(a) /\ visits' \in Seq(Visit) /\ \A v \in DOMAIN visits' : Keeps(v, a)
    BY <1>1, <1>4, Untouched
  <2> QED
    BY <1>1, <1>2, <1>4, <2>2, <2>3, <2>4, DataStep
<1>5. late \subseteq Requests
  BY <1>1, Untouched
<1>6. CASE /\ Go(a, "acted", Sorry(a))
           /\ IF Reached(wants[UpdateOf(a)]) = {} THEN UNCHANGED mishaps ELSE Mishap
           /\ UNCHANGED apiCore
  <2>1. mishaps' \in 0..MaxMishaps
    BY <1>1, <1>6, MishapBound
  <2> QED
    BY <1>4, <1>5, <1>6, <2>1 DEF apiCore
<1>7. CASE Ask(a, "visit") /\ Go(a, "acted", Sorry(a)) /\ UNCHANGED <<transcript, visits>>
  <2>1. mishaps' \in 0..MaxMishaps
    BY <1>1, <1>7, MishapBound DEF Ask
  <2>2. [of |-> a, kind |-> "visit", done |-> FALSE] \in Requests
    BY DEF Requests
  <2>3. late' \subseteq Requests
    BY <1>5, <1>7, <2>2 DEF Ask
  <2> QED
    BY <1>4, <1>7, <2>1, <2>3
<1> QED
  BY <1>3, <1>6, <1>7 DEF Act

LEMMA CrashStep == ASSUME IInv, NEW a \in Runs, Crash(a) PROVE IInv'
<1>1. TypeOK /\ AnswersEnded /\ a \in Hands
  BY DEF IInv, Hands
<1>2. run[a].pc \in {"read", "acted"} /\ UNCHANGED <<wants, turn, transcript, visits, late>>
  BY DEF Crash, apiCore
<1>3. PICK answer \in Texts : answer = Sorry(a) /\ answer.of = UpdateOf(a) /\ answer.visit = 0
  BY <1>1, Sayings
<1>4. /\ run' \in [Runs -> RunRecord] /\ run'[a].pc = "acted" /\ run'[a].says = answer
      /\ run'[a].kept = run[a].kept /\ \A b \in Runs : b # a => run'[b] = run[b]
  BY <1>1, <1>3, Going DEF Crash
<1>5. ~run[a].kept
  BY <1>1, <1>2 DEF AnswersEnded, Ended
<1>6. Proceeds(a)
  BY <1>2, <1>3, <1>4, <1>5 DEF Proceeds, Ended, Acted
<1>7. /\ visits' \in Seq(Visit) /\ Extends(a) /\ late' \subseteq Requests
      /\ \A v \in DOMAIN visits' : Keeps(v, a)
  BY <1>1, <1>2, Untouched
<1>8. mishaps' \in 0..MaxMishaps
  BY <1>1, MishapBound DEF Crash
<1> QED
  BY <1>1, <1>2, <1>4, <1>6, <1>7, <1>8, DataStep

LEMMA StoreStep == ASSUME IInv, NEW a \in Runs, Store(a) PROVE IInv'
<1>1. TypeOK /\ AnswersEnded /\ a \in Hands
  BY DEF IInv, Hands
<1>2. run[a].pc \in {"read", "acted"} /\ UNCHANGED <<wants, turn, visits>>
  BY DEF Store, ReadyToStore, At
<1>3. PICK answer \in Texts : answer = run[a].says /\ answer.of = UpdateOf(a) /\ UpdateOf(a) \in Updates
  BY <1>1, Sayings
<1>4. visits' \in Seq(Visit) /\ \A v \in DOMAIN visits' : Keeps(v, a)
  BY <1>1, <1>2, Untouched
<1>5. late \subseteq Requests
  BY <1>1, Untouched
<1>6. Mishap \/ UNCHANGED mishaps => mishaps' \in 0..MaxMishaps
  BY <1>1, MishapBound
<1>7. CASE StoreTurn(run[a].says, a) /\ EndStoring(a, TRUE) /\ UNCHANGED <<late, mishaps>>
  <2>1. /\ run' \in [Runs -> RunRecord] /\ run'[a].pc = "stored" /\ run'[a].says = answer
        /\ run'[a].kept = TRUE /\ \A b \in Runs : b # a => run'[b] = run[b]
    BY <1>1, <1>3, <1>7, Storing
  <2>2. /\ Extends(a)
        /\ \E i \in 1..Rows' :
              /\ transcript'[i].text = answer
              /\ \A j \in (i + 1)..Rows' : j = i + 1 /\ transcript'[j].text = Question(answer.of)
    BY <1>1, <1>3, <1>7, TurnStored
  <2>3. PICK i \in 1..Rows' :
           /\ transcript'[i].text = answer
           /\ \A j \in (i + 1)..Rows' : j = i + 1 /\ transcript'[j].text = Question(answer.of)
    BY <2>2
  <2>4. InPlace(a, i)'
    BY <1>3, <2>1, <2>3 DEF InPlace
  <2>5. Placed(a)'
    BY <2>4 DEF Placed
  <2>6. Proceeds(a)
    BY <1>2, <1>3, <2>1, <2>5 DEF Proceeds, Ended, Acted
  <2>7. late' \subseteq Requests /\ mishaps' \in 0..MaxMishaps
    BY <1>5, <1>6, <1>7
  <2> QED
    BY <1>1, <1>2, <1>4, <2>1, <2>2, <2>6, <2>7, DataStep
<1>8. CASE EndStoring(a, FALSE) /\ UNCHANGED transcript /\ late' \subseteq Requests /\ Mishap
  <2>1. /\ run' \in [Runs -> RunRecord] /\ run'[a].pc = "stored" /\ run'[a].says = answer
        /\ run'[a].kept = FALSE /\ \A b \in Runs : b # a => run'[b] = run[b]
    BY <1>1, <1>3, <1>8, Storing
  <2>2. Proceeds(a)
    BY <1>2, <1>3, <2>1 DEF Proceeds, Ended, Acted
  <2>3. Extends(a)
    BY <1>1, <1>8, Untouched
  <2>4. mishaps' \in 0..MaxMishaps /\ late' \subseteq Requests
    BY <1>6, <1>8
  <2> QED
    BY <1>1, <1>2, <1>4, <2>1, <2>2, <2>3, <2>4, DataStep
<1>9. CASE EndStoring(a, FALSE) /\ Mishap /\ UNCHANGED <<transcript, late>>
  BY <1>5, <1>8, <1>9
<1>10. CASE Ask(a, "turn") /\ EndStoring(a, FALSE) /\ UNCHANGED transcript
  <2>1. [of |-> a, kind |-> "turn", done |-> FALSE] \in Requests
    BY DEF Requests
  <2>2. late' \subseteq Requests /\ Mishap
    BY <1>5, <1>10, <2>1 DEF Ask
  <2> QED
    BY <1>8, <1>10, <2>2
<1> QED
  BY <1>7, <1>9, <1>10 DEF Store

LEMMA ReplyStep == ASSUME IInv, NEW a \in Runs, Reply(a) PROVE IInv'
<1>1. TypeOK /\ AnswersEnded /\ a \in Hands
  BY DEF IInv, Hands
<1>2. run[a].pc = "stored" /\ UNCHANGED <<wants, turn, transcript, visits, late>>
  BY DEF Reply, At, apiCore
<1>3. PICK pc \in Ended : Go(a, pc, run[a].says) /\ (Mishap \/ UNCHANGED mishaps)
  BY DEF Reply, Ended
<1>4. run[a].says \in Texts /\ run[a].says.of = UpdateOf(a)
  BY <1>1, Sayings
<1>5. /\ run' \in [Runs -> RunRecord] /\ run'[a].pc = pc /\ run'[a].says = run[a].says
      /\ run'[a].kept = run[a].kept /\ \A b \in Runs : b # a => run'[b] = run[b]
  BY <1>1, <1>3, <1>4, Going
<1>6. Proceeds(a)
  BY <1>2, <1>4, <1>5 DEF Proceeds, Ended, Acted
<1>7. /\ visits' \in Seq(Visit) /\ Extends(a) /\ late' \subseteq Requests
      /\ \A v \in DOMAIN visits' : Keeps(v, a)
  BY <1>1, <1>2, Untouched
<1>8. mishaps' \in 0..MaxMishaps
  BY <1>1, <1>3, MishapBound
<1> QED
  BY <1>1, <1>2, <1>5, <1>6, <1>7, <1>8, DataStep

-----------------------------------------------------------------------------
(* What api-core does on nobody's account *)

LEMMA LandStep == ASSUME IInv, NEW r \in late, Land(r) PROVE IInv'
<1>1. TypeOK /\ AnswersEnded /\ Nobody \in Hands /\ Nobody \notin Runs
  BY NobodyRuns DEF IInv, Hands
<1>2. /\ late' = (late \ {r}) \cup {[r EXCEPT !.done = TRUE]}
      /\ UNCHANGED <<wants, run, turn, mishaps>>
  BY DEF Land
<1>3. r \in Requests /\ late \subseteq Requests
  BY <1>1, Untouched
<1>4. r.of \in Runs /\ [r EXCEPT !.done = TRUE] \in Requests
  BY <1>3 DEF Requests
<1>5. late' \subseteq Requests
  BY <1>2, <1>3, <1>4
<1>6. run' \in [Runs -> RunRecord] /\ mishaps' \in 0..MaxMishaps
  BY <1>1, <1>2 DEF TypeOK, RunRecord
<1>7. PICK answer \in Texts : answer = run[r.of].says /\ answer.of \in Updates
  BY <1>1, <1>4, Sayings
<1>8. CASE StoreTurn(run[r.of].says, Nobody) /\ UNCHANGED visits
  <2>1. Extends(Nobody)
    BY <1>1, <1>7, <1>8, TurnStored
  <2>2. visits' \in Seq(Visit) /\ \A v \in DOMAIN visits' : Keeps(v, Nobody)
    BY <1>1, <1>8, Untouched
  <2> QED
    BY <1>1, <1>2, <1>5, <1>6, <2>1, <2>2, DataStep
<1>9. CASE \E v \in Reached(wants[UpdateOf(r.of)]) : Handle(UpdateOf(r.of), v, Nobody)
  <2>1. PICK u \in Updates : u = UpdateOf(r.of)
    BY <1>4, RunUpdates
  <2>2. PICK v \in Reached(wants[u]) : Handle(u, v, Nobody)
    BY <1>9, <2>1
  <2>3. /\ visits' \in Seq(Visit) /\ v \in DOMAIN visits' /\ visits'[v].by = Nobody
        /\ \A w \in DOMAIN visits' : w # v => w \in DOMAIN visits /\ visits'[w] = visits[w]
        /\ Extends(Nobody)
    BY <1>1, <2>2, VisitHandled
  <2>4. \A w \in DOMAIN visits' : Keeps(w, Nobody)
    BY <1>1, <2>3 DEF Keeps
  <2> QED
    BY <1>1, <1>2, <1>5, <1>6, <2>3, <2>4, DataStep
<1> QED
  BY <1>8, <1>9 DEF Land

LEMMA NoteStep == ASSUME IInv, Note PROVE IInv'
<1>1. TypeOK /\ Nobody \in Hands /\ Nobody \notin Runs
  BY NobodyRuns DEF IInv, Hands
<1>2. Mishap /\ Write(<<Plain(0, "note")>>, Nobody) /\ UNCHANGED <<wants, run, turn, visits, late>>
  BY DEF Note
<1>3. Plain(0, "note") \in Texts
  BY DEF Plain, Texts
<1>4. <<Plain(0, "note")>> \in Seq(Texts)
  BY <1>3
<1>5. Extends(Nobody)
  BY <1>1, <1>2, <1>4, Written
<1>6. run' \in [Runs -> RunRecord] /\ mishaps' \in 0..MaxMishaps /\ late' \subseteq Requests
  BY <1>1, <1>2, MishapBound, Untouched DEF TypeOK, RunRecord
<1>7. visits' \in Seq(Visit) /\ \A v \in DOMAIN visits' : Keeps(v, Nobody)
  BY <1>1, <1>2, Untouched
<1> QED
  BY <1>1, <1>2, <1>5, <1>6, <1>7, DataStep

-----------------------------------------------------------------------------

LEMMA StepInv == IInv /\ [Next]_vars => IInv'
<1> SUFFICES ASSUME IInv, [Next]_vars PROVE IInv'
  OBVIOUS
<1>1. ASSUME NEW u \in Updates, Arrive(u) \/ Serve(u) \/ GiveUp(u) \/ Answer(u) PROVE IInv'
  BY <1>1, ArriveStep, ServeStep, GiveUpStep, AnswerStep
<1>2. ASSUME NEW a \in Runs, RunStep(a) PROVE IInv'
  BY <1>2, ReadStep, ActStep, CrashStep, StoreStep, ReplyStep DEF RunStep
<1>3. ASSUME NEW r \in late, Land(r) PROVE IInv'
  BY <1>3, LandStep
<1>4. CASE Note \/ Restart
  BY <1>4, NoteStep, RestartStep
<1>5. CASE UNCHANGED vars
  <2>1. /\ UNCHANGED <<wants, turn, run, transcript, visits, late, mishaps>>
        /\ mishaps' \in 0..MaxMishaps /\ UNCHANGED apiCore
    BY <1>5 DEF vars, apiCore, IInv, TypeOK
  <2>2. turn' \in [Updates -> TurnRecord] /\ run' \in [Runs -> RunRecord]
    BY <2>1 DEF IInv, TypeOK, TurnRecord, RunRecord
  <2>3. (\A u \in Updates : Moves(u)) /\ (\A a \in Runs : RunMoves(a))
    BY <2>1 DEF Moves, RunMoves
  <2> QED
    BY <2>1, <2>2, <2>3, GatewayStep
<1> QED
  BY <1>1, <1>2, <1>3, <1>4, <1>5 DEF Next

LEMMA Invariant == Spec => []IInv
BY InitInv, StepInv, PTL DEF Spec

(* The state has the types TypeOK gives it, whatever comes in between.      *)
THEOREM TypeCorrect == Spec => []TypeOK
<1>1. IInv => TypeOK
  BY DEF IInv
<1> QED
  BY <1>1, Invariant, PTL

(* An answer the user got, and api-core confirmed, is in the context a      *)
(* later message is answered with, or the context is full of what was       *)
(* stored since: for any length of the context.                             *)
THEOREM RemembersShown == Spec => []ShownIsRemembered
<1>1. IInv => ShownIsRemembered
  BY DEF IInv
<1> QED
  BY <1>1, Invariant, PTL

(* A visit is as the user last read it is, or the user has not read what    *)
(* was done to it last: for any number of messages, runs given up and late  *)
(* requests.                                                                *)
THEOREM ToldOfVisit == Spec => []VisitAsTold
<1>1. IInv => VisitAsTold
  <2> SUFFICES ASSUME IInv, NEW v \in DOMAIN visits, NEW a \in Runs, NEW c, c = visits[v].by,
                      LastTold(a, v), Told(c, v)
               PROVE  visits[v].status = run[a].says.status
    BY DEF VisitAsTold
  <2>1. c \in Runs /\ Heard(c) /\ run[c].says.visit = v /\ Heard(a) /\ run[a].says.visit = v
    BY DEF LastTold, Told, Heard
  <2>2. UpdateOf(c) <= UpdateOf(a) /\ UpdateOf(a) \in Nat /\ UpdateOf(c) \in Nat
    BY <2>1, RunUpdates, Earlier DEF LastTold
  <2>3. ~(UpdateOf(c) < UpdateOf(a))
    BY <2>1 DEF IInv, SaidInOrder
  <2>4. UpdateOf(c) = UpdateOf(a)
    BY <2>2, <2>3
  <2>5. a = c
    BY <2>1, <2>4, OneAnswer
  <2> QED
    BY <2>1, <2>5 DEF IInv, SaidTruly
<1> QED
  BY <1>1, Invariant, PTL
=============================================================================
