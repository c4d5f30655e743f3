--------------------------- MODULE TelegramGateway ---------------------------
(***************************************************************************)
(* The Telegram webhook of telegram-gateway and the tasks it starts.       *)
(*                                                                         *)
(* The gateway is one process with one event loop: what runs between two   *)
(* awaits is one step.  Telegram delivers updates in any order, several at *)
(* a time, and repeats an update until it has had a 2xx response for it.   *)
(* All tables are in memory and are lost in a restart.                     *)
(***************************************************************************)
EXTENDS Naturals, Sequences, FiniteSets

CONSTANTS
    Chats, Updates,              \* update ids are ordered and name one message each
    chatOf, kind,                \* chat and kind of each update
    DedupeLimit, LatestLimit, LockLimit,   \* sizes of the three tables
    LongSilences,                \* whether table entries can reach their time to live
    MaxRuns,                     \* bound on how often one update is accepted
    MaxRestarts                  \* bound on restarts of the process

Kinds == {"text", "graphrag", "usage", "link", "other"}

ASSUME GatewayAssumption ==
    /\ Updates \subseteq Nat /\ IsFiniteSet(Updates)
    /\ chatOf \in [Updates -> Chats]
    /\ kind \in [Updates -> Kinds]
    /\ DedupeLimit \in Nat \ {0} /\ LatestLimit \in Nat \ {0} /\ LockLimit \in Nat \ {0}
    /\ LongSilences \in BOOLEAN
    /\ MaxRuns \in Nat \ {0} /\ MaxRestarts \in Nat

VARIABLES
    pending,    \* updates Telegram has had no 2xx response for
    seen,       \* _RECENT_TELEGRAM_UPDATE_IDS, oldest first
    latest,     \* _LATEST_TELEGRAM_UPDATE_BY_CHAT, oldest key first
    locks,      \* _TELEGRAM_CHAT_PROCESSING_LOCKS, oldest key first
    waiters,    \* the tasks waiting for each lock object, first come first
    task,       \* where the handling of an update is, and the lock it uses
    answers,    \* history: per chat, the updates whose final message was delivered
                \* in this life of the process
    restarts

vars == <<pending, seen, latest, locks, waiters, task, answers, restarts>>
tables == <<seen, latest, locks>>

(* The handling of an update that was accepted for the n-th time; a lock    *)
(* object is named by the task that created it.                             *)
Tasks == Updates \X (1..MaxRuns)
NoLock == <<>>
UpdateOf(k) == k[1]
ChatOfTask(k) == chatOf[UpdateOf(k)]

Handling == {"acking", "linking", "confirming"}      \* inside the webhook handler
Inside == {"calling", "recalling", "sending", "sendingPlain", "fallback", "notice"}
Ended == {"replied", "superseded", "dropped"}
Idle == [pc |-> "none", lock |-> NoLock]

Init ==
    /\ pending = Updates
    /\ seen = <<>> /\ latest = <<>> /\ locks = <<>>
    /\ waiters = [k \in Tasks |-> <<>>]
    /\ task = [k \in Tasks |-> Idle]
    /\ answers = [c \in Chats |-> <<>>]
    /\ restarts = 0

-----------------------------------------------------------------------------
(* Ordered dictionaries: sequences of [key, val], oldest key first.         *)

Has(d, key) == \E i \in DOMAIN d : d[i].key = key
ValueAt(d, key) == d[CHOOSE i \in DOMAIN d : d[i].key = key].val
Put(d, key, val) ==
    IF Has(d, key)
    THEN [i \in DOMAIN d |-> IF d[i].key = key THEN [key |-> key, val |-> val] ELSE d[i]]
    ELSE Append(d, [key |-> key, val |-> val])
Dropped(d, n) == SubSeq(d, n + 1, Len(d))
Newest(d, limit) == IF Len(d) > limit THEN Dropped(d, Len(d) - limit) ELSE d

Keys(d) == {d[i].key : i \in DOMAIN d}

Entries(d) == {d[i] : i \in DOMAIN d}
InOrderOf(d, e) ==
    \A i, j \in DOMAIN e : i < j =>
        \E m, n \in DOMAIN d : m < n /\ e[i] = d[m] /\ e[j] = d[n]

(* What is left of a table when some of the entries named by old expire.    *)
Unexpired(d, old) ==
    IF ~LongSilences THEN {d}
    ELSE {e \in UNION {[1..n -> Entries(d)] : n \in 0..Len(d)} :
             InOrderOf(d, e) /\ \A x \in Entries(d) \ Entries(e) : x.key \in old}

-----------------------------------------------------------------------------
(* _consume_telegram_update_id: identifiers expire oldest first.            *)
Remembered == {Dropped(seen, n) : n \in IF LongSilences THEN 0..Len(seen) ELSE {0}}
Known(u, ids) == \E i \in DOMAIN ids : ids[i] = u
(* Variant: old identifiers are never dropped.                              *)
RecordedUnbounded(u, ids) == Append(ids, u)
Recorded(u, ids) == Newest(Append(ids, u), DedupeLimit)

(* _mark_latest_chat_update: an older update does not replace a newer one.  *)
Marked(u, d) ==
    Newest(IF Has(d, chatOf[u]) /\ u < ValueAt(d, chatOf[u]) THEN d ELSE Put(d, chatOf[u], u),
           LatestLimit)

(* Variants of _is_stale_chat_update: never stale, and the newest is stale. *)
StaleNever(u) == FALSE
StaleOrNewest(u) == Has(latest, chatOf[u]) /\ u <= ValueAt(latest, chatOf[u])

(* _is_stale_chat_update *)
Stale(u) == Has(latest, chatOf[u]) /\ u < ValueAt(latest, chatOf[u])

-----------------------------------------------------------------------------
(* asyncio.Lock: a released lock is free until its first waiter runs, and   *)
(* nobody overtakes the waiters.                                            *)
Locked(l) == \E k \in Tasks : task[k].lock = l /\ task[k].pc \in Inside

(* _get_chat_processing_lock: keys are dropped from the oldest on while the *)
(* table is too long, up to the first one whose lock is held.  A lock that  *)
(* is waited for was handed out or touched less than its time to live ago,  *)
(* as every call made under a lock times out in less than ten minutes.      *)
InUse(l) == \E k \in Tasks : task[k].lock = l
IdleKeys == {c \in Keys(locks) : ~InUse(ValueAt(locks, c))}
Evicted(d) ==
    LET n == CHOOSE n \in 0..Len(d) :
                /\ \A i \in 1..n : ~Locked(d[i].val) /\ Len(d) - i >= LockLimit
                /\ n + 1 \in DOMAIN d => Locked(d[n + 1].val) \/ Len(d) - n <= LockLimit
    IN Dropped(d, n)

(* Variant: every task makes its own lock.                                  *)
ChatLockAlwaysNew(k, d) == k
ChatLock(k, d) == IF Has(d, ChatOfTask(k)) THEN ValueAt(d, ChatOfTask(k)) ELSE k

Is(k, pc) == task[k].pc = pc
Become(k, pc, l) == task' = [task EXCEPT ![k] = [pc |-> pc, lock |-> l]]
End(k, how) == Become(k, how, NoLock)           \* leaves async with: the lock is released

(* What a task does right after it acquired l: it may find itself stale.    *)
Enter(k, l) == IF Stale(UpdateOf(k)) THEN End(k, "superseded") ELSE Become(k, "calling", l)

-----------------------------------------------------------------------------
(* POST /webhooks/telegram *)

(* The handler returns; its response reaches Telegram or is lost.           *)
Respond(u) == pending' \in {pending, pending \ {u}}

IgnoreDuplicate(u) ==
    /\ u \in pending
    /\ \E ids \in Remembered : Known(u, ids) /\ seen' = ids
    /\ Respond(u)
    /\ UNCHANGED <<latest, locks, waiters, task, answers, restarts>>

(* The identifier is consumed before anything else is done with the update. *)
Consume(u) ==
    /\ u \in pending
    /\ \E ids \in Remembered : ~Known(u, ids) /\ seen' = Recorded(u, ids)

Mark(u) == \E d \in Unexpired(latest, Keys(latest)) : latest' = Marked(u, d)

(* A task for update u, the first time it is free.                          *)
IsNextTask(k, u) ==
    /\ UpdateOf(k) = u /\ task[k] = Idle
    /\ \A j \in Tasks : UpdateOf(j) = u /\ j[2] < k[2] => task[j] # Idle

(* Other messages, and /graphrag without a question, start no task.         *)
AcceptAside(u) ==
    /\ kind[u] \in {"usage", "other"}
    /\ Consume(u)
    /\ IF kind[u] = "usage" THEN Mark(u) ELSE UNCHANGED latest
    /\ Respond(u)
    /\ UNCHANGED <<locks, waiters, task, answers, restarts>>

AcceptText(u, k) ==
    /\ kind[u] = "text" /\ IsNextTask(k, u)
    /\ Consume(u) /\ Mark(u)
    /\ Become(k, "queued", NoLock)
    /\ Respond(u)
    /\ UNCHANGED <<locks, waiters, answers, restarts>>

(* The acknowledgement is sent before the response and before the task.     *)
AcceptGraphRag(u, k) ==
    /\ kind[u] = "graphrag" /\ IsNextTask(k, u)
    /\ Consume(u) /\ Mark(u)
    /\ Become(k, "acking", NoLock)
    /\ UNCHANGED <<pending, locks, waiters, answers, restarts>>

EnqueueGraphRag(k) ==
    /\ Is(k, "acking")
    /\ Become(k, "queued", NoLock)
    /\ Respond(UpdateOf(k))
    /\ UNCHANGED <<tables, waiters, answers, restarts>>

(* A link code is consumed inside the handler and marks no chat.            *)
AcceptLink(u, k) ==
    /\ kind[u] = "link" /\ IsNextTask(k, u)
    /\ Consume(u)
    /\ Become(k, "linking", NoLock)
    /\ UNCHANGED <<pending, latest, locks, waiters, answers, restarts>>

(* A status error is reported to the user; any other error of the call      *)
(* leaves the handler, and Telegram gets a 500.                             *)
ConsumeLinkCode(k) ==
    /\ Is(k, "linking")
    /\ \/ Become(k, "confirming", NoLock)
       \/ End(k, "dropped")
    /\ UNCHANGED <<pending, tables, waiters, answers, restarts>>

ConfirmLink(k) ==
    /\ Is(k, "confirming")
    /\ End(k, "replied")
    /\ Respond(UpdateOf(k))
    /\ UNCHANGED <<tables, waiters, answers, restarts>>

-----------------------------------------------------------------------------
(* _process_telegram_text_message and _process_explicit_graphrag_message    *)

RequestLock(k) ==
    /\ Is(k, "queued")
    /\ \E live \in Unexpired(locks, IdleKeys) :
         LET l == ChatLock(k, live) IN
         /\ locks' = Evicted(Put(live, ChatOfTask(k), l))
         /\ IF ~Locked(l) /\ waiters[l] = <<>>
            THEN Enter(k, l) /\ UNCHANGED waiters
            ELSE Become(k, "waiting", l) /\ waiters' = [waiters EXCEPT ![l] = Append(@, k)]
    /\ UNCHANGED <<pending, seen, latest, answers, restarts>>

AcquireLock(k) ==
    LET l == task[k].lock IN
    /\ Is(k, "waiting")
    /\ Head(waiters[l]) = k
    /\ ~Locked(l)
    /\ waiters' = [waiters EXCEPT ![l] = Tail(@)]
    /\ Enter(k, l)
    /\ UNCHANGED <<pending, tables, answers, restarts>>

(* Variant: a failed retry starts over.                                     *)
AfterHttpErrorAgain(k) ==
    IF kind[UpdateOf(k)] = "graphrag" THEN "notice"
    ELSE IF Is(k, "calling") THEN "recalling" ELSE "calling"

(* An HTTP error: one retry, then the fallback; GraphRAG is not retried.    *)
AfterHttpError(k) ==
    IF kind[UpdateOf(k)] = "graphrag" THEN "notice"
    ELSE IF Is(k, "calling") THEN "recalling" ELSE "fallback"

(* The orchestrator answers, fails with an HTTP error, or the answer cannot *)
(* be processed: then GraphRAG tells the user and the text task just ends.  *)
OrchestratorReturns(k) ==
    LET next(pc) == IF pc \in {"sending", "fallback"} /\ Stale(UpdateOf(k))
                    THEN End(k, "superseded")
                    ELSE Become(k, pc, task[k].lock)
    IN
    /\ task[k].pc \in {"calling", "recalling"}
    /\ \/ next("sending")
       \/ next(AfterHttpError(k))
       \/ IF kind[UpdateOf(k)] = "graphrag" THEN next("notice") ELSE End(k, "dropped")
    /\ UNCHANGED <<pending, tables, waiters, answers, restarts>>

(* _send_telegram_message, with its own retry: delivered, refused, or       *)
(* uncertain, which is not repeated; a refused keyboard is sent without.    *)
Send(k) ==
    /\ task[k].pc \in {"sending", "sendingPlain", "fallback", "notice"}
    /\ \/ /\ End(k, "replied")
          /\ answers' \in {answers, [answers EXCEPT ![ChatOfTask(k)] = Append(@, UpdateOf(k))]}
       \/ /\ Is(k, "sending") /\ kind[UpdateOf(k)] = "text"
          /\ Become(k, "sendingPlain", task[k].lock)
          /\ UNCHANGED answers
    /\ UNCHANGED <<pending, tables, waiters, restarts>>

Restart ==
    /\ restarts < MaxRestarts
    /\ restarts' = restarts + 1
    /\ seen' = <<>> /\ latest' = <<>> /\ locks' = <<>>
    /\ waiters' = [k \in Tasks |-> <<>>]
    /\ task' = [k \in Tasks |-> IF task[k] = Idle THEN Idle
                                ELSE [pc |-> "dropped", lock |-> NoLock]]
    /\ answers' = [c \in Chats |-> <<>>]
    /\ UNCHANGED pending

-----------------------------------------------------------------------------
TaskStep(k) ==
    \/ EnqueueGraphRag(k) \/ ConsumeLinkCode(k) \/ ConfirmLink(k)
    \/ RequestLock(k) \/ AcquireLock(k) \/ OrchestratorReturns(k) \/ Send(k)

Next ==
    \/ \E u \in Updates :
          \/ IgnoreDuplicate(u) \/ AcceptAside(u)
          \/ \E k \in Tasks : AcceptText(u, k) \/ AcceptGraphRag(u, k) \/ AcceptLink(u, k)
    \/ \E k \in Tasks : TaskStep(k)
    \/ Restart

Spec == Init /\ [][Next]_vars

(* Every await of a task ends: HTTP calls time out, the event loop runs     *)
(* every ready task.  Nothing is assumed of Telegram.                       *)
FairSpec == Spec /\ \A k \in Tasks : WF_vars(TaskStep(k))

-----------------------------------------------------------------------------
(* Properties *)

TableOf(keys, vals) == Seq([key: keys, val: vals])

TypeOK ==
    /\ pending \subseteq Updates
    /\ seen \in Seq(Updates) /\ Len(seen) <= DedupeLimit
    /\ latest \in TableOf(Chats, Updates) /\ Len(latest) <= LatestLimit
    /\ locks \in TableOf(Chats, Tasks)
    /\ waiters \in [Tasks -> Seq(Tasks)]
    /\ task \in [Tasks -> [pc: {"none", "queued", "waiting"} \cup Handling \cup Inside \cup Ended,
                           lock: Tasks \cup {NoLock}]]
    /\ answers \in [Chats -> Seq(Updates)]
    /\ restarts \in 0..MaxRestarts

(* The service catalogue's "serialization per chat": at most one task of a  *)
(* chat is past its lock.                                                   *)
SerializedPerChat ==
    \A j, k \in Tasks :
        task[j].pc \in Inside /\ task[k].pc \in Inside /\ ChatOfTask(j) = ChatOfTask(k) => j = k

(* However Telegram orders and repeats the updates, between two restarts    *)
(* the final messages of a chat are delivered in the order of the updates   *)
(* they answer, and no update is answered twice, as long as the tables have *)
(* room and nothing comes later than the 15 minutes they remember it.       *)
AnswersInOrder ==
    \A c \in Chats : \A i, j \in DOMAIN answers[c] : i < j => answers[c][i] < answers[c][j]

(* A task gives up its answer only in favour of a newer message of the chat *)
(* that is itself not given up: the newest message is never left without a  *)
(* reply on the ground of being stale.                                      *)
SupersededByLiveUpdate ==
    \A k \in Tasks : Is(k, "superseded") =>
        \/ \E j \in Tasks : /\ ChatOfTask(j) = ChatOfTask(k)
                            /\ UpdateOf(k) < UpdateOf(j)
                            /\ task[j].pc \notin {"none", "superseded"}
        \/ \E u \in Updates : /\ kind[u] = "usage" /\ chatOf[u] = ChatOfTask(k)
                              /\ UpdateOf(k) < u /\ Known(u, seen)

(* A task that started ends: it is not starved of the lock of its chat and  *)
(* does not retry for ever.                                                 *)
EveryTaskEnds ==
    \A k \in Tasks : (task[k].pc \notin Ended \cup {"none"}) ~> (task[k].pc \in Ended)
=============================================================================
