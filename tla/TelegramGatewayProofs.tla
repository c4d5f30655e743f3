-------------------------- MODULE TelegramGatewayProofs --------------------------
(***************************************************************************)
(* For any number of updates, repetitions, restarts and expiries: the      *)
(* tables and queues are well formed, nobody is left waiting for a free    *)
(* lock, and no task goes back.  As long as the lock table has room for    *)
(* every chat, the tasks of a chat are past their lock one at a time; as   *)
(* long as no table forgets anything, a chat is answered in order; and a   *)
(* task gives up only for one that goes on.                                *)
(***************************************************************************)
EXTENDS TelegramGateway, FiniteSetTheorems, NaturalsInduction, WellFoundedInduction, TLAPS

Room == IsFiniteSet(Chats) /\ Cardinality(Chats) <= LockLimit

UniqueKeys(d) == \A i, j \in DOMAIN d : d[i].key = d[j].key => i = j
Row(V) == [key: Chats, val: V]
Table(V) == Seq(Row(V))

(* A task that has a lock or waits for it, and the lock its chat has in the *)
(* table.                                                                   *)
Locking(k) == task[k].pc \in Inside \cup {"waiting"}
ChatHasLock(k) == Has(locks, ChatOfTask(k)) /\ ValueAt(locks, ChatOfTask(k)) = task[k].lock

(* The lock of a chat stays in the table while a task has it or waits for   *)
(* it, and one task has it at a time.                                       *)
LockInv ==
    /\ locks \in Table(Tasks) /\ UniqueKeys(locks)
    /\ DOMAIN task = Tasks
    /\ \A k \in Tasks : Locking(k) => ChatHasLock(k)
    /\ \A j, k \in Tasks :
          task[j].pc \in Inside /\ task[k].pc \in Inside /\ task[j].lock = task[k].lock => j = k

-----------------------------------------------------------------------------
(* Tables *)

(* A table is a sequence of rows.                                           *)
LEMMA Rows ==
    ASSUME NEW V, NEW d \in Table(V)
    PROVE  Len(d) \in Nat /\ DOMAIN d = 1..Len(d) /\ \A i \in DOMAIN d : d[i] \in Row(V)
BY DEF Table

(* What a table with unique keys says of a key.                             *)
LEMMA ValueUnique ==
    ASSUME NEW V, NEW d \in Table(V), UniqueKeys(d), NEW i \in DOMAIN d
    PROVE  Has(d, d[i].key) /\ ValueAt(d, d[i].key) = d[i].val
BY DEF UniqueKeys, Has, ValueAt

(* Expiry leaves a table with unique keys, and the entries not named.       *)
LEMMA ExpiryKeeps ==
    ASSUME NEW V, NEW d \in Table(V), UniqueKeys(d), NEW old, NEW e \in Unexpired(d, old)
    PROVE  /\ e \in Table(V) /\ UniqueKeys(e)
           /\ Entries(e) \subseteq Entries(d)
           /\ \A x \in Entries(d) : x.key \notin old => x \in Entries(e)
<1>1. CASE e = d
  BY <1>1 DEF Table
<1>2. CASE e # d
  <2>1. PICK n \in 0..Len(d) : e \in [1..n -> Entries(d)]
    BY <1>2 DEF Unexpired
  <2>2. InOrderOf(d, e) /\ \A x \in Entries(d) \ Entries(e) : x.key \in old
    BY <1>2 DEF Unexpired
  <2>3. Entries(d) \subseteq Row(V)
    BY Rows DEF Entries
  <2>4. e \in Table(V) /\ DOMAIN e = 1..n /\ n \in Nat
    BY <2>1, <2>3 DEF Table
  <2>5. Entries(e) \subseteq Entries(d)
    BY <2>1 DEF Entries
  <2>6. \A i, j \in DOMAIN e : i < j => e[i].key # e[j].key
    <3> SUFFICES ASSUME NEW i \in DOMAIN e, NEW j \in DOMAIN e, i < j, e[i].key = e[j].key
                 PROVE  FALSE
      OBVIOUS
    <3>1. PICK a \in DOMAIN d, b \in DOMAIN d : a < b /\ e[i] = d[a] /\ e[j] = d[b]
      BY <2>2 DEF InOrderOf
    <3>2. a = b
      BY <3>1 DEF UniqueKeys
    <3> QED
      BY <3>1, <3>2 DEF Table
  <2>7. UniqueKeys(e)
    <3> SUFFICES ASSUME NEW i \in DOMAIN e, NEW j \in DOMAIN e, e[i].key = e[j].key, i # j
                 PROVE  FALSE
      BY DEF UniqueKeys
    <3>1. i \in Nat /\ j \in Nat
      BY <2>4
    <3>2. i < j \/ j < i
      BY <3>1
    <3> QED
      BY <2>6, <3>2
  <2> QED
    BY <2>2, <2>4, <2>5, <2>7
<1> QED
  BY <1>1, <1>2

(* Putting a value under a key changes nothing else.                        *)
LEMMA PutKeeps ==
    ASSUME NEW V, NEW d \in Table(V), UniqueKeys(d), NEW c \in Chats, NEW l \in V
    PROVE  /\ Put(d, c, l) \in Table(V) /\ UniqueKeys(Put(d, c, l))
           /\ \E i \in DOMAIN Put(d, c, l) : Put(d, c, l)[i] = [key |-> c, val |-> l]
           /\ \A i \in DOMAIN d : d[i].key # c =>
                 \E j \in DOMAIN Put(d, c, l) : Put(d, c, l)[j] = d[i]
           /\ Entries(Put(d, c, l)) \subseteq Entries(d) \cup {[key |-> c, val |-> l]}
<1> DEFINE x == [key |-> c, val |-> l]
           p == Put(d, c, l)
<1>1. CASE Has(d, c)
  <2>1. p = [i \in DOMAIN d |-> IF d[i].key = c THEN x ELSE d[i]] /\ DOMAIN p = DOMAIN d
    BY <1>1 DEF Put
  <2>2. p \in Table(V)
    <3>1. p \in [1..Len(d) -> Row(V)] /\ Len(d) \in Nat
      BY <2>1, Rows DEF Row
    <3> QED
      BY <3>1 DEF Table
  <2>3. \A i \in DOMAIN d : p[i].key = d[i].key
    BY <2>1
  <2>4. UniqueKeys(p)
    BY <2>1, <2>3 DEF UniqueKeys
  <2>5. \E i \in DOMAIN p : p[i] = x
    BY <1>1, <2>1 DEF Has
  <2>6. \A i \in DOMAIN d : d[i].key # c => p[i] = d[i]
    BY <2>1
  <2>7. Entries(p) \subseteq Entries(d) \cup {x}
    <3> HIDE DEF p, x
    <3>1. \A i \in DOMAIN p : i \in DOMAIN d /\ (p[i] = x \/ p[i] = d[i])
      BY <2>1
    <3> QED
      BY <3>1 DEF Entries
  <2> QED
    BY <2>1, <2>2, <2>4, <2>5, <2>6, <2>7
<1>2. CASE ~Has(d, c)
  <2>1. p = Append(d, x) /\ x \in Row(V)
    BY <1>2 DEF Put, Row
  <2>2. /\ p \in Table(V) /\ Len(p) = Len(d) + 1 /\ p[Len(d) + 1] = x
        /\ \A i \in DOMAIN d : i \in DOMAIN p /\ p[i] = d[i]
        /\ DOMAIN p = DOMAIN d \cup {Len(d) + 1} /\ Len(d) + 1 \in DOMAIN p
    BY <2>1 DEF Table
  <2>3. UniqueKeys(p)
    BY <1>2, <2>2 DEF UniqueKeys, Has
  <2>4. Entries(p) \subseteq Entries(d) \cup {x}
    BY <2>2 DEF Entries
  <2> QED
    BY <2>2, <2>3, <2>4
<1> QED
  BY <1>1, <1>2

(* A table with unique keys is no longer than there are chats.              *)
LEMMA TableLength ==
    ASSUME IsFiniteSet(Chats), NEW V, NEW d \in Table(V), UniqueKeys(d)
    PROVE  Len(d) \in Nat /\ Cardinality(Chats) \in Nat /\ Len(d) <= Cardinality(Chats)
<1> DEFINE f == [i \in 1..Len(d) |-> d[i].key]
<1>1. Len(d) \in Nat /\ DOMAIN d = 1..Len(d) /\ f \in [1..Len(d) -> Chats]
  BY Rows DEF Row
<1>2. f \in Injection(1..Len(d), Chats)
  BY <1>1 DEF UniqueKeys, Injection, IsInjective
<1>3. Cardinality(1..Len(d)) <= Cardinality(Chats)
  BY <1>2, FS_Injection DEF ExistsInjection
<1>4. Cardinality(1..Len(d)) = Len(d)
  BY <1>1, FS_Interval
<1> QED
  BY <1>1, <1>3, <1>4, FS_CardinalityType

(* With room for the locks of all chats nothing is evicted.                 *)
LEMMA NothingEvicted ==
    ASSUME Room, NEW d \in Table(Tasks), UniqueKeys(d)
    PROVE  Evicted(d) = d
<1>1. Len(d) \in Nat /\ LockLimit \in Nat /\ Len(d) <= LockLimit
  BY TableLength, GatewayAssumption DEF Room
<1> DEFINE Fits(n) == /\ \A i \in 1..n : ~Locked(d[i].val) /\ Len(d) - i >= LockLimit
                      /\ n + 1 \in DOMAIN d => Locked(d[n + 1].val) \/ Len(d) - n <= LockLimit
<1>3. Fits(0) /\ 0 \in 0..Len(d)
  BY <1>1
<1>4. \A n \in 0..Len(d) : Fits(n) => n = 0
  <2> SUFFICES ASSUME NEW n \in 0..Len(d), Fits(n), n # 0 PROVE FALSE
    OBVIOUS
  <2>1. 1 \in 1..n
    BY <1>1
  <2> QED
    BY <1>1, <2>1
<1>5. (CHOOSE n \in 0..Len(d) : Fits(n)) = 0
  BY <1>3, <1>4
<1>6. Evicted(d) = Dropped(d, 0)
  BY <1>5 DEF Evicted
<1>7. SubSeq(d, 1, Len(d)) = d
  BY <1>1 DEF Table
<1> QED
  BY <1>6, <1>7 DEF Dropped
-----------------------------------------------------------------------------
(* The steps *)

LEMMA InitInv == Init => LockInv
<1> SUFFICES ASSUME Init PROVE LockInv
  OBVIOUS
<1>1. locks \in Table(Tasks) /\ UniqueKeys(locks)
  BY DEF Init, Table, UniqueKeys
<1>2. DOMAIN task = Tasks /\ \A k \in Tasks : task[k].pc = "none"
  BY DEF Init, Idle
<1> QED
  BY <1>1, <1>2 DEF LockInv, Locking, Inside

(* A step that leaves the table alone and in which no task gets a lock.     *)
LEMMA NoLockStep ==
    ASSUME LockInv, UNCHANGED locks, DOMAIN task' = Tasks,
           \A k \in Tasks : /\ Locking(k)' => Locking(k) /\ task'[k].lock = task[k].lock
                            /\ task'[k].pc \in Inside => task[k].pc \in Inside
    PROVE  LockInv'
<1>1. \A k \in Tasks : Locking(k)' => ChatHasLock(k)'
  BY DEF LockInv, ChatHasLock
<1>2. \A j, k \in Tasks :
         task'[j].pc \in Inside /\ task'[k].pc \in Inside /\ task'[j].lock = task'[k].lock => j = k
  <2>1. \A j \in Tasks : task'[j].pc \in Inside => task[j].pc \in Inside /\ task'[j].lock = task[j].lock
    BY DEF Locking
  <2> QED
    BY <2>1 DEF LockInv
<1> QED
  BY <1>1, <1>2 DEF LockInv

(* A step of one task that has no lock and gets none.                       *)
LEMMA AsideStep ==
    ASSUME LockInv, NEW k \in Tasks, NEW pc, NEW l, Become(k, pc, l), UNCHANGED locks,
           pc \notin Inside \cup {"waiting"} \/ (Locking(k) /\ task[k].pc \in Inside /\ l = task[k].lock)
    PROVE  LockInv'
<1>1. \A j \in Tasks : task'[j] = IF j = k THEN [pc |-> pc, lock |-> l] ELSE task[j]
  BY DEF Become, LockInv
<1>2. DOMAIN task' = Tasks
  BY DEF Become, LockInv
<1>3. \A j \in Tasks : /\ Locking(j)' => Locking(j) /\ task'[j].lock = task[j].lock
                       /\ task'[j].pc \in Inside => task[j].pc \in Inside
  BY <1>1 DEF Locking
<1> QED
  BY <1>2, <1>3, NoLockStep

(* A task gets the lock that its chat has, free, or waits for it.           *)
LEMMA LockingStep ==
    ASSUME LockInv, NEW k \in Tasks, NEW l, ~Locking(k) \/ task[k].lock = l,
           task[k].pc \notin Inside,
           locks' \in Table(Tasks), UniqueKeys(locks'),
           \A j \in Tasks : Locking(j) => Has(locks', ChatOfTask(j)) /\ ValueAt(locks', ChatOfTask(j)) = task[j].lock,
           Has(locks', ChatOfTask(k)) /\ ValueAt(locks', ChatOfTask(k)) = l,
           (Enter(k, l) /\ ~Locked(l)) \/ Become(k, "waiting", l)
    PROVE  LockInv'
<1>1. PICK pc \in {"superseded", "calling", "waiting"}, held \in {l, NoLock} :
         /\ Become(k, pc, held) /\ (pc # "superseded" => held = l)
         /\ (pc = "calling" => ~Locked(l))
  BY DEF Enter, End
<1>2. \A j \in Tasks : task'[j] = IF j = k THEN [pc |-> pc, lock |-> held] ELSE task[j]
  BY <1>1 DEF Become, LockInv
<1>3. DOMAIN task' = Tasks
  BY <1>1 DEF Become, LockInv
<1>4. \A j \in Tasks : Locking(j)' => ChatHasLock(j)'
  <2> SUFFICES ASSUME NEW j \in Tasks, Locking(j)' PROVE ChatHasLock(j)'
    OBVIOUS
  <2>1. CASE j = k
    <3>1. task'[k].lock = l
      BY <1>1, <1>2, <2>1 DEF Locking, Inside
    <3> QED
      BY <2>1, <3>1 DEF ChatHasLock
  <2>2. CASE j # k
    <3>1. Locking(j) /\ task'[j].lock = task[j].lock
      BY <1>2, <2>2 DEF Locking
    <3> QED
      BY <3>1 DEF ChatHasLock
  <2> QED
    BY <2>1, <2>2
<1>5. \A i, j \in Tasks :
         task'[i].pc \in Inside /\ task'[j].pc \in Inside /\ task'[i].lock = task'[j].lock => i = j
  <2>1. task'[k].pc \in Inside => \A j \in Tasks : ~(task[j].lock = l /\ task[j].pc \in Inside)
    BY <1>1, <1>2 DEF Locked, Inside
  <2> QED
    BY <1>1, <1>2, <2>1 DEF LockInv, Inside
<1> QED
  BY <1>3, <1>4, <1>5 DEF LockInv

(* Asking for the lock of a chat keeps the locks that are in use.           *)
LEMMA RequestStep == ASSUME Room, LockInv, NEW k \in Tasks, RequestLock(k) PROVE LockInv'
<1>1. PICK live \in Unexpired(locks, IdleKeys) :
         LET l == ChatLock(k, live) IN
         /\ locks' = Evicted(Put(live, ChatOfTask(k), l))
         /\ (Enter(k, l) /\ ~Locked(l)) \/ Become(k, "waiting", l)
  BY DEF RequestLock
<1> DEFINE l == ChatLock(k, live)
           c == ChatOfTask(k)
<1>2. /\ live \in Table(Tasks) /\ UniqueKeys(live) /\ Entries(live) \subseteq Entries(locks)
      /\ \A x \in Entries(locks) : x.key \notin IdleKeys => x \in Entries(live)
  BY ExpiryKeeps DEF LockInv
<1>3. c \in Chats
  BY GatewayAssumption DEF ChatOfTask, UpdateOf, Tasks
<1>4. l \in Tasks
  <2>1. CASE Has(live, c)
    <3>1. PICK i \in DOMAIN live : live[i].key = c
      BY <2>1 DEF Has
    <3>2. l = live[i].val
      BY <1>2, <2>1, <3>1, ValueUnique DEF ChatLock
    <3> QED
      BY <1>2, <3>1, <3>2, Rows DEF Row
  <2>2. CASE ~Has(live, c)
    BY <2>2 DEF ChatLock
  <2> QED
    BY <2>1, <2>2
<1>5. locks' = Put(live, c, l) /\ locks' \in Table(Tasks) /\ UniqueKeys(locks')
  BY <1>1, <1>2, <1>3, <1>4, PutKeeps, NothingEvicted
<1>6. Has(locks', c) /\ ValueAt(locks', c) = l
  <2>1. PICK i \in DOMAIN locks' : locks'[i] = [key |-> c, val |-> l]
    BY <1>2, <1>3, <1>4, <1>5, PutKeeps
  <2> QED
    BY <1>5, <2>1, ValueUnique
<1>7. ASSUME NEW j \in Tasks, Locking(j)
      PROVE  Has(locks', ChatOfTask(j)) /\ ValueAt(locks', ChatOfTask(j)) = task[j].lock
  <2> DEFINE d == ChatOfTask(j)
  <2>1. PICK i \in DOMAIN locks : locks[i].key = d
    BY <1>7 DEF LockInv, ChatHasLock, Has
  <2>2. locks[i].val = task[j].lock /\ ValueAt(locks, d) = task[j].lock
    BY <1>7, <2>1, ValueUnique DEF LockInv, ChatHasLock
  <2>3. d \notin IdleKeys
    BY <2>2 DEF IdleKeys, InUse
  <2>4. PICK m \in DOMAIN live : live[m] = locks[i]
    BY <1>2, <2>1, <2>3 DEF Entries
  <2>5. CASE d = c
    <3>1. Has(live, c) /\ ValueAt(live, c) = task[j].lock
      BY <1>2, <2>1, <2>2, <2>4, <2>5, ValueUnique
    <3> QED
      BY <1>6, <2>5, <3>1 DEF ChatLock
  <2>6. CASE d # c
    <3>1. PICK n \in DOMAIN locks' : locks'[n] = live[m]
      BY <1>2, <1>3, <1>4, <1>5, <2>1, <2>4, <2>6, PutKeeps
    <3> QED
      BY <1>5, <2>1, <2>2, <2>4, <3>1, ValueUnique
  <2> QED
    BY <2>5, <2>6
<1>8. ~Locking(k) /\ task[k].pc \notin Inside
  BY DEF RequestLock, Is, Locking, Inside
<1> QED
  BY <1>1, <1>5, <1>6, <1>7, <1>8, LockingStep

LEMMA AcquireStep == ASSUME LockInv, NEW k \in Tasks, AcquireLock(k) PROVE LockInv'
<1> DEFINE l == task[k].lock
<1>1. Is(k, "waiting") /\ ~Locked(l) /\ Enter(k, l) /\ UNCHANGED locks
  BY DEF AcquireLock, tables
<1>2. Locking(k) /\ task[k].pc \notin Inside
  BY <1>1 DEF Is, Locking, Inside
<1>3. \A j \in Tasks : Locking(j) => Has(locks', ChatOfTask(j)) /\ ValueAt(locks', ChatOfTask(j)) = task[j].lock
  BY <1>1 DEF LockInv, ChatHasLock
<1> QED
  BY <1>1, <1>2, <1>3, LockingStep DEF LockInv

(* Every other step of a task gives its lock up, or keeps it and goes on.   *)
LEMMA OtherTaskStep ==
    ASSUME LockInv, NEW k \in Tasks,
           \/ EnqueueGraphRag(k) \/ ConsumeLinkCode(k) \/ ConfirmLink(k) \/ OrchestratorReturns(k) \/ Send(k)
    PROVE  LockInv'
<1>1. UNCHANGED locks
  BY DEF EnqueueGraphRag, ConsumeLinkCode, ConfirmLink, OrchestratorReturns, Send, tables
<1>2. CASE EnqueueGraphRag(k) \/ ConsumeLinkCode(k) \/ ConfirmLink(k)
  <2>1. PICK pc \in {"queued", "confirming", "dropped", "replied"} : Become(k, pc, NoLock)
    BY <1>2 DEF EnqueueGraphRag, ConsumeLinkCode, ConfirmLink, End
  <2> QED
    BY <1>1, <2>1, AsideStep DEF Inside
<1>3. CASE OrchestratorReturns(k) \/ Send(k)
  <2>1. task[k].pc \in Inside
    BY <1>3 DEF OrchestratorReturns, Send, Inside
  <2>2. PICK pc \in Ended \cup Inside, l \in {NoLock, task[k].lock} :
           Become(k, pc, l) /\ (pc \in Inside => l = task[k].lock)
    BY <1>3 DEF OrchestratorReturns, Send, End, AfterHttpError, Ended, Inside
  <2>3. pc \notin Inside => pc # "waiting"
    BY <2>2 DEF Ended
  <2> QED
    BY <1>1, <2>1, <2>2, <2>3, AsideStep DEF Locking
<1> QED
  BY <1>2, <1>3

(* The handler starts a task that has asked for no lock, or none.           *)
LEMMA WebhookStep ==
    ASSUME LockInv, NEW u \in Updates,
           \/ IgnoreDuplicate(u) \/ AcceptAside(u)
           \/ \E k \in Tasks : AcceptText(u, k) \/ AcceptGraphRag(u, k) \/ AcceptLink(u, k)
    PROVE  LockInv'
<1>1. CASE IgnoreDuplicate(u) \/ AcceptAside(u)
  BY <1>1, NoLockStep DEF IgnoreDuplicate, AcceptAside, LockInv, Locking
<1>2. ASSUME NEW k \in Tasks, AcceptText(u, k) \/ AcceptGraphRag(u, k) \/ AcceptLink(u, k)
      PROVE  LockInv'
  <2>1. PICK pc \in {"queued", "acking", "linking"} : Become(k, pc, NoLock) /\ UNCHANGED locks
    BY <1>2 DEF AcceptText, AcceptGraphRag, AcceptLink
  <2> QED
    BY <2>1, AsideStep DEF Inside
<1> QED
  BY <1>1, <1>2

LEMMA RestartStep == ASSUME LockInv, Restart PROVE LockInv'
<1>1. locks' \in Table(Tasks) /\ UniqueKeys(locks')
  BY DEF Restart, Table, UniqueKeys
<1>2. DOMAIN task' = Tasks /\ \A k \in Tasks : task'[k].pc \in {"none", "dropped"}
  BY DEF Restart, Idle
<1> QED
  BY <1>1, <1>2 DEF LockInv, Locking, Inside

LEMMA StepInv == ASSUME Room PROVE LockInv /\ [Next]_vars => LockInv'
<1> SUFFICES ASSUME LockInv, [Next]_vars PROVE LockInv'
  OBVIOUS
<1>1. CASE UNCHANGED vars
  BY <1>1, NoLockStep DEF vars, LockInv, Locking
<1>2. ASSUME NEW k \in Tasks, TaskStep(k) PROVE LockInv'
  BY <1>2, RequestStep, AcquireStep, OtherTaskStep DEF TaskStep
<1> QED
  BY <1>1, <1>2, WebhookStep, RestartStep DEF Next

(* The catalogue's serialization per chat: at most one task of a chat is    *)
(* past its lock, as long as the table has room for every chat.             *)
THEOREM Serialized == ASSUME Room PROVE Spec => []SerializedPerChat
<1>1. LockInv => SerializedPerChat
  BY DEF LockInv, SerializedPerChat, Locking, ChatHasLock
<1> QED
  BY <1>1, InitInv, StepInv, PTL DEF Spec

-----------------------------------------------------------------------------
(* Sequences and eviction                                                   *)

(* A set of naturals has a least element.                                   *)
LEMMA LessIsWellFounded ==
    \E R : IsWellFoundedOn(R, Nat) /\ \A x, y \in Nat : y < x => <<y, x>> \in R
<1>1. \A x, y \in Nat : y < x => <<y, x>> \in OpToRel(<, Nat)
  BY DEF OpToRel
<1> QED
  BY <1>1, NatLessThanWellFounded, Zenon

LEMMA Least ==
    ASSUME NEW S \in SUBSET Nat, S # {}
    PROVE  \E n \in S : \A m \in S : n <= m
<1>1. PICK R : IsWellFoundedOn(R, Nat) /\ \A x, y \in Nat : y < x => <<y, x>> \in R
  BY LessIsWellFounded
<1>2. \E x \in S : \A y \in S : ~(<<y, x>> \in R)
  BY <1>1, WFMin
<1>3. PICK n \in S : \A m \in S : ~(<<m, n>> \in R)
  BY <1>2
<1>4. \A m \in S : ~(m < n)
  BY <1>1, <1>3
<1> QED
  BY <1>3, <1>4

(* What is left when the oldest entries are dropped.                        *)
LEMMA SuffixFacts ==
    ASSUME NEW S, NEW s \in Seq(S), NEW n \in 0..Len(s)
    PROVE  /\ Dropped(s, n) \in Seq(S) /\ Len(Dropped(s, n)) = Len(s) - n
           /\ \A i \in 1..(Len(s) - n) : Dropped(s, n)[i] = s[n + i]
BY DEF Dropped

LEMMA NothingDropped ==
    ASSUME NEW S, NEW s \in Seq(S)
    PROVE  Dropped(s, 0) = s
BY DEF Dropped

LEMMA NewestFacts ==
    ASSUME NEW S, NEW s \in Seq(S), NEW limit \in Nat
    PROVE  /\ Newest(s, limit) \in Seq(S) /\ Len(Newest(s, limit)) <= limit
           /\ Len(s) <= limit => Newest(s, limit) = s
           /\ \E n \in 0..Len(s) : /\ Len(Newest(s, limit)) = Len(s) - n
                                   /\ \A i \in 1..(Len(s) - n) : Newest(s, limit)[i] = s[n + i]
<1> DEFINE Suffix(z, n) == Len(z) = Len(s) - n /\ \A i \in 1..(Len(s) - n) : z[i] = s[n + i]
           Good(z) == /\ z \in Seq(S) /\ Len(z) <= limit /\ (Len(s) <= limit => z = s)
                      /\ \E n \in 0..Len(s) : Suffix(z, n)
<1>1. Len(s) \in Nat /\ Len(s) - 0 = Len(s) /\ 0 \in 0..Len(s)
  OBVIOUS
<1>2. CASE Len(s) > limit
  <2> DEFINE n == Len(s) - limit
  <2>1. Newest(s, limit) = Dropped(s, n)
    BY <1>2 DEF Newest
  <2>2. n \in 0..Len(s) /\ Len(s) - n = limit
    BY <1>1, <1>2
  <2> HIDE DEF n
  <2>3. Dropped(s, n) \in Seq(S) /\ Suffix(Dropped(s, n), n)
    BY <2>2, SuffixFacts
  <2>4. Good(Dropped(s, n))
    BY <1>1, <1>2, <2>2, <2>3
  <2> QED
    BY <2>1, <2>4
<1>3. CASE ~(Len(s) > limit)
  <2>1. Newest(s, limit) = s /\ Len(s) <= limit
    BY <1>1, <1>3 DEF Newest
  <2>2. Suffix(s, 0)
    BY <1>1
  <2>3. Good(s)
    BY <1>1, <2>1, <2>2
  <2> QED
    BY <2>1, <2>3
<1> QED
  BY <1>2, <1>3

(* Eviction drops some of the oldest locks.                                 *)
LEMMA EvictionPoint ==
    ASSUME NEW d \in Table(Tasks)
    PROVE  Evicted(d) \in Table(Tasks)
<1> DEFINE Stop(n) == n + 1 \in DOMAIN d => Locked(d[n + 1].val) \/ Len(d) - n <= LockLimit
           Fits(n) == (\A i \in 1..n : ~Locked(d[i].val) /\ Len(d) - i >= LockLimit) /\ Stop(n)
           S == {n \in 0..Len(d) : Stop(n)}
<1>1. Len(d) \in Nat /\ DOMAIN d = 1..Len(d) /\ LockLimit \in Nat
  BY Rows, GatewayAssumption
<1>2. Len(d) \in S /\ S \in SUBSET Nat
  BY <1>1
<1>3. PICK n \in S : \A m \in S : n <= m
  <2> HIDE DEF S
  <2> QED
    BY <1>2, Least
<1>4. Fits(n)
  <2>1. ASSUME NEW i \in 1..n PROVE ~Locked(d[i].val) /\ Len(d) - i >= LockLimit
    <3>1. i - 1 \in 0..Len(d) /\ i - 1 < n /\ (i - 1) + 1 = i /\ i \in DOMAIN d
      BY <1>1, <1>3
    <3>2. ~Stop(i - 1)
      BY <1>3, <3>1
    <3> QED
      BY <1>1, <3>1, <3>2
  <2> QED
    BY <1>3, <2>1
<1> HIDE DEF Fits
<1>5. (CHOOSE m \in 0..Len(d) : Fits(m)) \in 0..Len(d)
  BY <1>3, <1>4
<1>6. Evicted(d) = Dropped(d, CHOOSE m \in 0..Len(d) : Fits(m))
  BY DEF Evicted, Fits
<1> QED
  BY <1>5, <1>6, SuffixFacts DEF Table

-----------------------------------------------------------------------------
(* Types                                                                    *)

PCs == {"none", "queued", "waiting"} \cup Handling \cup Inside \cup Ended

(* Types alone are not inductive: a task that acquires a lock takes the     *)
(* head of its queue, so the queue must not be empty.                       *)
WaitersListed ==
    \A k \in Tasks : Is(k, "waiting") =>
        /\ task[k].lock \in Tasks
        /\ \E i \in DOMAIN waiters[task[k].lock] : waiters[task[k].lock][i] = k

TypeInv == TypeOK /\ WaitersListed

LEMMA UpdateOfTask == ASSUME NEW k \in Tasks PROVE UpdateOf(k) \in Updates /\ ChatOfTask(k) \in Chats
BY GatewayAssumption DEF UpdateOf, ChatOfTask, Tasks

LEMMA ExpiryTyped ==
    ASSUME NEW V, NEW d \in Table(V), NEW old, NEW e \in Unexpired(d, old)
    PROVE  e \in Table(V) /\ Len(e) <= Len(d)
<1>1. CASE e = d
  BY <1>1 DEF Table
<1>2. CASE e # d
  <2>1. PICK n \in 0..Len(d) : e \in [1..n -> Entries(d)]
    BY <1>2 DEF Unexpired
  <2>2. Entries(d) \subseteq Row(V)
    BY Rows DEF Entries
  <2> QED
    BY <2>1, <2>2, Rows DEF Table
<1> QED
  BY <1>1, <1>2

LEMMA PutTyped ==
    ASSUME NEW V, NEW d \in Table(V), NEW c \in Chats, NEW v \in V
    PROVE  Put(d, c, v) \in Table(V)
<1> DEFINE x == [key |-> c, val |-> v]
<1>1. x \in Row(V)
  BY DEF Row
<1>2. CASE Has(d, c)
  <2>1. Put(d, c, v) \in [1..Len(d) -> Row(V)] /\ Len(d) \in Nat
    BY <1>1, <1>2, Rows DEF Put
  <2> QED
    BY <2>1 DEF Table
<1>3. CASE ~Has(d, c)
  BY <1>1, <1>3 DEF Put, Table
<1> QED
  BY <1>2, <1>3

(* What a lock object is named by.                                          *)
LEMMA ValueTyped ==
    ASSUME NEW V, NEW d \in Table(V), NEW c, Has(d, c)
    PROVE  ValueAt(d, c) \in V
<1>1. PICK i \in DOMAIN d : i = (CHOOSE j \in DOMAIN d : d[j].key = c)
  BY DEF Has
<1> QED
  BY <1>1, Rows DEF ValueAt, Row

LEMMA MarkedTyped ==
    ASSUME NEW u \in Updates, NEW d \in Table(Updates)
    PROVE  Marked(u, d) \in Table(Updates) /\ Len(Marked(u, d)) <= LatestLimit
<1>1. chatOf[u] \in Chats /\ LatestLimit \in Nat
  BY GatewayAssumption
<1>2. Put(d, chatOf[u], u) \in Table(Updates)
  BY <1>1, PutTyped
<1> QED
  BY <1>1, <1>2, NewestFacts DEF Marked, Table

LEMMA RememberedTyped ==
    ASSUME NEW ids \in Remembered, seen \in Seq(Updates), Len(seen) <= DedupeLimit
    PROVE  ids \in Seq(Updates) /\ Len(ids) <= DedupeLimit
<1>1. PICK n \in 0..Len(seen) : ids = Dropped(seen, n)
  BY DEF Remembered
<1> QED
  BY <1>1, SuffixFacts, GatewayAssumption

LEMMA ConsumeTyped ==
    ASSUME TypeOK, NEW u \in Updates, Consume(u)
    PROVE  seen' \in Seq(Updates) /\ Len(seen') <= DedupeLimit
<1>1. PICK ids \in Remembered : seen' = Recorded(u, ids)
  BY DEF Consume
<1>2. ids \in Seq(Updates) /\ DedupeLimit \in Nat
  BY RememberedTyped, GatewayAssumption DEF TypeOK
<1>3. Append(ids, u) \in Seq(Updates)
  BY <1>2
<1> QED
  BY <1>1, <1>2, <1>3, NewestFacts DEF Recorded

LEMMA MarkTyped ==
    ASSUME TypeOK, NEW u \in Updates, Mark(u)
    PROVE  latest' \in TableOf(Chats, Updates) /\ Len(latest') <= LatestLimit
<1>1. PICK d \in Unexpired(latest, Keys(latest)) : latest' = Marked(u, d)
  BY DEF Mark
<1>2. latest \in Table(Updates)
  BY DEF TypeOK, TableOf, Table, Row
<1> QED
  BY <1>1, <1>2, ExpiryTyped, MarkedTyped DEF TableOf, Table, Row

LEMMA RespondTyped == ASSUME TypeOK, NEW u, Respond(u) PROVE pending' \subseteq Updates
BY DEF Respond, TypeOK

(* A task goes to where it does not wait for a lock.                        *)
LEMMA BecomeTyped ==
    ASSUME TypeInv, NEW k \in Tasks, NEW pc \in PCs, NEW l \in Tasks \cup {NoLock}, Become(k, pc, l)
    PROVE  /\ task' \in [Tasks -> [pc: PCs, lock: Tasks \cup {NoLock}]]
           /\ UNCHANGED waiters /\ pc # "waiting" => WaitersListed'
<1>1. task \in [Tasks -> [pc: PCs, lock: Tasks \cup {NoLock}]]
  BY DEF TypeInv, TypeOK, PCs
<1>2. \A j \in Tasks : task'[j] = IF j = k THEN [pc |-> pc, lock |-> l] ELSE task[j]
  BY <1>1 DEF Become
<1>3. task' \in [Tasks -> [pc: PCs, lock: Tasks \cup {NoLock}]]
  BY <1>1 DEF Become
<1>4. UNCHANGED waiters /\ pc # "waiting" => WaitersListed'
  BY <1>2 DEF TypeInv, WaitersListed, Is
<1> QED
  BY <1>3, <1>4

LEMMA WebhookTyped ==
    ASSUME TypeInv, NEW u \in Updates,
           \/ IgnoreDuplicate(u) \/ AcceptAside(u)
           \/ \E k \in Tasks : AcceptText(u, k) \/ AcceptGraphRag(u, k) \/ AcceptLink(u, k)
    PROVE  TypeInv'
<1>1. CASE IgnoreDuplicate(u)
  <2>1. seen' \in Seq(Updates) /\ Len(seen') <= DedupeLimit
    BY <1>1, RememberedTyped DEF IgnoreDuplicate, TypeInv, TypeOK
  <2> QED
    BY <1>1, <2>1, RespondTyped DEF IgnoreDuplicate, TypeInv, TypeOK, WaitersListed, Is
<1>2. CASE AcceptAside(u)
  <2>1. seen' \in Seq(Updates) /\ Len(seen') <= DedupeLimit
    BY <1>2, ConsumeTyped DEF AcceptAside, TypeInv
  <2>2. latest' \in TableOf(Chats, Updates) /\ Len(latest') <= LatestLimit
    BY <1>2, MarkTyped DEF AcceptAside, TypeInv, TypeOK
  <2>3. pending' \subseteq Updates /\ UNCHANGED <<locks, waiters, task, answers, restarts>>
    BY <1>2, RespondTyped DEF AcceptAside, TypeInv
  <2> QED
    BY <2>1, <2>2, <2>3 DEF TypeInv, TypeOK, WaitersListed, Is
<1>3. ASSUME NEW k \in Tasks, AcceptText(u, k) \/ AcceptGraphRag(u, k) \/ AcceptLink(u, k)
      PROVE  TypeInv'
  <2>1. PICK pc \in {"queued", "acking", "linking"} : Become(k, pc, NoLock)
    BY <1>3 DEF AcceptText, AcceptGraphRag, AcceptLink
  <2>2. Consume(u) /\ UNCHANGED <<locks, waiters, answers, restarts>>
    BY <1>3 DEF AcceptText, AcceptGraphRag, AcceptLink
  <2>3. pending' \subseteq Updates
    BY <1>3, RespondTyped DEF AcceptText, AcceptGraphRag, AcceptLink, TypeInv, TypeOK
  <2>4. latest' \in TableOf(Chats, Updates) /\ Len(latest') <= LatestLimit
    BY <1>3, MarkTyped DEF AcceptText, AcceptGraphRag, AcceptLink, TypeInv, TypeOK
  <2>5. seen' \in Seq(Updates) /\ Len(seen') <= DedupeLimit
    BY <2>2, ConsumeTyped DEF TypeInv
  <2>6. pc \in PCs /\ pc # "waiting"
    BY DEF PCs, Handling
  <2>7. task' \in [Tasks -> [pc: PCs, lock: Tasks \cup {NoLock}]] /\ WaitersListed'
    BY <2>1, <2>2, <2>6, BecomeTyped
  <2> QED
    BY <2>2, <2>3, <2>4, <2>5, <2>7 DEF TypeInv, TypeOK, PCs
<1> QED
  BY <1>1, <1>2, <1>3

(* A task gets a lock at once, or joins the queue for it.                   *)
LEMMA RequestTyped == ASSUME TypeInv, NEW k \in Tasks, RequestLock(k) PROVE TypeInv'
<1>1. PICK live \in Unexpired(locks, IdleKeys) :
         LET l == ChatLock(k, live) IN
         /\ locks' = Evicted(Put(live, ChatOfTask(k), l))
         /\ IF ~Locked(l) /\ waiters[l] = <<>>
            THEN Enter(k, l) /\ UNCHANGED waiters
            ELSE Become(k, "waiting", l) /\ waiters' = [waiters EXCEPT ![l] = Append(@, k)]
  BY DEF RequestLock
<1>2. PICK l : l = ChatLock(k, live)
  OBVIOUS
<1>3. live \in Table(Tasks)
  BY ExpiryTyped DEF TypeInv, TypeOK, TableOf, Table, Row
<1>4. l \in Tasks /\ ChatOfTask(k) \in Chats
  BY <1>2, <1>3, ValueTyped, UpdateOfTask DEF ChatLock
<1>5. locks' \in TableOf(Chats, Tasks)
  BY <1>1, <1>2, <1>3, <1>4, PutTyped, EvictionPoint DEF TableOf, Table, Row
<1>6. task \in [Tasks -> [pc: PCs, lock: Tasks \cup {NoLock}]] /\ waiters \in [Tasks -> Seq(Tasks)]
  BY DEF TypeInv, TypeOK, PCs
<1>7. CASE Enter(k, l) /\ UNCHANGED waiters
  <2>1. PICK pc \in {"superseded", "calling"}, held \in {l, NoLock} : Become(k, pc, held)
    BY <1>7 DEF Enter, End
  <2>2. pc \in PCs /\ pc # "waiting"
    BY DEF PCs, Inside, Ended
  <2>3. task' \in [Tasks -> [pc: PCs, lock: Tasks \cup {NoLock}]] /\ WaitersListed'
    BY <1>4, <1>7, <2>1, <2>2, BecomeTyped
  <2> QED
    BY <1>5, <1>7, <2>3 DEF TypeInv, TypeOK, PCs, RequestLock
<1>8. CASE Become(k, "waiting", l) /\ waiters' = [waiters EXCEPT ![l] = Append(@, k)]
  <2>1. task' \in [Tasks -> [pc: PCs, lock: Tasks \cup {NoLock}]]
    BY <1>4, <1>8, BecomeTyped DEF PCs
  <2>2. Append(waiters[l], k) \in Seq(Tasks) /\ waiters' \in [Tasks -> Seq(Tasks)]
    BY <1>4, <1>6, <1>8
  <2>3. ASSUME NEW j \in Tasks, Is(j, "waiting")'
        PROVE  /\ task'[j].lock \in Tasks
               /\ \E i \in DOMAIN waiters'[task'[j].lock] : waiters'[task'[j].lock][i] = j
    <3>1. \A i \in DOMAIN waiters[l] : i \in DOMAIN Append(waiters[l], k) /\ Append(waiters[l], k)[i] = waiters[l][i]
      BY <1>4, <1>6
    <3>2. \E i \in DOMAIN Append(waiters[l], k) : Append(waiters[l], k)[i] = k
      <4>1. Len(waiters[l]) + 1 \in DOMAIN Append(waiters[l], k) /\ Append(waiters[l], k)[Len(waiters[l]) + 1] = k
        BY <1>4, <1>6
      <4> QED
        BY <4>1
    <3>3. CASE j = k
      <4>1. task'[k].lock = l /\ waiters'[l] = Append(waiters[l], k)
        BY <1>4, <1>6, <1>8 DEF Become
      <4> QED
        BY <1>4, <3>2, <3>3, <4>1
    <3>4. CASE j # k
      <4>1. task'[j] = task[j] /\ Is(j, "waiting")
        BY <1>6, <1>8, <2>3, <3>4 DEF Become, Is
      <4>2. task[j].lock \in Tasks /\ \E i \in DOMAIN waiters[task[j].lock] : waiters[task[j].lock][i] = j
        BY <4>1 DEF TypeInv, WaitersListed
      <4>3. waiters'[task[j].lock] = IF task[j].lock = l THEN Append(waiters[l], k) ELSE waiters[task[j].lock]
        BY <1>6, <1>8, <4>2
      <4> QED
        BY <3>1, <4>1, <4>2, <4>3
    <3> QED
      BY <3>3, <3>4
  <2>4. WaitersListed'
    BY <2>3 DEF WaitersListed
  <2> QED
    BY <1>5, <2>1, <2>2, <2>4 DEF TypeInv, TypeOK, PCs, RequestLock
<1> QED
  BY <1>1, <1>2, <1>7, <1>8

(* The first of a queue leaves it.                                          *)
LEMMA AcquireTyped == ASSUME TypeInv, NEW k \in Tasks, AcquireLock(k) PROVE TypeInv'
<1>1. PICK l : l = task[k].lock
  OBVIOUS
<1>2. /\ Is(k, "waiting") /\ Head(waiters[l]) = k /\ Enter(k, l)
      /\ waiters' = [waiters EXCEPT ![l] = Tail(@)]
      /\ UNCHANGED <<pending, tables, answers, restarts>>
  BY <1>1 DEF AcquireLock
<1>3. l \in Tasks /\ waiters[l] \in Seq(Tasks) /\ \E i \in DOMAIN waiters[l] : waiters[l][i] = k
  BY <1>1, <1>2 DEF TypeInv, TypeOK, WaitersListed
<1>4. /\ Tail(waiters[l]) \in Seq(Tasks)
      /\ \A i \in DOMAIN waiters[l] : i # 1 => /\ i - 1 \in DOMAIN Tail(waiters[l])
                                             /\ Tail(waiters[l])[i - 1] = waiters[l][i]
  <2>1. waiters[l] # <<>>
    BY <1>3
  <2> QED
    BY <1>3, <2>1
<1>5. task \in [Tasks -> [pc: PCs, lock: Tasks \cup {NoLock}]] /\ waiters \in [Tasks -> Seq(Tasks)]
  BY DEF TypeInv, TypeOK, PCs
<1>6. PICK pc \in {"superseded", "calling"}, held \in {l, NoLock} : Become(k, pc, held)
  BY <1>2 DEF Enter, End
<1>7. task' \in [Tasks -> [pc: PCs, lock: Tasks \cup {NoLock}]]
  BY <1>3, <1>6, BecomeTyped DEF PCs, Inside, Ended
<1>8. waiters' \in [Tasks -> Seq(Tasks)]
  BY <1>2, <1>3, <1>4, <1>5
<1>9. ASSUME NEW j \in Tasks, Is(j, "waiting")'
      PROVE  /\ task'[j].lock \in Tasks
             /\ \E i \in DOMAIN waiters'[task'[j].lock] : waiters'[task'[j].lock][i] = j
  <2>1. j # k /\ task'[j] = task[j] /\ Is(j, "waiting")
    BY <1>5, <1>6, <1>9 DEF Become, Is
  <2>2. task[j].lock \in Tasks /\ \E i \in DOMAIN waiters[task[j].lock] : waiters[task[j].lock][i] = j
    BY <2>1 DEF TypeInv, WaitersListed
  <2>3. CASE task[j].lock = l
    <3>1. PICK i \in DOMAIN waiters[l] : waiters[l][i] = j
      BY <2>2, <2>3
    <3>2. i # 1
      BY <1>2, <1>3, <2>1, <3>1
    <3>3. waiters'[l] = Tail(waiters[l])
      BY <1>2, <1>3, <1>5
    <3>4. i - 1 \in DOMAIN Tail(waiters[l]) /\ Tail(waiters[l])[i - 1] = j
      BY <1>4, <3>1, <3>2
    <3> QED
      BY <1>3, <2>1, <2>3, <3>3, <3>4
  <2>4. CASE task[j].lock # l
    <3>1. waiters'[task[j].lock] = waiters[task[j].lock]
      BY <1>2, <1>5, <2>2, <2>4
    <3> QED
      BY <2>1, <2>2, <3>1
  <2> QED
    BY <2>3, <2>4
<1>10. WaitersListed'
  BY <1>9 DEF WaitersListed
<1> QED
  BY <1>2, <1>7, <1>8, <1>10 DEF TypeInv, TypeOK, PCs, tables

LEMMA OtherTaskTyped ==
    ASSUME TypeInv, NEW k \in Tasks,
           \/ EnqueueGraphRag(k) \/ ConsumeLinkCode(k) \/ ConfirmLink(k) \/ OrchestratorReturns(k) \/ Send(k)
    PROVE  TypeInv'
<1>1. UNCHANGED <<seen, latest, locks, waiters, restarts>> /\ UpdateOf(k) \in Updates /\ ChatOfTask(k) \in Chats
  BY UpdateOfTask DEF EnqueueGraphRag, ConsumeLinkCode, ConfirmLink, OrchestratorReturns, Send, tables
<1>2. pending' \subseteq Updates
  BY RespondTyped DEF EnqueueGraphRag, ConsumeLinkCode, ConfirmLink, OrchestratorReturns, Send, TypeInv, TypeOK
<1>3. PICK pc \in PCs \ {"waiting"}, l \in Tasks \cup {NoLock} : Become(k, pc, l)
  <2>1. task[k].lock \in Tasks \cup {NoLock}
    BY DEF TypeInv, TypeOK
  <2>2. CASE EnqueueGraphRag(k) \/ ConsumeLinkCode(k) \/ ConfirmLink(k)
    BY <2>2 DEF EnqueueGraphRag, ConsumeLinkCode, ConfirmLink, End, PCs, Handling, Inside, Ended
  <2>3. CASE OrchestratorReturns(k) \/ Send(k)
    BY <2>1, <2>3 DEF OrchestratorReturns, Send, AfterHttpError, End, PCs, Handling, Inside, Ended
  <2> QED
    BY <2>2, <2>3
<1>4. task' \in [Tasks -> [pc: PCs, lock: Tasks \cup {NoLock}]] /\ WaitersListed'
  BY <1>1, <1>3, BecomeTyped
<1>5. answers' \in [Chats -> Seq(Updates)]
  <2>1. answers \in [Chats -> Seq(Updates)]
    BY DEF TypeInv, TypeOK
  <2>2. answers' \in {answers, [answers EXCEPT ![ChatOfTask(k)] = Append(@, UpdateOf(k))]}
    BY DEF EnqueueGraphRag, ConsumeLinkCode, ConfirmLink, OrchestratorReturns, Send
  <2>3. Append(answers[ChatOfTask(k)], UpdateOf(k)) \in Seq(Updates)
    BY <1>1, <2>1
  <2> QED
    BY <2>1, <2>2, <2>3
<1> QED
  BY <1>1, <1>2, <1>4, <1>5 DEF TypeInv, TypeOK, PCs

LEMMA RestartTyped == ASSUME TypeInv, Restart PROVE TypeInv'
<1>1. task' \in [Tasks -> [pc: PCs, lock: Tasks \cup {NoLock}]] /\ WaitersListed'
  BY DEF Restart, Idle, PCs, Ended, TypeInv, TypeOK, WaitersListed, Is
<1>2. /\ pending' \subseteq Updates /\ seen' \in Seq(Updates) /\ Len(seen') <= DedupeLimit
      /\ latest' \in TableOf(Chats, Updates) /\ Len(latest') <= LatestLimit /\ locks' \in TableOf(Chats, Tasks)
  BY GatewayAssumption DEF Restart, TypeInv, TypeOK, TableOf
<1>3. /\ waiters' \in [Tasks -> Seq(Tasks)] /\ answers' \in [Chats -> Seq(Updates)] /\ restarts' \in 0..MaxRestarts
  BY GatewayAssumption DEF Restart, TypeInv, TypeOK
<1> QED
  BY <1>1, <1>2, <1>3 DEF TypeInv, TypeOK, PCs

LEMMA TypeInvHolds == Spec => []TypeInv
<1>1. Init => TypeInv
  <2> SUFFICES ASSUME Init PROVE TypeInv
    OBVIOUS
  <2>1. task \in [Tasks -> [pc: PCs, lock: Tasks \cup {NoLock}]] /\ WaitersListed
    BY DEF Init, Idle, PCs, WaitersListed, Is
  <2>2. /\ seen \in Seq(Updates) /\ Len(seen) <= DedupeLimit
        /\ latest \in TableOf(Chats, Updates) /\ Len(latest) <= LatestLimit /\ locks \in TableOf(Chats, Tasks)
    BY GatewayAssumption DEF Init, TableOf
  <2>3. waiters \in [Tasks -> Seq(Tasks)] /\ answers \in [Chats -> Seq(Updates)] /\ restarts \in 0..MaxRestarts
    BY GatewayAssumption DEF Init
  <2> QED
    BY <2>1, <2>2, <2>3 DEF Init, TypeInv, TypeOK, PCs
<1>2. TypeInv /\ [Next]_vars => TypeInv'
  <2> SUFFICES ASSUME TypeInv, [Next]_vars PROVE TypeInv'
    OBVIOUS
  <2>1. CASE UNCHANGED vars
    BY <2>1 DEF vars, TypeInv, TypeOK, WaitersListed, Is
  <2>2. ASSUME NEW k \in Tasks, TaskStep(k) PROVE TypeInv'
    BY <2>2, RequestTyped, AcquireTyped, OtherTaskTyped DEF TaskStep
  <2> QED
    BY <2>1, <2>2, WebhookTyped, RestartTyped DEF Next
<1> QED
  BY <1>1, <1>2, PTL DEF Spec

(* Every table, queue and task is well formed, and the bounded tables keep  *)
(* to their bounds, whatever expires and is evicted.                        *)
THEOREM TypeCorrect == Spec => []TypeOK
<1>1. TypeInv => TypeOK
  BY DEF TypeInv
<1> QED
  BY <1>1, TypeInvHolds, PTL

-----------------------------------------------------------------------------
(* What the tables remember                                                 *)

(* No identifier expires, and there is room for all of them.                *)
Remembers == ~LongSilences /\ Cardinality(Updates) <= DedupeLimit

(* Or nobody sends a bare /graphrag, which leaves no task to remember it.   *)
UsageRemembered == Remembers \/ \A u \in Updates : kind[u] # "usage"

SeenOnce == \A i, j \in DOMAIN seen : seen[i] = seen[j] => i = j

(* An identifier is consumed once, and then known until a restart.          *)
LEMMA ConsumeRemembers ==
    ASSUME Remembers, TypeOK, SeenOnce, NEW u \in Updates, Consume(u)
    PROVE  /\ ~Known(u, seen) /\ SeenOnce'
           /\ \A v : Known(v, seen') <=> Known(v, seen) \/ v = u
<1>1. seen \in Seq(Updates) /\ Len(seen) \in Nat /\ DOMAIN seen = 1..Len(seen) /\ DedupeLimit \in Nat
  BY GatewayAssumption DEF TypeOK
<1>2. ~Known(u, seen) /\ seen' = Newest(Append(seen, u), DedupeLimit)
  <2>1. PICK ids \in Remembered : ~Known(u, ids) /\ seen' = Recorded(u, ids)
    BY DEF Consume
  <2>2. ids = seen
    BY <1>1, <2>1, NothingDropped DEF Remembered, Remembers
  <2> QED
    BY <2>1, <2>2 DEF Recorded
<1> DEFINE s == Append(seen, u)
<1>3. /\ s \in Seq(Updates) /\ Len(s) = Len(seen) + 1 /\ DOMAIN s = 1..Len(s) /\ s[Len(s)] = u
      /\ \A i \in DOMAIN seen : s[i] = seen[i]
  BY <1>1
<1>4. \A i, j \in DOMAIN s : s[i] = s[j] => i = j
  BY <1>1, <1>2, <1>3 DEF SeenOnce, Known
<1>5. Len(s) <= DedupeLimit
  <2> HIDE DEF s
  <2>1. s \in Injection(1..Len(s), Updates)
    BY <1>3, <1>4 DEF Injection, IsInjective
  <2>2. Cardinality(1..Len(s)) <= Cardinality(Updates) /\ Cardinality(Updates) \in Nat
    BY <2>1, FS_Injection, FS_CardinalityType, GatewayAssumption
  <2>3. Cardinality(1..Len(s)) = Len(s) /\ Len(s) \in Nat
    BY <1>1, <1>3, FS_Interval
  <2> QED
    BY <1>1, <2>2, <2>3 DEF Remembers
<1>6. seen' = s
  <2> HIDE DEF s
  <2>1. Newest(s, DedupeLimit) = s
    BY <1>1, <1>3, <1>5, NewestFacts
  <2> QED
    BY <1>2, <2>1 DEF s
<1>7. \A v : Known(v, seen') <=> Known(v, seen) \/ v = u
  BY <1>1, <1>3, <1>6 DEF Known
<1> QED
  BY <1>2, <1>4, <1>6, <1>7 DEF SeenOnce

LEMMA DuplicateRemembers ==
    ASSUME Remembers, TypeOK, NEW u, IgnoreDuplicate(u)
    PROVE  UNCHANGED seen
<1>1. PICK ids \in Remembered : seen' = ids
  BY DEF IgnoreDuplicate
<1>2. ids = seen
  BY <1>1, NothingDropped DEF Remembered, Remembers, TypeOK
<1> QED
  BY <1>1, <1>2

(* Marking a chat writes one row at most.                                   *)
LEMMA NewestKeeps ==
    ASSUME NEW V, NEW d \in Table(V), UniqueKeys(d), NEW limit \in Nat
    PROVE  UniqueKeys(Newest(d, limit)) /\ Entries(Newest(d, limit)) \subseteq Entries(d)
<1> DEFINE e == Newest(d, limit)
<1>1. d \in Seq(Row(V)) /\ Len(d) \in Nat /\ DOMAIN d = 1..Len(d)
  BY DEF Table
<1>2. e \in Seq(Row(V)) /\ \E n \in 0..Len(d) : Len(e) = Len(d) - n /\ \A i \in 1..(Len(d) - n) : e[i] = d[n + i]
  <2>1. PICK S : S = Row(V)
    OBVIOUS
  <2>2. d \in Seq(S)
    BY <1>1, <2>1
  <2> HIDE DEF e
  <2>3. e = Newest(d, limit)
    BY DEF e
  <2> QED
    BY <2>1, <2>2, <2>3, NewestFacts
<1> HIDE DEF e
<1>3. PICK n \in 0..Len(d) : Len(e) = Len(d) - n /\ \A i \in 1..(Len(d) - n) : e[i] = d[n + i]
  BY <1>2
<1>4. \A i \in DOMAIN e : n + i \in DOMAIN d /\ e[i] = d[n + i] /\ i \in Nat
  BY <1>1, <1>2, <1>3
<1>5. UniqueKeys(e)
  <2> SUFFICES ASSUME NEW i \in DOMAIN e, NEW j \in DOMAIN e, e[i].key = e[j].key PROVE i = j
    BY DEF UniqueKeys
  <2>1. n + i = n + j
    BY <1>4 DEF UniqueKeys
  <2> QED
    BY <1>4, <2>1
<1>6. Entries(e) \subseteq Entries(d)
  BY <1>4 DEF Entries
<1> QED
  BY <1>5, <1>6 DEF e

LEMMA MarkKeeps ==
    ASSUME TypeOK, UniqueKeys(latest), NEW u \in Updates, Mark(u)
    PROVE  /\ UniqueKeys(latest')
           /\ Entries(latest') \subseteq Entries(latest) \cup {[key |-> chatOf[u], val |-> u]}
<1>1. PICK d \in Unexpired(latest, Keys(latest)) : latest' = Marked(u, d)
  BY DEF Mark
<1>2. latest \in Table(Updates) /\ chatOf[u] \in Chats /\ LatestLimit \in Nat
  BY GatewayAssumption DEF TypeOK, TableOf, Table, Row
<1>3. d \in Table(Updates) /\ UniqueKeys(d) /\ Entries(d) \subseteq Entries(latest)
  BY <1>1, <1>2, ExpiryKeeps
<1>4. PICK e \in {d, Put(d, chatOf[u], u)} : latest' = Newest(e, LatestLimit)
  BY <1>1 DEF Marked
<1>5. e \in Table(Updates) /\ UniqueKeys(e) /\ Entries(e) \subseteq Entries(d) \cup {[key |-> chatOf[u], val |-> u]}
  BY <1>2, <1>3, <1>4, PutKeeps
<1> QED
  BY <1>2, <1>3, <1>4, <1>5, NewestKeeps

-----------------------------------------------------------------------------
(* Who gives up                                                             *)

Answerable(k) == task[k].pc \notin {"none", "superseded"}

(* The user will hear, or has heard, of this update or of a newer one.      *)
Vouched(v) ==
    \/ kind[v] = "usage" /\ Known(v, seen)
    \/ \E j \in Tasks : UpdateOf(j) = v /\ Answerable(j)

(* The property alone is not inductive: the update a task gave up for can   *)
(* be given up itself, but only for the one its chat is marked with.        *)
SupersededInv ==
    /\ Remembers => SeenOnce
    /\ UniqueKeys(latest)
    /\ \A x \in Entries(latest) : chatOf[x.val] = x.key /\ Vouched(x.val)
    /\ \A k \in Tasks : Is(k, "superseded") =>
          \E v \in Updates : chatOf[v] = ChatOfTask(k) /\ UpdateOf(k) < v /\ Vouched(v)

(* A step in which no task gives up.                                        *)
LEMMA GoOnStep ==
    ASSUME TypeOK, SupersededInv,
           \A j \in Tasks : (Answerable(j) => Answerable(j)') /\ (Is(j, "superseded")' => Is(j, "superseded")),
           \A v \in Updates : kind[v] = "usage" /\ Known(v, seen) => Known(v, seen'),
           Remembers => SeenOnce', UniqueKeys(latest'),
           \A x \in Entries(latest') : x \in Entries(latest) \/ (chatOf[x.val] = x.key /\ Vouched(x.val)')
    PROVE  SupersededInv'
<1>1. \A v \in Updates : Vouched(v) => Vouched(v)'
  BY DEF Vouched
<1>2. \A x \in Entries(latest) : x.val \in Updates
  <2>1. latest \in Table(Updates)
    BY DEF TypeOK, TableOf, Table, Row
  <2> QED
    BY <2>1, Rows DEF Entries, Row
<1> QED
  BY <1>1, <1>2 DEF SupersededInv, ChatOfTask, UpdateOf

(* A task gives up: its update is not the one its chat is marked with.      *)
LEMMA GiveUpStep ==
    ASSUME TypeOK, SupersededInv, NEW k \in Tasks, End(k, "superseded"), Stale(UpdateOf(k)), UNCHANGED <<seen, latest>>
    PROVE  SupersededInv'
<1>1. PICK u \in Updates : u = UpdateOf(k) /\ u \in Nat
  BY UpdateOfTask, GatewayAssumption
<1>2. latest \in Table(Updates) /\ UniqueKeys(latest)
  BY DEF TypeOK, TableOf, Table, Row, SupersededInv
<1>3. PICK w \in Updates : w = ValueAt(latest, chatOf[u]) /\ u < w
  BY <1>1, <1>2, ValueTyped DEF Stale
<1>4. \A x \in Entries(latest) : x.val # u
  <2> SUFFICES ASSUME NEW i \in DOMAIN latest, latest[i].val = u PROVE FALSE
    BY DEF Entries
  <2>1. latest[i].key = chatOf[u]
    BY DEF SupersededInv, Entries
  <2>2. w = u
    BY <1>2, <1>3, <2>1, ValueUnique
  <2> QED
    BY <1>1, <1>3, <2>2
<1>5. PICK x \in Entries(latest) : x.key = chatOf[u] /\ x.val = w
  <2>1. PICK i \in DOMAIN latest : latest[i].key = chatOf[u]
    BY <1>1 DEF Stale, Has
  <2>2. latest[i].val = w
    BY <1>2, <1>3, <2>1, ValueUnique
  <2> QED
    BY <2>1, <2>2 DEF Entries
<1>6. \A j \in Tasks : task'[j] = IF j = k THEN [pc |-> "superseded", lock |-> NoLock] ELSE task[j]
  BY DEF End, Become, TypeOK
<1>7. \A v : Vouched(v) /\ v # u => Vouched(v)'
  BY <1>1, <1>6 DEF Vouched, Answerable
<1>8. chatOf[w] = chatOf[u] /\ Vouched(w)' /\ w \in Nat
  BY <1>1, <1>3, <1>5, <1>7, GatewayAssumption DEF SupersededInv
<1>9. ASSUME NEW j \in Tasks, Is(j, "superseded")'
      PROVE  \E v \in Updates : chatOf[v] = ChatOfTask(j) /\ UpdateOf(j) < v /\ Vouched(v)'
  <2>1. CASE j = k
    BY <1>1, <1>3, <1>8, <2>1 DEF ChatOfTask
  <2>2. CASE j # k
    <3>1. PICK v \in Updates : chatOf[v] = ChatOfTask(j) /\ UpdateOf(j) < v /\ Vouched(v)
      BY <1>6, <1>9, <2>2 DEF SupersededInv, Is
    <3>2. CASE v # u
      BY <1>7, <3>1, <3>2
    <3>3. CASE v = u
      <4>1. UpdateOf(j) \in Nat
        BY UpdateOfTask, GatewayAssumption
      <4>2. UpdateOf(j) < w
        BY <1>1, <1>3, <1>8, <3>1, <3>3, <4>1
      <4> QED
        BY <1>8, <3>1, <3>3, <4>2
    <3> QED
      BY <3>2, <3>3
  <2> QED
    BY <2>1, <2>2
<1> QED
  BY <1>4, <1>7, <1>9 DEF SupersededInv, SeenOnce, UniqueKeys, Entries, ChatOfTask, UpdateOf

(* A task that enters gives up, or goes on.                                 *)
LEMMA EnterStep ==
    ASSUME TypeOK, SupersededInv, NEW k \in Tasks, NEW l, task[k].pc \in {"queued", "waiting"},
           Enter(k, l) \/ Become(k, "waiting", l), UNCHANGED <<seen, latest>>
    PROVE  SupersededInv'
<1>1. CASE End(k, "superseded") /\ Stale(UpdateOf(k))
  BY <1>1, GiveUpStep
<1>2. CASE \E pc \in {"calling", "waiting"} : Become(k, pc, l)
  <2>1. \A j \in Tasks : (Answerable(j) => Answerable(j)') /\ (Is(j, "superseded")' => Is(j, "superseded"))
    BY <1>2 DEF Become, Answerable, Is, TypeOK
  <2> QED
    BY <2>1, GoOnStep DEF SupersededInv, SeenOnce, UniqueKeys, Entries
<1> QED
  BY <1>1, <1>2 DEF Enter

LEMMA TaskStepSuperseded == ASSUME TypeOK, SupersededInv, NEW k \in Tasks, TaskStep(k) PROVE SupersededInv'
<1>1. UNCHANGED <<seen, latest>>
  BY DEF TaskStep, EnqueueGraphRag, ConsumeLinkCode, ConfirmLink, RequestLock, AcquireLock, OrchestratorReturns, Send,
     tables
<1>2. CASE RequestLock(k) \/ AcquireLock(k)
  <2>1. \E l : Enter(k, l) \/ Become(k, "waiting", l)
    BY <1>2 DEF RequestLock, AcquireLock
  <2>2. task[k].pc \in {"queued", "waiting"}
    BY <1>2 DEF RequestLock, AcquireLock, Is
  <2> QED
    BY <1>1, <2>1, <2>2, EnterStep
<1>3. CASE End(k, "superseded") /\ Stale(UpdateOf(k))
  BY <1>1, <1>3, GiveUpStep
<1>4. ASSUME NEW pc, NEW l, Become(k, pc, l), pc \notin {"none", "superseded"} PROVE SupersededInv'
  <2>1. \A j \in Tasks : (Answerable(j) => Answerable(j)') /\ (Is(j, "superseded")' => Is(j, "superseded"))
    BY <1>4 DEF Become, Answerable, Is, TypeOK
  <2> QED
    BY <1>1, <2>1, GoOnStep DEF SupersededInv, SeenOnce, UniqueKeys, Entries
<1>5. CASE EnqueueGraphRag(k) \/ ConsumeLinkCode(k) \/ ConfirmLink(k) \/ Send(k)
  <2>1. \E pc \in {"queued", "confirming", "dropped", "replied", "sendingPlain"} : \E l : Become(k, pc, l)
    BY <1>5 DEF EnqueueGraphRag, ConsumeLinkCode, ConfirmLink, Send, End
  <2> QED
    BY <1>4, <2>1
<1>6. CASE OrchestratorReturns(k)
  <2>1. \/ End(k, "superseded") /\ Stale(UpdateOf(k))
        \/ \E pc \in {"sending", "notice", "recalling", "fallback", "dropped"} : \E l : Become(k, pc, l)
    BY <1>6 DEF OrchestratorReturns, AfterHttpError, End
  <2> QED
    BY <1>3, <1>4, <2>1
<1> QED
  BY <1>2, <1>5, <1>6 DEF TaskStep

LEMMA WebhookSuperseded ==
    ASSUME UsageRemembered, TypeOK, SupersededInv, NEW u \in Updates,
           \/ IgnoreDuplicate(u) \/ AcceptAside(u)
           \/ \E k \in Tasks : AcceptText(u, k) \/ AcceptGraphRag(u, k) \/ AcceptLink(u, k)
    PROVE  SupersededInv'
<1>1. CASE IgnoreDuplicate(u)
  <2>1. UNCHANGED <<latest, task>> /\ (Remembers => UNCHANGED seen)
    BY <1>1, DuplicateRemembers DEF IgnoreDuplicate
  <2> QED
    BY <2>1, GoOnStep DEF UsageRemembered, SupersededInv, SeenOnce, UniqueKeys, Entries, Answerable, Is
<1>2. ASSUME Consume(u), UNCHANGED latest \/ (Mark(u) /\ Vouched(u)'),
             \A j \in Tasks : (Answerable(j) => Answerable(j)') /\ (Is(j, "superseded")' => Is(j, "superseded"))
      PROVE  SupersededInv'
  <2>1. /\ Remembers => SeenOnce'
        /\ \A v \in Updates : kind[v] = "usage" /\ Known(v, seen) => Known(v, seen')
    BY <1>2, ConsumeRemembers DEF SupersededInv, UsageRemembered
  <2>2. CASE UNCHANGED latest
    BY <1>2, <2>1, <2>2, GoOnStep DEF SupersededInv, UniqueKeys, Entries
  <2>3. CASE Mark(u) /\ Vouched(u)'
    <3>1. UniqueKeys(latest') /\ Entries(latest') \subseteq Entries(latest) \cup {[key |-> chatOf[u], val |-> u]}
      BY <2>3, MarkKeeps DEF SupersededInv
    <3>2. \A x \in Entries(latest') : x \in Entries(latest) \/ (chatOf[x.val] = x.key /\ Vouched(x.val)')
      BY <2>3, <3>1
    <3> QED
      BY <1>2, <2>1, <3>1, <3>2, GoOnStep
  <2> QED
    BY <1>2, <2>2, <2>3
<1>3. CASE AcceptAside(u)
  <2>1. Consume(u) /\ UNCHANGED task
    BY <1>3 DEF AcceptAside
  <2>2. kind[u] = "usage" => Known(u, seen')
    BY <2>1, ConsumeRemembers DEF SupersededInv, UsageRemembered
  <2>3. UNCHANGED latest \/ (Mark(u) /\ Vouched(u)')
    BY <1>3, <2>2 DEF AcceptAside, Vouched
  <2> QED
    BY <1>2, <2>1, <2>3 DEF Answerable, Is
<1>4. ASSUME NEW k \in Tasks, AcceptText(u, k) \/ AcceptGraphRag(u, k) \/ AcceptLink(u, k)
      PROVE  SupersededInv'
  <2>1. PICK pc \in {"queued", "acking", "linking"} : Become(k, pc, NoLock)
    BY <1>4 DEF AcceptText, AcceptGraphRag, AcceptLink
  <2>2. Consume(u) /\ (Mark(u) \/ UNCHANGED latest) /\ UpdateOf(k) = u
    BY <1>4 DEF AcceptText, AcceptGraphRag, AcceptLink, IsNextTask
  <2>3. \A j \in Tasks : (Answerable(j) => Answerable(j)') /\ (Is(j, "superseded")' => Is(j, "superseded"))
    BY <2>1 DEF Become, Answerable, Is, TypeOK
  <2>4. Answerable(k)'
    BY <2>1 DEF Become, Answerable, TypeOK
  <2>5. Vouched(u)'
    BY <2>2, <2>4 DEF Vouched
  <2> QED
    BY <1>2, <2>2, <2>3, <2>5
<1> QED
  BY <1>1, <1>3, <1>4

(* A task gives up its answer only in favour of a newer message of the chat *)
(* that is itself not given up.  Only that a bare /graphrag is remembered   *)
(* is assumed, not that any table has room for the others.                  *)
THEOREM Superseded == ASSUME UsageRemembered PROVE Spec => []SupersededByLiveUpdate
<1>1. Init => SupersededInv
  BY DEF Init, Idle, SupersededInv, SeenOnce, UniqueKeys, Entries, Is
<1>2. TypeInv /\ SupersededInv /\ [Next]_vars => SupersededInv'
  <2> SUFFICES ASSUME TypeOK, SupersededInv, [Next]_vars PROVE SupersededInv'
    BY DEF TypeInv
  <2>1. CASE UNCHANGED vars
    BY <2>1, GoOnStep DEF vars, SupersededInv, SeenOnce, UniqueKeys, Entries, Answerable, Is
  <2>2. CASE Restart
    <3>1. \A k \in Tasks : ~Is(k, "superseded")'
      BY <2>2 DEF Restart, Is, Idle
    <3>2. seen' = <<>> /\ latest' = <<>>
      BY <2>2 DEF Restart
    <3> QED
      BY <3>1, <3>2 DEF SupersededInv, SeenOnce, UniqueKeys, Entries
  <2> QED
    BY <2>1, <2>2, WebhookSuperseded, TaskStepSuperseded DEF Next
<1>3. TypeInv /\ SupersededInv => SupersededByLiveUpdate
  <2> SUFFICES ASSUME SupersededInv, NEW k \in Tasks, Is(k, "superseded")
               PROVE  \/ \E j \in Tasks : /\ ChatOfTask(j) = ChatOfTask(k)
                                          /\ UpdateOf(k) < UpdateOf(j)
                                          /\ task[j].pc \notin {"none", "superseded"}
                      \/ \E u \in Updates : /\ kind[u] = "usage" /\ chatOf[u] = ChatOfTask(k)
                                            /\ UpdateOf(k) < u /\ Known(u, seen)
    BY DEF SupersededByLiveUpdate
  <2>1. PICK v \in Updates : chatOf[v] = ChatOfTask(k) /\ UpdateOf(k) < v /\ Vouched(v)
    BY DEF SupersededInv
  <2> QED
    BY <2>1 DEF Vouched, Answerable, ChatOfTask
<1> QED
  BY <1>1, <1>2, <1>3, TypeInvHolds, PTL DEF Spec

-----------------------------------------------------------------------------
(* The order of the answers                                                 *)

(* No table forgets anything.                                               *)
AllRoom == Remembers /\ Room /\ Cardinality(Chats) <= LatestLimit

(* An update is answered by one of its tasks at most, as only one gets past *)
(* the identifiers; a task goes on with the newest update its chat is       *)
(* marked with, which no answer of the chat can be newer than; and it is    *)
(* alone with that.                                                         *)
Active(k) == task[k].pc \notin {"none", "dropped"}
Marking == {"acking", "queued", "waiting"} \cup Inside
AtMostMark(c, v) == Has(latest, c) /\ v <= ValueAt(latest, c)

OrderInv ==
    /\ SeenOnce /\ UniqueKeys(latest)
    /\ \A k \in Tasks : Active(k) => Known(UpdateOf(k), seen)
    /\ \A j, k \in Tasks : Active(j) /\ Active(k) /\ UpdateOf(j) = UpdateOf(k) => j = k
    /\ \A k \in Tasks : task[k].pc \in Marking => AtMostMark(ChatOfTask(k), UpdateOf(k))
    /\ \A c \in Chats : \A i \in DOMAIN answers[c] :
          AtMostMark(c, answers[c][i]) /\ \E k \in Tasks : UpdateOf(k) = answers[c][i] /\ Is(k, "replied")
    /\ \A k \in Tasks : task[k].pc \in Inside =>
          \A i \in DOMAIN answers[ChatOfTask(k)] : answers[ChatOfTask(k)][i] < UpdateOf(k)
    /\ AnswersInOrder

(* Marks only rise.                                                         *)
LEMMA MarkRises ==
    ASSUME AllRoom, TypeOK, UniqueKeys(latest), NEW u \in Updates, Mark(u)
    PROVE  /\ UniqueKeys(latest') /\ AtMostMark(chatOf[u], u)'
           /\ \A c, v : v \in Nat /\ AtMostMark(c, v) => AtMostMark(c, v)'
<1>1. PICK c \in Chats : c = chatOf[u]
  BY GatewayAssumption
<1>2. latest \in Table(Updates) /\ LatestLimit \in Nat /\ u \in Nat /\ Updates \subseteq Nat
  BY GatewayAssumption DEF TypeOK, TableOf, Table, Row
<1>3. latest' = Marked(u, latest)
  BY DEF Mark, Unexpired, AllRoom, Remembers
<1>4. \A d \in Table(Updates) : UniqueKeys(d) => Newest(d, LatestLimit) = d
  <2> SUFFICES ASSUME NEW d \in Table(Updates), UniqueKeys(d) PROVE Newest(d, LatestLimit) = d
    OBVIOUS
  <2>1. Len(d) <= LatestLimit
    BY <1>2, TableLength DEF AllRoom, Room
  <2>2. d \in Seq(Row(Updates))
    BY DEF Table
  <2> QED
    BY <1>2, <2>1, <2>2, NewestFacts
<1>5. CASE Has(latest, c) /\ u < ValueAt(latest, c)
  <2>1. latest' = latest
    BY <1>1, <1>2, <1>3, <1>4, <1>5 DEF Marked
  <2>2. ValueAt(latest, c) \in Nat
    BY <1>2, <1>5, ValueTyped
  <2> QED
    BY <1>1, <1>2, <1>5, <2>1, <2>2 DEF AtMostMark
<1>6. CASE ~(Has(latest, c) /\ u < ValueAt(latest, c))
  <2> DEFINE p == Put(latest, c, u)
  <2>1. /\ p \in Table(Updates) /\ UniqueKeys(p)
        /\ \E i \in DOMAIN p : p[i] = [key |-> c, val |-> u]
        /\ \A i \in DOMAIN latest : latest[i].key # c => \E j \in DOMAIN p : p[j] = latest[i]
    BY <1>2, PutKeeps
  <2>2. latest' = p
    BY <1>1, <1>3, <1>4, <1>6, <2>1 DEF Marked
  <2> HIDE DEF p
  <2>3. Has(p, c) /\ ValueAt(p, c) = u
    BY <2>1, ValueUnique
  <2>4. ASSUME NEW e, NEW v \in Nat, AtMostMark(e, v) PROVE Has(p, e) /\ v <= ValueAt(p, e)
    <3>1. ValueAt(latest, e) \in Nat
      BY <1>2, <2>4, ValueTyped DEF AtMostMark
    <3>2. CASE e = c
      BY <1>2, <1>6, <2>3, <2>4, <3>1, <3>2 DEF AtMostMark
    <3>3. CASE e # c
      <4>1. PICK i \in DOMAIN latest : latest[i].key = e
        BY <2>4 DEF AtMostMark, Has
      <4>2. PICK j \in DOMAIN p : p[j] = latest[i]
        BY <2>1, <3>3, <4>1
      <4>3. ValueAt(latest, e) = latest[i].val /\ Has(p, e) /\ ValueAt(p, e) = latest[i].val
        BY <1>2, <2>1, <4>1, <4>2, ValueUnique
      <4> QED
        BY <2>4, <4>3 DEF AtMostMark
    <3> QED
      BY <3>2, <3>3
  <2> QED
    BY <1>1, <1>2, <2>1, <2>2, <2>3, <2>4 DEF AtMostMark
<1> QED
  BY <1>5, <1>6

(* A task goes on, or ends without an answer.                               *)
LEMMA QuietTask ==
    ASSUME TypeOK, OrderInv, NEW k \in Tasks, NEW pc, NEW l, Become(k, pc, l), UNCHANGED <<seen, latest, answers>>,
           Active(k), ~Is(k, "replied"), pc \in Marking => task[k].pc \in Marking,
           pc \in Inside => task[k].pc \in Inside \/ ~Stale(UpdateOf(k))
    PROVE  OrderInv'
<1>1. \A j \in Tasks : task'[j] = IF j = k THEN [pc |-> pc, lock |-> l] ELSE task[j]
  BY DEF Become, TypeOK
<1>2. \A j \in Tasks : Active(j)' => Active(j)
  BY <1>1 DEF Active
<1>3. \A j \in Tasks : task'[j].pc \in Marking => task[j].pc \in Marking
  BY <1>1
<1>4. \A j \in Tasks : Is(j, "replied") => Is(j, "replied")'
  BY <1>1 DEF Is
<1>5. ASSUME NEW j \in Tasks, task'[j].pc \in Inside, NEW i \in DOMAIN answers[ChatOfTask(j)]
      PROVE  answers[ChatOfTask(j)][i] < UpdateOf(j)
  <2>1. CASE task[j].pc \in Inside
    BY <1>5, <2>1 DEF OrderInv
  <2>2. CASE task[j].pc \notin Inside
    <3>1. j = k /\ ~Stale(UpdateOf(k)) /\ task[k].pc \in Marking
      BY <1>1, <1>5, <2>2 DEF Marking
    <3> DEFINE c == ChatOfTask(k)
               v == answers[c][i]
    <3>2. AtMostMark(c, UpdateOf(k)) /\ c \in Chats /\ UpdateOf(k) \in Nat
      BY <3>1, UpdateOfTask, GatewayAssumption DEF OrderInv
    <3>3. ValueAt(latest, c) \in Nat
      <4>1. latest \in Table(Updates)
        BY DEF TypeOK, TableOf, Table, Row
      <4> QED
        BY <3>2, <4>1, ValueTyped, GatewayAssumption DEF AtMostMark
    <3>4. UpdateOf(k) = ValueAt(latest, c)
      BY <3>1, <3>2, <3>3 DEF Stale, AtMostMark, ChatOfTask
    <3>5. v \in Nat /\ v <= ValueAt(latest, c)
      <4>1. v \in Updates
        BY <1>5, <3>1, <3>2 DEF TypeOK
      <4> QED
        BY <1>5, <3>1, <3>2, <4>1, GatewayAssumption DEF OrderInv, AtMostMark
    <3>6. PICK m \in Tasks : UpdateOf(m) = v /\ Is(m, "replied")
      BY <1>5, <3>1, <3>2 DEF OrderInv
    <3>7. v # UpdateOf(k)
      BY <3>6 DEF OrderInv, Active, Is
    <3> QED
      BY <3>1, <3>2, <3>4, <3>5, <3>7
  <2> QED
    BY <2>1, <2>2
<1>6. AnswersInOrder' /\ SeenOnce' /\ UniqueKeys(latest')
  BY DEF OrderInv, AnswersInOrder, SeenOnce, UniqueKeys
<1>7. \A j, m \in Tasks : Active(j)' /\ Active(m)' /\ UpdateOf(j) = UpdateOf(m) => j = m
  BY <1>2 DEF OrderInv
<1>8. \A c \in Chats : \A i \in DOMAIN answers'[c] :
        AtMostMark(c, answers[c][i])' /\ \E j \in Tasks : UpdateOf(j) = answers'[c][i] /\ Is(j, "replied")'
  BY <1>4 DEF OrderInv, AtMostMark
<1>9. \A j \in Tasks : task'[j].pc \in Marking => AtMostMark(ChatOfTask(j), UpdateOf(j))'
  BY <1>3 DEF OrderInv, AtMostMark
<1> QED
  BY <1>2, <1>5, <1>6, <1>7, <1>8, <1>9 DEF OrderInv, Known

(* A task alone in its chat delivers its answer.                            *)
LEMMA AnswerStep ==
    ASSUME TypeOK, SerializedPerChat, OrderInv, NEW k \in Tasks, task[k].pc \in Inside, End(k, "replied"),
           answers' = [answers EXCEPT ![ChatOfTask(k)] = Append(@, UpdateOf(k))], UNCHANGED <<seen, latest>>
    PROVE  OrderInv'
<1>1. PICK c \in Chats, u \in Updates : c = ChatOfTask(k) /\ u = UpdateOf(k) /\ u \in Nat
  BY UpdateOfTask, GatewayAssumption
<1>2. \A j \in Tasks : task'[j] = IF j = k THEN [pc |-> "replied", lock |-> NoLock] ELSE task[j]
  BY DEF End, Become, TypeOK
<1>3. answers \in [Chats -> Seq(Updates)] /\ Updates \subseteq Nat
  BY GatewayAssumption DEF TypeOK
<1>4. \A e \in Chats : answers'[e] = IF e = c THEN Append(answers[c], u) ELSE answers[e]
  BY <1>1, <1>3
<1> DEFINE new == Append(answers[c], u)
           n == Len(answers[c]) + 1
<1>5. /\ DOMAIN new = 1..n /\ DOMAIN answers[c] = 1..(n - 1) /\ n \in Nat /\ new[n] = u
      /\ \A i \in 1..(n - 1) : new[i] = answers[c][i]
  BY <1>3
<1>6. Active(k) /\ AtMostMark(c, u) /\ \A i \in DOMAIN answers[c] : answers[c][i] < u
  BY <1>1 DEF OrderInv, Active, Marking, Inside
<1>7. \A j \in Tasks : (Active(j)' => Active(j)) /\ (Is(j, "replied") => Is(j, "replied")')
  BY <1>2, <1>6 DEF Active, Is
<1>8. \A j \in Tasks : task'[j].pc \in Inside => task[j].pc \in Inside /\ ChatOfTask(j) # c
  BY <1>1, <1>2 DEF SerializedPerChat, Inside
<1>9. \A j \in Tasks : task'[j].pc \in Marking => task[j].pc \in Marking
  BY <1>2 DEF Marking, Inside
<1>10. AnswersInOrder'
  <2> SUFFICES ASSUME NEW e \in Chats, NEW i \in DOMAIN answers'[e], NEW j \in DOMAIN answers'[e], i < j
               PROVE  answers'[e][i] < answers'[e][j]
    BY DEF AnswersInOrder
  <2>1. CASE e # c
    BY <1>4, <2>1 DEF OrderInv, AnswersInOrder
  <2>2. CASE e = c
    <3>1. answers'[e] = new /\ i \in 1..n /\ j \in 1..n
      BY <1>4, <1>5, <2>2
    <3> HIDE DEF new, n
    <3>2. i \in 1..(n - 1) /\ new[i] = answers[c][i]
      BY <1>5, <3>1
    <3>3. CASE j = n
      BY <1>5, <1>6, <3>1, <3>2, <3>3
    <3>4. CASE j # n
      <4>1. j \in 1..(n - 1) /\ new[j] = answers[c][j]
        BY <1>5, <3>1, <3>4
      <4>2. answers[c][i] < answers[c][j]
        BY <1>5, <3>2, <4>1 DEF OrderInv, AnswersInOrder
      <4> QED
        BY <3>1, <3>2, <4>1, <4>2
    <3> QED
      BY <3>3, <3>4
  <2> QED
    BY <2>1, <2>2
<1>11. ASSUME NEW e \in Chats, NEW i \in DOMAIN answers'[e]
       PROVE  AtMostMark(e, answers[e][i])' /\ \E j \in Tasks : UpdateOf(j) = answers'[e][i] /\ Is(j, "replied")'
  <2>1. ASSUME NEW v, AtMostMark(e, v), \E j \in Tasks : UpdateOf(j) = v /\ Is(j, "replied")', v = answers'[e][i]
        PROVE  AtMostMark(e, answers[e][i])' /\ \E j \in Tasks : UpdateOf(j) = answers'[e][i] /\ Is(j, "replied")'
    BY <2>1 DEF AtMostMark
  <2>2. CASE e = c /\ i = n
    <3>1. answers'[e][i] = u
      BY <1>4, <1>5, <2>2
    <3>2. Is(k, "replied")'
      BY <1>2 DEF Is
    <3> QED
      BY <1>1, <1>6, <2>1, <2>2, <3>1, <3>2
  <2>3. CASE ~(e = c /\ i = n)
    <3>1. i \in DOMAIN answers[e] /\ answers'[e][i] = answers[e][i]
      <4>1. CASE e # c
        BY <1>4, <4>1
      <4>2. CASE e = c
        <5>1. answers'[c] = new /\ i \in 1..n /\ i # n
          BY <1>4, <1>5, <2>3, <4>2
        <5> HIDE DEF new, n
        <5>2. i \in 1..(n - 1)
          BY <1>5, <5>1
        <5> QED
          BY <1>5, <4>2, <5>1, <5>2
      <4> QED
        BY <4>1, <4>2
    <3>2. AtMostMark(e, answers[e][i]) /\ \E j \in Tasks : UpdateOf(j) = answers[e][i] /\ Is(j, "replied")
      BY <3>1 DEF OrderInv
    <3> QED
      BY <1>7, <2>1, <3>1, <3>2
  <2> QED
    BY <2>2, <2>3
<1>12. \A j \in Tasks : task'[j].pc \in Inside =>
         \A i \in DOMAIN answers'[ChatOfTask(j)] : answers'[ChatOfTask(j)][i] < UpdateOf(j)
  BY <1>4, <1>8, UpdateOfTask DEF OrderInv
<1>13. SeenOnce' /\ UniqueKeys(latest') /\ \A j \in Tasks : Active(j)' => Known(UpdateOf(j), seen')
  BY <1>7 DEF OrderInv, SeenOnce, UniqueKeys
<1>14. \A j, m \in Tasks : Active(j)' /\ Active(m)' /\ UpdateOf(j) = UpdateOf(m) => j = m
  BY <1>7 DEF OrderInv
<1>15. \A j \in Tasks : task'[j].pc \in Marking => AtMostMark(ChatOfTask(j), UpdateOf(j))'
  BY <1>9 DEF OrderInv, AtMostMark
<1> QED
  BY <1>10, <1>11, <1>12, <1>13, <1>14, <1>15 DEF OrderInv

LEMMA TaskStepOrder ==
    ASSUME TypeOK, SerializedPerChat, OrderInv, NEW k \in Tasks, TaskStep(k) PROVE OrderInv'
<1>1. UNCHANGED <<seen, latest>>
  BY DEF TaskStep, EnqueueGraphRag, ConsumeLinkCode, ConfirmLink, RequestLock, AcquireLock, OrchestratorReturns, Send,
     tables
<1>2. CASE RequestLock(k) \/ AcquireLock(k)
  <2>1. task[k].pc \in {"queued", "waiting"} /\ UNCHANGED answers
    BY <1>2 DEF RequestLock, AcquireLock, Is
  <2>2. \E pc, l : /\ pc \in {"superseded", "calling", "waiting"} /\ Become(k, pc, l)
                   /\ (pc = "calling" => ~Stale(UpdateOf(k)))
    BY <1>2 DEF RequestLock, AcquireLock, Enter, End
  <2>3. PICK pc, l : /\ pc \in {"superseded", "calling", "waiting"} /\ Become(k, pc, l)
                     /\ (pc = "calling" => ~Stale(UpdateOf(k)))
    BY <2>2
  <2>4. Active(k) /\ ~Is(k, "replied") /\ task[k].pc \in Marking /\ (pc \in Inside => pc = "calling")
    BY <2>1, <2>3 DEF Active, Is, Marking, Inside
  <2> QED
    BY <1>1, <2>1, <2>3, <2>4, QuietTask
<1>3. CASE EnqueueGraphRag(k) \/ ConsumeLinkCode(k) \/ ConfirmLink(k)
  <2>1. task[k].pc \in Handling /\ UNCHANGED answers
    BY <1>3 DEF EnqueueGraphRag, ConsumeLinkCode, ConfirmLink, Is, Handling
  <2>2. PICK pc, l : /\ pc \in {"queued", "confirming", "dropped", "replied"} /\ Become(k, pc, l)
                     /\ (pc = "queued" => task[k].pc = "acking")
    BY <1>3 DEF EnqueueGraphRag, ConsumeLinkCode, ConfirmLink, End, Is
  <2>3. Active(k) /\ ~Is(k, "replied") /\ (pc \in Marking => pc = "queued") /\ pc \notin Inside /\ "acking" \in Marking
    BY <2>1, <2>2 DEF Active, Is, Marking, Inside, Handling
  <2> QED
    BY <1>1, <2>1, <2>2, <2>3, QuietTask
<1>4. CASE OrchestratorReturns(k) \/ Send(k)
  <2>1. task[k].pc \in Inside /\ Active(k) /\ ~Is(k, "replied") /\ task[k].pc \in Marking
    BY <1>4 DEF OrchestratorReturns, Send, Inside, Active, Is, Marking
  <2>2. CASE UNCHANGED answers
    <3>1. \E pc, l : Become(k, pc, l)
      BY <1>4 DEF OrchestratorReturns, Send, AfterHttpError, End
    <3> QED
      BY <1>1, <2>1, <2>2, <3>1, QuietTask
  <2>3. CASE ~UNCHANGED answers
    BY <1>1, <1>4, <2>1, <2>3, AnswerStep DEF OrchestratorReturns, Send
  <2> QED
    BY <2>2, <2>3
<1> QED
  BY <1>2, <1>3, <1>4 DEF TaskStep

(* An update that is accepted is not being handled yet.                     *)
LEMMA AcceptOrder ==
    ASSUME AllRoom, TypeOK, OrderInv, NEW u \in Updates, Consume(u), UNCHANGED answers,
           UNCHANGED latest \/ Mark(u),
           \/ UNCHANGED task
           \/ \E k \in Tasks : \E pc, l : /\ Become(k, pc, l) /\ UpdateOf(k) = u /\ task[k] = Idle
                                       /\ pc \notin Inside /\ (pc \in Marking => Mark(u))
    PROVE  OrderInv'
<1>1. ~Known(u, seen) /\ SeenOnce' /\ \A v : Known(v, seen') <=> Known(v, seen) \/ v = u
  BY ConsumeRemembers DEF AllRoom, OrderInv
<1>2. UniqueKeys(latest') /\ \A c, v : v \in Nat /\ AtMostMark(c, v) => AtMostMark(c, v)'
  BY MarkRises DEF OrderInv, AtMostMark, UniqueKeys
<1>3. Mark(u) => AtMostMark(chatOf[u], u)'
  BY MarkRises DEF OrderInv
<1>4. \A j \in Tasks : Active(j) => UpdateOf(j) # u
  BY <1>1 DEF OrderInv
<1>5. ASSUME NEW j \in Tasks
      PROVE  \/ task'[j] = task[j]
             \/ /\ UpdateOf(j) = u /\ task'[j].pc \notin Inside /\ ~Is(j, "replied")
                /\ (task'[j].pc \in Marking => Mark(u))
  BY DEF Become, TypeOK, Is, Idle
<1>6. \A j, m \in Tasks : UpdateOf(j) = u /\ Active(j)' /\ UpdateOf(m) = u /\ Active(m)' => j = m
  <2>1. \A j \in Tasks : UpdateOf(j) = u => ~Active(j)
    BY <1>4
  <2>2. CASE UNCHANGED task
    BY <2>1, <2>2 DEF Active
  <2>3. ASSUME NEW k \in Tasks, NEW pc, NEW l, Become(k, pc, l)
        PROVE  \A j \in Tasks : UpdateOf(j) = u /\ Active(j)' => j = k
    BY <2>1, <2>3 DEF Become, Active, TypeOK
  <2> QED
    BY <2>2, <2>3
<1>7. \A j \in Tasks : Active(j)' => Active(j) \/ UpdateOf(j) = u
  BY <1>5 DEF Active
<1>8. \A j \in Tasks : Active(j)' => Known(UpdateOf(j), seen')
  BY <1>1, <1>7 DEF OrderInv
<1>9. \A j, m \in Tasks : Active(j)' /\ Active(m)' /\ UpdateOf(j) = UpdateOf(m) => j = m
  BY <1>6, <1>7 DEF OrderInv
<1>10. \A j \in Tasks : task'[j].pc \in Marking => AtMostMark(ChatOfTask(j), UpdateOf(j))'
  <2> SUFFICES ASSUME NEW j \in Tasks, task'[j].pc \in Marking PROVE AtMostMark(ChatOfTask(j), UpdateOf(j))'
    OBVIOUS
  <2>1. CASE task'[j] = task[j]
    <3>1. AtMostMark(ChatOfTask(j), UpdateOf(j)) /\ UpdateOf(j) \in Nat
      BY <2>1, UpdateOfTask, GatewayAssumption DEF OrderInv
    <3> QED
      BY <1>2, <3>1
  <2>2. CASE task'[j] # task[j]
    BY <1>3, <1>5, <2>2 DEF ChatOfTask
  <2> QED
    BY <2>1, <2>2
<1>11. ASSUME NEW c \in Chats, NEW i \in DOMAIN answers[c]
       PROVE  AtMostMark(c, answers[c][i])' /\ \E j \in Tasks : UpdateOf(j) = answers[c][i] /\ Is(j, "replied")'
  <2>1. PICK j \in Tasks : UpdateOf(j) = answers[c][i] /\ Is(j, "replied")
    BY <1>11 DEF OrderInv
  <2>2. AtMostMark(c, answers[c][i]) /\ answers[c][i] \in Nat
    BY <1>11, <2>1, UpdateOfTask, GatewayAssumption DEF OrderInv
  <2>3. Is(j, "replied")'
    BY <1>5, <2>1 DEF Is
  <2>4. AtMostMark(c, answers[c][i])'
    <3>1. PICK v \in Nat : v = answers[c][i]
      BY <2>2
    <3>2. AtMostMark(c, v)'
      BY <1>2, <2>2, <3>1
    <3> QED
      BY <3>1, <3>2 DEF AtMostMark
  <2> QED
    BY <2>1, <2>3, <2>4
<1>12. \A j \in Tasks : task'[j].pc \in Inside =>
         \A i \in DOMAIN answers[ChatOfTask(j)] : answers[ChatOfTask(j)][i] < UpdateOf(j)
  BY <1>5 DEF OrderInv
<1> QED
  BY <1>1, <1>2, <1>8, <1>9, <1>10, <1>11, <1>12 DEF OrderInv, AnswersInOrder

LEMMA WebhookOrder ==
    ASSUME AllRoom, TypeOK, OrderInv, NEW u \in Updates,
           \/ IgnoreDuplicate(u) \/ AcceptAside(u)
           \/ \E k \in Tasks : AcceptText(u, k) \/ AcceptGraphRag(u, k) \/ AcceptLink(u, k)
    PROVE  OrderInv'
<1>1. CASE IgnoreDuplicate(u)
  <2>1. UNCHANGED <<seen, latest, task, answers>>
    BY <1>1, DuplicateRemembers DEF IgnoreDuplicate, AllRoom
  <2> QED
    BY <2>1 DEF OrderInv, SeenOnce, UniqueKeys, Active, Known, AtMostMark, Is, AnswersInOrder
<1>2. CASE AcceptAside(u)
  BY <1>2, AcceptOrder DEF AcceptAside
<1>3. ASSUME NEW k \in Tasks, AcceptText(u, k) \/ AcceptGraphRag(u, k) \/ AcceptLink(u, k)
      PROVE  OrderInv'
  <2>1. PICK pc \in {"queued", "acking", "linking"} : Become(k, pc, NoLock) /\ (pc # "linking" => Mark(u))
    BY <1>3 DEF AcceptText, AcceptGraphRag, AcceptLink
  <2>2. Consume(u) /\ UNCHANGED answers /\ (UNCHANGED latest \/ Mark(u)) /\ UpdateOf(k) = u /\ task[k] = Idle
    BY <1>3 DEF AcceptText, AcceptGraphRag, AcceptLink, IsNextTask
  <2>3. pc \notin Inside /\ (pc \in Marking => Mark(u))
    BY <2>1 DEF Inside, Marking
  <2> QED
    BY <2>1, <2>2, <2>3, AcceptOrder
<1> QED
  BY <1>1, <1>2, <1>3

(* Between two restarts the final messages of a chat are delivered in the   *)
(* order of the updates they answer, and no update is answered twice,       *)
(* however Telegram orders and repeats the updates, as long as the tables   *)
(* forget nothing.                                                          *)
THEOREM AnswersOrdered == ASSUME AllRoom PROVE Spec => []AnswersInOrder
<1>1. Init => OrderInv
  <2> SUFFICES ASSUME Init PROVE OrderInv
    OBVIOUS
  <2>1. \A k \in Tasks : task[k].pc = "none" /\ ~Active(k) /\ task[k].pc \notin Marking
    BY DEF Init, Idle, Active, Marking, Inside
  <2>2. \A c \in Chats : DOMAIN answers[c] = {}
    BY DEF Init
  <2> QED
    BY <2>1, <2>2 DEF Init, OrderInv, SeenOnce, UniqueKeys, Marking, AnswersInOrder
<1>2. TypeInv /\ SerializedPerChat /\ OrderInv /\ [Next]_vars => OrderInv'
  <2> SUFFICES ASSUME TypeOK, SerializedPerChat, OrderInv, [Next]_vars PROVE OrderInv'
    BY DEF TypeInv
  <2>1. CASE UNCHANGED vars
    BY <2>1 DEF vars, OrderInv, SeenOnce, UniqueKeys, Active, Known, AtMostMark, Is, AnswersInOrder
  <2>2. CASE Restart
    <3>1. \A k \in Tasks : ~Active(k)' /\ task'[k].pc \notin Marking
      BY <2>2 DEF Restart, Idle, Active, Marking, Inside
    <3>2. seen' = <<>> /\ latest' = <<>> /\ \A c \in Chats : DOMAIN answers'[c] = {}
      BY <2>2 DEF Restart
    <3> QED
      BY <3>1, <3>2 DEF OrderInv, SeenOnce, UniqueKeys, Marking, AnswersInOrder
  <2> QED
    BY <2>1, <2>2, WebhookOrder, TaskStepOrder DEF Next
<1>3. AllRoom => Room
  BY DEF AllRoom
<1>4. OrderInv => AnswersInOrder
  BY DEF OrderInv
<1> QED
  BY <1>1, <1>2, <1>3, <1>4, TypeInvHolds, Serialized, PTL DEF Spec

-----------------------------------------------------------------------------
(* A task comes to an end *)

(* How far a task is from its end, in steps.                                *)
Distance ==
    [none |-> 9, acking |-> 8, linking |-> 8, confirming |-> 7, queued |-> 7, waiting |-> 6, calling |-> 5,
     recalling |-> 4, sending |-> 3, sendingPlain |-> 2, fallback |-> 2, notice |-> 2,
     replied |-> 0, superseded |-> 0, dropped |-> 0]

Nearer(k) ==
    \/ task'[k] = task[k]
    \/ Distance[task'[k].pc] < Distance[task[k].pc]
    \/ task[k].pc \in Ended /\ task'[k].pc \in Ended

LEMMA OneNearer ==
    ASSUME TypeOK, NEW k \in Tasks, NEW pc, NEW l, Become(k, pc, l), Distance[pc] < Distance[task[k].pc]
    PROVE  \A j \in Tasks : Nearer(j)
<1>1. task' = [task EXCEPT ![k] = [pc |-> pc, lock |-> l]] /\ DOMAIN task = Tasks
  BY DEF Become, TypeOK
<1>2. task'[k].pc = pc /\ \A j \in Tasks \ {k} : task'[j] = task[j]
  BY <1>1
<1> QED
  BY <1>2 DEF Nearer

LEMMA TaskStepNearer == ASSUME TypeOK, NEW k \in Tasks, TaskStep(k) PROVE \A j \in Tasks : Nearer(j)
<1>1. CASE EnqueueGraphRag(k) \/ ConsumeLinkCode(k) \/ ConfirmLink(k)
  <2>1. PICK pc, l : /\ Become(k, pc, l)
                     /\ \/ task[k].pc = "acking" /\ pc = "queued"
                        \/ task[k].pc = "linking" /\ pc \in {"confirming", "dropped"}
                        \/ task[k].pc = "confirming" /\ pc = "replied"
    BY <1>1 DEF EnqueueGraphRag, ConsumeLinkCode, ConfirmLink, End, Is
  <2>2. Distance[pc] < Distance[task[k].pc]
    BY <2>1 DEF Distance
  <2> QED
    BY <2>1, <2>2, OneNearer
<1>2. CASE RequestLock(k) \/ AcquireLock(k)
  <2>1. PICK pc, l : /\ Become(k, pc, l)
                     /\ \/ task[k].pc = "queued" /\ pc \in {"waiting", "superseded", "calling"}
                        \/ task[k].pc = "waiting" /\ pc \in {"superseded", "calling"}
    <3>1. CASE RequestLock(k)
      <4>1. PICK l : Enter(k, l) \/ Become(k, "waiting", l)
        BY <3>1 DEF RequestLock
      <4> QED
        BY <3>1, <4>1 DEF RequestLock, Enter, End, Is
    <3>2. CASE AcquireLock(k)
      BY <3>2 DEF AcquireLock, Enter, End, Is
    <3> QED
      BY <1>2, <3>1, <3>2
  <2>2. Distance[pc] < Distance[task[k].pc]
    BY <2>1 DEF Distance
  <2> QED
    BY <2>1, <2>2, OneNearer
<1>3. CASE OrchestratorReturns(k)
  <2>1. PICK pc, l : /\ Become(k, pc, l)
                     /\ \/ task[k].pc = "calling" /\ pc = "recalling"
                        \/ /\ task[k].pc \in {"calling", "recalling"}
                           /\ pc \in {"sending", "fallback", "notice", "superseded", "dropped"}
    BY <1>3 DEF OrchestratorReturns, AfterHttpError, End, Is
  <2>2. Distance[pc] < Distance[task[k].pc]
    BY <2>1 DEF Distance
  <2> QED
    BY <2>1, <2>2, OneNearer
<1>4. CASE Send(k)
  <2>1. PICK pc, l : /\ Become(k, pc, l)
                     /\ \/ task[k].pc \in {"sending", "sendingPlain", "fallback", "notice"} /\ pc = "replied"
                        \/ task[k].pc = "sending" /\ pc = "sendingPlain"
    BY <1>4 DEF Send, End, Is
  <2>2. Distance[pc] < Distance[task[k].pc]
    BY <2>1 DEF Distance
  <2> QED
    BY <2>1, <2>2, OneNearer
<1> QED
  BY <1>1, <1>2, <1>3, <1>4 DEF TaskStep

(* A task never goes back: whatever is retried for it, each of its steps    *)
(* brings it nearer to its end, and an ended one stays ended.               *)
THEOREM TasksDescend == Spec => [][\A k \in Tasks : Nearer(k)]_vars
<1>1. ASSUME TypeOK, Next PROVE \A k \in Tasks : Nearer(k)
  <2>1. ASSUME NEW u \in Updates, IgnoreDuplicate(u) \/ AcceptAside(u) PROVE \A j \in Tasks : Nearer(j)
    BY <2>1 DEF IgnoreDuplicate, AcceptAside, Nearer
  <2>2. ASSUME NEW u \in Updates, NEW k \in Tasks, AcceptText(u, k) \/ AcceptGraphRag(u, k) \/ AcceptLink(u, k)
        PROVE  \A j \in Tasks : Nearer(j)
    <3>1. PICK pc \in {"queued", "acking", "linking"} : Become(k, pc, NoLock) /\ task[k].pc = "none"
      BY <2>2 DEF AcceptText, AcceptGraphRag, AcceptLink, IsNextTask, Idle
    <3>2. Distance[pc] < Distance[task[k].pc]
      BY <3>1 DEF Distance
    <3> QED
      BY <1>1, <3>1, <3>2, OneNearer
  <2>3. ASSUME NEW k \in Tasks, TaskStep(k) PROVE \A j \in Tasks : Nearer(j)
    BY <1>1, <2>3, TaskStepNearer
  <2>4. CASE Restart
    <3> SUFFICES ASSUME NEW k \in Tasks PROVE Nearer(k)
      OBVIOUS
    <3>1. task'[k] = IF task[k] = Idle THEN Idle ELSE [pc |-> "dropped", lock |-> NoLock]
      BY <2>4 DEF Restart
    <3>2. task[k].pc \in PCs
      BY <1>1 DEF TypeOK, PCs
    <3>3. task[k].pc \in Ended \/ Distance["dropped"] < Distance[task[k].pc]
      BY <3>2 DEF PCs, Handling, Inside, Ended, Distance
    <3> QED
      BY <3>1, <3>3 DEF Nearer, Ended
  <2> QED
    BY <1>1, <2>1, <2>2, <2>3, <2>4 DEF Next
<1>2. TypeOK /\ [Next]_vars => [\A k \in Tasks : Nearer(k)]_vars
  BY <1>1
<1> QED
  BY <1>2, TypeCorrect, PTL DEF Spec

-----------------------------------------------------------------------------
(* The queues of the locks *)

(* Those who wait in a queue wait for its lock, each once.                  *)
QueueInv ==
    \A l \in Tasks :
        /\ \A i \in DOMAIN waiters[l] : task[waiters[l][i]] = [pc |-> "waiting", lock |-> l]
        /\ \A i, j \in DOMAIN waiters[l] : waiters[l][i] = waiters[l][j] => i = j

(* What AcquireLock asks of the state.                                      *)
MayAcquire(k) == Is(k, "waiting") /\ Head(waiters[task[k].lock]) = k /\ ~Locked(task[k].lock)

(* Whoever waits for a lock waits for a task that is inside it, or for the  *)
(* first of its queue, which may go.                                        *)
NoLostWaiter ==
    \A k \in Tasks : Is(k, "waiting") =>
        Locked(task[k].lock) \/ \E j \in Tasks : task[j].lock = task[k].lock /\ MayAcquire(j)

(* A step after which the queues are as before.                             *)
LEMMA SameQueues ==
    ASSUME TypeOK, QueueInv, UNCHANGED waiters,
           \A j \in Tasks : Is(j, "waiting") => task'[j] = task[j]
    PROVE  QueueInv'
<1> SUFFICES ASSUME NEW l \in Tasks, NEW i \in DOMAIN waiters[l]
             PROVE  task'[waiters[l][i]] = [pc |-> "waiting", lock |-> l]
  BY DEF QueueInv
<1>1. waiters[l][i] \in Tasks /\ task[waiters[l][i]] = [pc |-> "waiting", lock |-> l]
  BY DEF TypeOK, QueueInv
<1> QED
  BY <1>1 DEF Is

LEMMA OneGoesOn ==
    ASSUME TypeOK, QueueInv, UNCHANGED waiters, NEW k \in Tasks, ~Is(k, "waiting"), NEW pc, NEW l, Become(k, pc, l)
    PROVE  QueueInv'
<1>1. \A j \in Tasks : j # k => task'[j] = task[j]
  BY DEF Become, TypeOK
<1> QED
  BY <1>1, SameQueues

LEMMA RequestQueue == ASSUME TypeInv, QueueInv, NEW k \in Tasks, RequestLock(k) PROVE QueueInv'
<1>1. PICK live \in Unexpired(locks, IdleKeys) :
         LET l == ChatLock(k, live) IN
         IF ~Locked(l) /\ waiters[l] = <<>>
         THEN Enter(k, l) /\ UNCHANGED waiters
         ELSE Become(k, "waiting", l) /\ waiters' = [waiters EXCEPT ![l] = Append(@, k)]
  BY DEF RequestLock
<1>2. PICK l : l = ChatLock(k, live)
  OBVIOUS
<1>3. live \in Table(Tasks)
  BY ExpiryTyped DEF TypeInv, TypeOK, TableOf, Table, Row
<1>4. l \in Tasks
  BY <1>2, <1>3, ValueTyped, UpdateOfTask DEF ChatLock
<1>5. /\ ~Is(k, "waiting") /\ waiters \in [Tasks -> Seq(Tasks)] /\ DOMAIN task = Tasks
  BY DEF TypeInv, TypeOK, RequestLock, Is
<1>6. CASE Enter(k, l) /\ UNCHANGED waiters
  <2>1. \E pc, held : Become(k, pc, held)
    BY <1>6 DEF Enter, End
  <2> QED
    BY <1>5, <1>6, <2>1, OneGoesOn DEF TypeInv
<1>7. CASE Become(k, "waiting", l) /\ waiters' = [waiters EXCEPT ![l] = Append(@, k)]
  <2>1. /\ task'[k] = [pc |-> "waiting", lock |-> l]
        /\ \A j \in Tasks : j # k => task'[j] = task[j]
    BY <1>5, <1>7 DEF Become
  <2>2. waiters'[l] = Append(waiters[l], k) /\ \A m \in Tasks : m # l => waiters'[m] = waiters[m]
    BY <1>4, <1>5, <1>7
  <2>3. \A m \in Tasks : \A i \in DOMAIN waiters[m] :
           waiters[m][i] # k /\ task'[waiters[m][i]] = [pc |-> "waiting", lock |-> m]
    <3> TAKE m \in Tasks
    <3> TAKE i \in DOMAIN waiters[m]
    <3>1. waiters[m][i] \in Tasks /\ task[waiters[m][i]] = [pc |-> "waiting", lock |-> m]
      BY <1>5 DEF QueueInv
    <3>2. waiters[m][i] # k
      BY <1>5, <3>1 DEF Is
    <3> QED
      BY <2>1, <3>1, <3>2
  <2>4. ASSUME NEW m \in Tasks, m # l
        PROVE  /\ \A i \in DOMAIN waiters'[m] : task'[waiters'[m][i]] = [pc |-> "waiting", lock |-> m]
               /\ \A i, j \in DOMAIN waiters'[m] : waiters'[m][i] = waiters'[m][j] => i = j
    BY <2>2, <2>3, <2>4 DEF QueueInv
  <2>5. \A i \in DOMAIN waiters'[l] :
           \/ i \in DOMAIN waiters[l] /\ waiters'[l][i] = waiters[l][i]
           \/ i = Len(waiters[l]) + 1 /\ waiters'[l][i] = k
    BY <1>4, <1>5, <2>2
  <2>6. \A i \in DOMAIN waiters'[l] : task'[waiters'[l][i]] = [pc |-> "waiting", lock |-> l]
    BY <1>4, <2>1, <2>3, <2>5
  <2>7. \A i, j \in DOMAIN waiters'[l] : waiters'[l][i] = waiters'[l][j] => i = j
    <3>1. \A i, j \in DOMAIN waiters[l] : waiters[l][i] = waiters[l][j] => i = j
      BY <1>4 DEF QueueInv
    <3>2. \A i \in DOMAIN waiters[l] : waiters[l][i] # k
      BY <1>4, <2>3
    <3> SUFFICES ASSUME NEW i \in DOMAIN waiters'[l], NEW j \in DOMAIN waiters'[l], waiters'[l][i] = waiters'[l][j]
                 PROVE  i = j
      OBVIOUS
    <3>3. CASE waiters'[l][i] = k
      BY <2>5, <3>2, <3>3
    <3>4. CASE waiters'[l][i] # k
      <4>1. /\ i \in DOMAIN waiters[l] /\ waiters'[l][i] = waiters[l][i]
            /\ j \in DOMAIN waiters[l] /\ waiters'[l][j] = waiters[l][j]
        BY <2>5, <3>4
      <4> QED
        BY <3>1, <4>1
    <3> QED
      BY <3>3, <3>4
  <2> QED
    BY <2>4, <2>6, <2>7 DEF QueueInv
<1> QED
  BY <1>1, <1>2, <1>6, <1>7

LEMMA AcquireQueue == ASSUME TypeInv, QueueInv, NEW k \in Tasks, AcquireLock(k) PROVE QueueInv'
<1>1. PICK l : l = task[k].lock
  OBVIOUS
<1>2. /\ Is(k, "waiting") /\ Head(waiters[l]) = k /\ Enter(k, l)
      /\ waiters' = [waiters EXCEPT ![l] = Tail(@)]
  BY <1>1 DEF AcquireLock
<1>3. /\ l \in Tasks /\ waiters[l] \in Seq(Tasks) /\ waiters[l] # <<>>
      /\ waiters \in [Tasks -> Seq(Tasks)] /\ DOMAIN task = Tasks
  BY <1>1, <1>2 DEF TypeInv, TypeOK, WaitersListed
<1>4. \A j \in Tasks : j # k => task'[j] = task[j]
  BY <1>2, <1>3 DEF Enter, End, Become
<1>5. waiters'[l] = Tail(waiters[l]) /\ \A m \in Tasks : m # l => waiters'[m] = waiters[m]
  BY <1>2, <1>3
<1>6. \A i \in DOMAIN waiters'[l] : i + 1 \in DOMAIN waiters[l] /\ waiters'[l][i] = waiters[l][i + 1] /\ i + 1 # 1
  BY <1>3, <1>5
<1>7. waiters[l][1] = k /\ 1 \in DOMAIN waiters[l]
  BY <1>2, <1>3
<1>8. ASSUME NEW m \in Tasks, NEW i \in DOMAIN waiters'[m]
      PROVE  waiters'[m][i] \in Tasks /\ waiters'[m][i] # k
             /\ task[waiters'[m][i]] = [pc |-> "waiting", lock |-> m]
  <2>1. CASE m = l
    BY <1>3, <1>6, <1>7, <1>8, <2>1 DEF QueueInv
  <2>2. CASE m # l
    BY <1>1, <1>3, <1>5, <1>8, <2>2 DEF QueueInv
  <2> QED
    BY <2>1, <2>2
<1>9. \A m \in Tasks : \A i, j \in DOMAIN waiters'[m] : waiters'[m][i] = waiters'[m][j] => i = j
  <2>1. \A i, j \in DOMAIN waiters'[l] : waiters'[l][i] = waiters'[l][j] => i = j
    <3> SUFFICES ASSUME NEW i \in DOMAIN waiters'[l], NEW j \in DOMAIN waiters'[l], waiters'[l][i] = waiters'[l][j]
                 PROVE  i = j
      OBVIOUS
    <3>1. i + 1 = j + 1
      <4>1. \A m, n \in DOMAIN waiters[l] : waiters[l][m] = waiters[l][n] => m = n
        BY <1>3 DEF QueueInv
      <4> QED
        BY <1>6, <4>1
    <3>2. i \in Int /\ j \in Int
      BY <1>3, <1>5
    <3> QED
      BY <3>1, <3>2
  <2> QED
    BY <1>5, <2>1 DEF QueueInv
<1>10. \A m \in Tasks : \A i \in DOMAIN waiters'[m] : task'[waiters'[m][i]] = [pc |-> "waiting", lock |-> m]
  BY <1>4, <1>8
<1> QED
  BY <1>9, <1>10 DEF QueueInv

LEMMA OtherQueue ==
    ASSUME TypeInv, QueueInv, Next,
           \A k \in Tasks : ~RequestLock(k) /\ ~AcquireLock(k)
    PROVE  QueueInv'
<1>1. ASSUME NEW u \in Updates, IgnoreDuplicate(u) \/ AcceptAside(u) PROVE QueueInv'
  BY <1>1, SameQueues DEF IgnoreDuplicate, AcceptAside, TypeInv
<1>2. ASSUME NEW u \in Updates, NEW k \in Tasks, AcceptText(u, k) \/ AcceptGraphRag(u, k) \/ AcceptLink(u, k)
      PROVE  QueueInv'
  <2>1. PICK pc : Become(k, pc, NoLock) /\ UNCHANGED waiters /\ task[k] = Idle
    BY <1>2 DEF AcceptText, AcceptGraphRag, AcceptLink, IsNextTask
  <2> QED
    BY <2>1, OneGoesOn DEF Idle, Is, TypeInv
<1>3. ASSUME NEW k \in Tasks, TaskStep(k) PROVE QueueInv'
  <2>1. EnqueueGraphRag(k) \/ ConsumeLinkCode(k) \/ ConfirmLink(k) \/ OrchestratorReturns(k) \/ Send(k)
    BY <1>3 DEF TaskStep
  <2>2. ~Is(k, "waiting") /\ UNCHANGED waiters
    BY <2>1 DEF EnqueueGraphRag, ConsumeLinkCode, ConfirmLink, OrchestratorReturns, Send, Is
  <2>3. \E pc, l : Become(k, pc, l)
    BY <2>1 DEF EnqueueGraphRag, ConsumeLinkCode, ConfirmLink, OrchestratorReturns, Send, End
  <2> QED
    BY <2>2, <2>3, OneGoesOn DEF TypeInv
<1>4. CASE Restart
  BY <1>4 DEF Restart, QueueInv
<1> QED
  BY <1>1, <1>2, <1>3, <1>4 DEF Next

(* Nobody is left waiting for a lock that has been released: the queue of   *)
(* every lock that is free and awaited begins with a task that may have it, *)
(* however the table of locks was evicted meanwhile.                        *)
THEOREM WaitersServed == Spec => []NoLostWaiter
<1>1. Init => QueueInv
  BY DEF Init, QueueInv
<1>2. TypeInv /\ QueueInv /\ [Next]_vars => QueueInv'
  <2> SUFFICES ASSUME TypeInv, QueueInv, [Next]_vars PROVE QueueInv'
    OBVIOUS
  <2>1. CASE UNCHANGED vars
    BY <2>1, SameQueues DEF vars, TypeInv
  <2> QED
    BY <2>1, RequestQueue, AcquireQueue, OtherQueue
<1>3. TypeInv /\ QueueInv => NoLostWaiter
  <2> SUFFICES ASSUME TypeInv, QueueInv, NEW k \in Tasks, Is(k, "waiting"), ~Locked(task[k].lock)
               PROVE  \E j \in Tasks : task[j].lock = task[k].lock /\ MayAcquire(j)
    BY DEF NoLostWaiter
  <2>1. PICK l \in Tasks : l = task[k].lock
    BY DEF TypeInv, WaitersListed
  <2>2. waiters[l] \in Seq(Tasks) /\ waiters[l] # <<>>
    BY <2>1 DEF TypeInv, TypeOK, WaitersListed
  <2>3. 1 \in DOMAIN waiters[l] /\ Head(waiters[l]) = waiters[l][1] /\ waiters[l][1] \in Tasks
    BY <2>2
  <2>4. task[waiters[l][1]] = [pc |-> "waiting", lock |-> l]
    BY <2>3 DEF QueueInv
  <2> QED
    BY <2>1, <2>3, <2>4 DEF MayAcquire, Is
<1> QED
  BY <1>1, <1>2, <1>3, TypeInvHolds, PTL DEF Spec
=============================================================================
