# Verification of EduAssist Platform

TLA+ models of the parts of EduAssist that keep state, TLC instances that check
them, and TLAPS proofs of what matters most for any size of the system. Paths are
relative to the repository; `support.py` and its neighbours are in
`src/apps/api-core/src/api_core/services/`, `main.py` of the gateway in
`src/apps/telegram-gateway/src/telegram_gateway/`, `pipeline.py` in
`src/apps/worker/src/worker_app/`, the supervisor in
`src/apps/ai-orchestrator-specialist/src/ai_orchestrator_specialist/`.

Run a model with `tlc -config X.cfg M`, a proof with `tlapm M.tla`; the
configurations and their modules are in the table of runs below.

## 1. Inventory

| component | state it keeps | operations | modelled in |
|---|---|---|---|
| support workflow (`support.py`) | tickets (`conversation.handoffs`) | file or reuse a ticket, edit it | `SupportWorkflow` |
| institutional workflows (`institutional_workflows.py`) | visit bookings, institutional requests | book, cancel, reschedule, request, add a note | `SupportWorkflow` |
| conversation memory (`conversation_memory.py`) | conversations, messages, tool calls | store a turn, read a window | `SupportWorkflow` for the writes of its handlers, `TurnDelivery` for the window and the skipping of repeated turns (tool calls not) |
| telegram gateway (`main.py`) | four tables in memory, running tasks | webhook, background tasks | `TelegramGateway`, `TurnDelivery` |
| telegram link and identity (`telegram_link.py`, `identity.py`) | codes, accounts, links | issue a code, consume it, resolve the actor of a chat | `TelegramLink` |
| row level security (alembic, `session.py`) | none; the session's settings | filter rows by actor | `TelegramLink` for conversations, `SchoolAccess` for a student's rows |
| policy (`policy.py`, `policy.rego`) | none | decide with OPA or, when it fails, locally | `PolicyDecision` |
| audit (`audit.py`), domain reads (`domain.py`) | access decisions, school tables | record a decision, find a student's summary | `SchoolAccess`, in part |
| authentication (`auth.py`) | none | validate a token | not modelled |
| worker documents (`pipeline.py`) | catalogue in PostgreSQL, two Qdrant indexes | synchronise | `DocumentPublish` |
| worker LlamaIndex (`llamaindex_pipeline.py`) | document store, vectors | synchronise | not modelled |
| control plane, shared runtimes and answer kernels (`ai-orchestrator`) | response cache, telemetry windows, graph checkpoints, failures per pilot | answer a message | `StackRun` and `TurnDelivery`: what a run does to api-core and when |
| specialist supervisor (`ai-orchestrator-specialist`) | caches of api-core's resources, session memory | answer a message | `SupervisorTurn`, `ContextCache` |
| admin web | cookies | sign in, refresh, edit a ticket | the edit, in `SupportWorkflow` |
| `packages/`, `infra/`, `tools/`, `tests/`, `docs/` | | | not modelled |

How they interact. Telegram posts updates to the gateway, which starts a task per
message; the task calls an orchestrator runtime over HTTP; the runtime asks
api-core for whom the chat speaks, works out an answer, may call the workflow
endpoints of api-core while it does so, stores the turn, and returns. The gateway
sends the answer. A link code typed into a chat goes from the gateway straight to
api-core. Whoever asks api-core for a student's data passes two filters, the policy
and the row policies of PostgreSQL. Operators edit tickets in the admin web, which
calls api-core. The worker replaces the document catalogue and the vector indexes that
the runtimes search. PostgreSQL is shared, everything else is reached by HTTP.

What is hard. Telegram repeats, reorders and delays; every HTTP caller gives up
after a timeout and some repeat, though the callee goes on and may have committed; the
gateway's tasks interleave at every await; its tables are bounded, expire, and
vanish in a restart; the actor of a turn is read long before it is used, and what the
policy decides about may have changed when the rows are read; fetches that fill one
cache entry cross each other; any call of a turn may raise, in an order of stages that
has a dozen exits; a synchronisation of the worker can die between any two calls, and
what one writes the next one reads. What is *not* concurrent: the writes of a handler
of api-core. They are `async def` around a synchronous SQLAlchemy session, in one
uvicorn process, and the only await between a handler's reads and its commit is
`decide_policy`, which comes before any write of that handler but the record of the
decision.

What makes each part correct:

* tickets: one open ticket per conversation is enough - calls reuse it - and
  deadlines, links and owners survive reuse, cancelling and reopening;
* transcript: repeated calls do not multiply a message;
* gateway: a chat's answers come in order, none twice, the newest message is never
  silently dropped, and every task ends;
* link: a chat speaks for a user only with a proof that the user was there, and so
  do conversations change hands;
* access: OPA and its fallback decide alike, no row reaches a person who may not see it
  now, the two filters do not contradict each other, and the record tells what happened;
* supervisor: what is stored is what is shown, a draft is judged before it goes out, a
  refusal runs nothing, and every turn is answered;
* cache: no turn works with a value older than a life and a call;
* delivery: the assistant remembers what it told the user, and the visit is as it
  told, whatever runs given up on still do;
* documents: whoever searches finds a whole corpus, at any moment, and what a search no
  longer reaches is deleted, while synchronisations overlap, fail and die.

## 2. Plan

In order of importance of the behaviour to the users of the system.

| | module | abstract specification | state |
|---|---|---|---|
| 1 | `SupportWorkflow` | `TicketLedger` | checked, all its properties and the refinement proved |
| 2 | `TelegramGateway` | | checked, all its safety properties proved |
| 3 | `TelegramLink` | | checked, all its properties proved |
| 4 | `DocumentPublish` | | checked, all its properties proved |
| 5 | `SchoolAccess` over `PolicyDecision` | | checked, all its properties proved |
| 6 | `SupervisorTurn` | `StackRun` | checked, refinement and safety proved |
| 7 | `ContextCache` | | checked, proved |
| 8 | `TurnDelivery`, composing gateway, stack (`StackRun`'s promises) and api-core | | checked, proved |

What is left: every safety property a passing run checks is proved; what could follow is
`SerializedPerChat` and `AnswersInOrder` under weaker assumptions than that the tables have
room for everything; a model of the circuit in front of the supervisor once somebody
writes down what it may do with late outcomes; the checkpointed interrupts of the graph
runtime. What is not on the list is in section 7.

## 3. Models

### SupportWorkflow, refining TicketLedger

State: the rows of `conversation.conversations` (`owner`, `convStatus`), of
`handoffs` (`handoff`, and `rank` for the order of their `updated_at`), of
`visit_bookings` and `institutional_requests`, and the newest three messages of each
thread. `everClosed` is a history variable.

| action | handler of `api_core/main.py` and the service it calls |
|---|---|
| `CreateSupportHandoff` | `POST /v1/internal/support/handoffs`, `create_support_handoff` |
| `CreateVisitBooking`, `CreateInstitutionalRequest` | `POST /v1/internal/workflows/...`, which file a ticket through `create_support_handoff` |
| `CancelVisit`, `RescheduleVisit`, `AppendRequestNote` | `.../actions`, with a protocol code or the newest row of the thread |
| `UpdateHandoffStatus` | `PATCH /v1/support/handoffs/{id}` |
| `AppendConversationMessages` | `POST /v1/internal/conversations/messages` |

An action is a whole transaction, because nothing awaits between its first write and
its commit. `FileTicket` is what the three filing handlers share: the open ticket
updated last is reused and rerouted, or a new row is made. `NewestByTime` stands for
a query ordered by `created_at` alone, which may return either row of a turn;
`CreateVisitBooking` stores the user's text twice because the second query does not
see the first, unflushed, row. Left out: audit rows, `requester_user_id`, the wording
of summaries (a written summary may be new or equal, which decides whether
`updated_at` moves), the tool calls of a turn. The log is cut to three rows: no query
of the code looks further back than two.

`TicketLedger` is the abstract specification: a thread gets a new ticket only when
every earlier one is closed. The mapping (`Stage`) sends an open ticket that was never
closed to "fresh" and another open one to "reopened".

### TelegramGateway

State: the three tables (`seen`, `latest`, `locks`, as sequences in the order of
their dictionaries), the waiters of each `asyncio.Lock`, where each task is, the
updates Telegram still repeats, and, as history, the answers delivered in this life
of the process. A lock object is named by the task that made it, so an evicted lock
and its successor are different objects.

One step is what runs between two awaits. `AcceptText`, `AcceptGraphRag`,
`AcceptAside`, `AcceptLink` and `IgnoreDuplicate` are the branches of the webhook;
`EnqueueGraphRag`, `ConsumeLinkCode` and `ConfirmLink` its second halves after an
await; `RequestLock`, `AcquireLock`, `OrchestratorReturns` and `Send` are the
background tasks. `Respond` loses the response of the webhook or not. `Restart` empties
the tables and drops the tasks.

Times to live: with `LongSilences`, entries may expire at any time a handler looks at
a table, except that a lock somebody holds or waits for does not reach its hour,
because every call made under it times out within ten minutes (`Unexpired`). Without it nothing
expires, which is the situation within 15 minutes of the first delivery.
Left out: the chat's photograph and typing notices, which no property is about.

### TelegramLink

State: codes, account rows, the link of each user, the owner of each chat's
conversation, and the actor that the chat's current turn began with. Each handler of
api-core is a step; a turn is two (`BeginTurn` reads the actor, `StoreTurn` writes the
transcript, `LoseTurn` when it fails), as the orchestrators do it. `Upserted` overwrites
the account that matches the chat or the sender, any one of them if two match;
`RefuseChallenge` is the refusal after that write, undone by `RolledBack`. `CanAccess`
is the row policy of `conversation.conversations` under the role the service connects
with. Codes are drawn by number, since guessing them is not modelled, and expire oldest
first because their time to live is one setting. A chat has one thread; the prefix search
`telegram:<chat>:%` over further threads of a chat is not modelled.

### DocumentPublish

State: who wrote the catalogue, the collections of each index by the second in their
name, the alias, and where each synchronisation is. `LoadCorpus` and `ReplaceCatalog`
are its two transactions; the rest is one action per call to Qdrant. Synchronisations
overlap: the worker runs one when it starts (`compose.yaml:768`), `make documents-sync`
(`Makefile:294-295`) runs another in a process of its own, and no lock keeps them apart.

`ResolveAlias` is `_resolve_alias_target` (`pipeline.py:817-838`) with its swallowed
failures: a call that fails reads like one that found nothing. Then the lookup of a
collection of the alias' own name may answer for the alias, and `DeleteByName`
(`pipeline.py:793-795`) asks Qdrant to delete what goes by that name. Whether Qdrant
resolves an alias there is not in the repository, so both outcomes are possible: nothing
happens, or the served collection goes. Before the first synchronisation an index has no
alias or a collection of the alias' name (`Legacy`), which is what that branch is for.

Qdrant is external and modelled from its use: deleting a collection drops its aliases,
switching an alias is one call. What the documents are cut into is left out: a collection
holds the points of a synchronisation or not. `Tick` is enabled only in a second in which a
collection was named: other seconds are alike, and embedding a corpus takes more than one.
`Crash` covers the death of the process and a failed call that is not swallowed. `Clash`
says that two synchronisations named their collections of an index in one second. History:
`unseen`, the collections that were replaced by a synchronisation that had not found them
(its lookup failed, or another switched the alias after it), and `rivals`, who was
publishing when a synchronisation replaced the catalogue.

### PolicyDecision and SchoolAccess

`PolicyDecision` has the two texts of the policy as operators: the rules of
`policy.rego`, whose result is a set of reasons of which the first is reported, and the
branches of `_local_policy_decision`, taken when OPA is unreachable, late or answers
nonsense. `Decisions` is what either of them says.

`SchoolAccess` is one request for a student's data. Its state is the school's tables
(links and what they let a guardian see, enrolments, assignments, homeroom teachers,
contracts), the actor the request resolved, and how far it has come. `Resolve` is
`resolve_actor_context`, itself a query under row level security; `Decide` awaits the
policy over that snapshot; `ReadAndAnswer` is the transaction that records the decision
and reads the rows under the policies of then; `ReadFirst` and `DecideAndAnswer` are the
two handlers that read before they decide. `EditTables` may change the school at any
time before the end: the seeding tools write these tables while the service runs. The
`CanAccess...` operators are the functions of schema `runtime` the row policies call,
`Found` is the join of the summary's query and `Shows` the policy of the records beside
it. The assessments of a student's class are a read of their own: the policy is asked for
`student.academic.read` (`ActionOf`), while the rows have the policy of the class
(`AssessmentsVisible`, `domain.py:212-264`), which any link satisfies.

`MatrixAllows` is not code: it is the cells of `docs/security/access-control-matrix.md`
that allow a read of a student's data, and judges what is shown. `BeyondMatrix` lists the
three grants the policy makes beyond those cells, all in `policy.rego` and its fallback:
everything to the technical admin (the matrix denies by default, lines 28 and 69), a
student's own finances (line 20, "Limitado") and a student's administrative data to
coordination (line 25, "Limitado"). The property says that these three
are all. One person is a person's row, user and id at once, which the
seeded data and the constraints of the schema agree with. Contents of summaries are left
out.

### StackRun and SupervisorTurn

`StackRun` is what a stack promises of one run: it changes api-core before it stores
its turn, stores at most once, and does nothing after its reply.

`SupervisorTurn` is `run_specialist_supervisor` with its callees, one action per awaited
call or per branch between two. `Lanes` are the fourteen attempts before a plan, in their
order, each of which answers, passes or raises; the tool lanes may change api-core and
raise afterwards. Then `MakePlan`, `FollowPlan`, the specialists (`AgentActs`,
`SpecialistsEnd`: one that raises is dropped), `Decide` with the direct compositions,
`ManagerDrafts` and `ManagerFails` (once more, without the session memory), `JudgeEnds`,
`RepairEnds`, `Gate`. `Reword`, `PersistRaises`, `Store`, `Return` are `_persist_and_dump`,
inside the `try` of the flow or outside it (`guarded`); `ReplyForCrash` is the handler
around the flow. `DeriveBudget` and the predicates after it are those of
`execution_budget.py`, `specialist_executor.py` and `judge_repair_flow.py`. What a rule
over text or a model says is a choice: which lane answers, which plan comes out of the
planner, confidences, verdicts. An answer is the name of the place that wrote it.

### ContextCache

One key of the two caches of `runtime_io.py` and the row of api-core it copies. A fetch
is a step before its HTTP call (`StartFetch`, which drops an expired entry) and one after
it (`Arrive`, `ArriveEmpty`, `Fail`); api-core reads the row in between (`Read`). The
clock counts units; a call takes at most `Timeout` of them, an entry lives for `Ttl`, and
`Timeout <= Ttl` as in the code's settings. Turns repeat for ever.

### TurnDelivery

The messages of one chat through gateway, stack and api-core. From `TelegramGateway` it
takes what that model establishes: the messages of a chat are served one after the other,
in their order, each with at most two calls. A run is what `StackRun` allows: it reads the
context (or fails to), changes a visit, stores its turn, replies - and goes on doing so
after the gateway has given its call up (`GiveUp`), restarted (`Restart`), or turned to the
next message. Every request to api-core can also take effect after its caller stopped
waiting (`late`, `Land`). The timeouts themselves (45 s in the gateway, 25 s in the control
plane, 12 s towards api-core, the pause before a retry) are not counted: a call may be
given up at any moment. What comes in between - failed calls, crashes, restarts, requests
without a response, answers reworded or not delivered, notes of operators - is counted
together, and bounded by `MaxMishaps`.

The transcript is a sequence of rows. `ReadContext` takes the newest `Window` of them: six
in the shared runtimes (`runtime_api.py:128`), eight in the specialist
(`runtime_io.py:194`). `TurnRows` and `NoteRows` are the two ways rows get there, with the
comparisons that skip a repeated turn and the two queries of a booking
(`conversation_memory.py:51-140`, `institutional_workflows.py`): a turn's rows have one
`created_at`, so they may come back in either order. `Note` is the row an operator's edit
of a ticket leaves.

A visit is the visit a request reached: `Reached` is the one with an open ticket, or a new
one, for a booking, and any by its code for the rest. What a run says is what its request
was answered with, never more: an accepted one by its outcome and visit, a refused or timed
out one by a sorry text. `Crash` is an exception after that (`supervisor_run_flow.py:928-940`):
the fallback answer knows nothing of what was done. `Reply` returns the stored text or,
where a dedicated stack postprocesses the answer it has already stored
(`dedicated_stack_app.py:188-219`), another one.

What the user was told is derived from the state: `Heard(a)` when the answer of run `a` was
the one delivered for its message, `Told(a, v)` when that answer was returned as composed
and names visit `v`. A delivery the gateway is not sure of (`delivery_uncertain`) counts
as not heard. The rewording is taken not to name a visit the composed answer did not name.
Each row and visit carries the run that waited for the request that wrote it, or nobody
(`by`, history), which only the properties read. Rows are appended in the order of their
commits; a `created_at` taken at the start of a transaction that commits after a younger
one is not modelled.

## 4. Runs

Deadlock is not checked anywhere: the rows of a workflow, the codes, the
synchronisations, the clock and the turn are bounded or end, and the gateway may have
nothing left to do. Times are of two workers; state counts are of distinct states.

| run (configuration) | bounds | what it shows |
|---|---|---|
| `support_tickets` (`SupportTickets.cfg`) | 1 thread, 2 tickets, 1 visit, 1 request, 2 users | `FreshTicketUnique`, `CancelledVisitClosedItsTicket`, `SlaNeverRenegotiated`, `ClosureHasCause`, `ImplementsLedger`: whatever cancelling, rescheduling, noting and closing does to tickets, reuse files no second ticket beside an open one, and deadlines stay |
| `support_turns` (`SupportTurns.cfg`) | 1 thread, 2 texts, 2 tickets, 2 visits, 2 users and nobody | `NoThirdCopy`: repeated calls leave at most two copies of a text at the end of the log (two do occur, in visit bookings); `OwnerSticky`, `LinksConsistent` |
| `gateway_chat` (`GatewayChat.cfg`) | 1 chat, 3 updates, each accepted twice, 1 restart | `AnswersInOrder`, `SupersededByLiveUpdate`, `EveryTaskEnds` |
| `gateway_chats` (`GatewayChats.cfg`) | 2 chats, 4 updates, tables of 1, 1 and 2 entries, expiry at any time; 860 615 states | `SerializedPerChat` when the lock table has room for all chats |
| `link_codes` (`LinkCodes.cfg`) | 2 users, 2 chats, 2 senders and none, 3 codes; 161 592 states | `ChatSpeaksByProof`, `OneUserPerChat`, `OwnerByProof`, `LinkedByNewestCode` |
| `publish_overlapping` (`PublishOverlapping.cfg`) | 2 synchronisations that overlap and may both die, 2 indexes, 5 seconds, lookups that fail; 133 080 states | `AliasServes`, `NeverTakenDown`, `NothingLeftBehind`, `IndexesMatchCatalog` |
| `access_requests` (`AccessRequests.cfg`) | 2 guardians, 2 students, 1 teacher, 4 internal roles, 2 classes, 3 edits; 412 521 states | `FallbackAgrees`, `ShownAsEntitled`, `GrantedIsShown`, `RecordTellsOutcome` |
| `access_denials` (`AccessDenials.cfg`) | as above, 2 edits | **violated** `RefusalRecorded` |
| `supervisor_turn` (`SupervisorTurn.cfg`) | 5 messages, 11 plans, 1 change; 920 000 states, 2 min | `TranscriptTellsTheShown`, `DeliveredDraftWasJudged`, `RefusalRunsNothing`, `ImplementsStackRun`, `EveryTurnAnswered` |
| `context_cache` (`ContextCache.cfg`) | 3 turns, lives and calls of 2 units, 7 units, 3 changes | `ServedRecent` |
| `stale_cache` (`StaleCache.cfg`) | 2 turns, lives and calls of 1 unit | **violated** `StaleServedOnError` |
| `turn_delivery` (`TurnDelivery.cfg`) | 3 messages, the first of which books, 2 calls each, a window of 4 rows, 2 mishaps; 1 752 488 states, 2.5 min | `ShownIsRemembered`, `VisitAsTold` |

Why the bounds are enough to make the cases happen. Two tickets: one stays open or is
reopened while the other is filed, and they share a thread with both workflows; a
third ticket only repeats a relation between two. What several threads add, a visit
changed from another thread by its protocol code, is in the proofs, which hold for any
number of them. Three rows of log: one more than the queries look at. Three updates of a
chat: one inside the lock, one waiting, one arriving, which `/graphrag` without a question
does without a task; two acceptances, because only a restart can cause a second one when
nothing expires. In `gateway_chats` the tables are smaller than the number of keys, so
every insertion evicts. Three codes: one withdrawn, one for each of two users moving
between two chats. Two synchronisations, because every hazard of the publishing is
between the one that reads or names and the one that switches or deletes meanwhile, and
both may die half way. Five seconds: a name for each of the two indexes of both, and
one more. Three edits: a table row to grant by, another that the row policies need, and a
withdrawal in the middle of the request; every rule looks at one link, one enrolment and
one assignment. The plans of `MCSupervisorTurn` reach every branch of the budget and of
the composition, the messages every guard of a lane. Three fetches: one fills, one
overwrites it with what it read earlier, one is served. Three messages, six
runs: the first answers or is given up, the next two are answered over what it and each
other leave. With a window of four rows, two turns, an answer can fall out of the context:
by the turn and the note of two newer messages, by a run given up, or by a late request. Two
mishaps: a call given up and a request that lands late, the least that makes a repeated
turn and a change behind the user's back; a third multiplies the states without
another way of doing either. The proofs have no such bounds.

Fairness. `FairSpec` of the gateway assumes weak fairness of each task's steps: HTTP calls
of the gateway have a timeout, its event loop runs every ready task, and `asyncio.Lock`
wakes its waiters first come first served, so `AcquireLock` stays enabled once the lock is
free. Nothing is assumed of Telegram, of restarts, or of new updates. `FairSpec` of the
supervisor assumes that a turn takes some step whenever it can: its calls of agents have
`max_turns` and a client with a timeout, and its calls of api-core and storing the turn time
out; that it does not step for ever, through the manager's second run and
the judge's second round, is what `EveryTurnAnswered` shows. No liveness is claimed of the
worker, since nothing repeats a synchronisation that failed, nor of `TurnDelivery`, since
a run behind a lost call may stop anywhere.

Two runs show disagreements between what the repository says and its code:

* `access_denials`: the requirements say that every sensitive access decision is recorded
  and refusals too (`docs/prd/product-requirements.md:85`,
  `docs/security/access-control-matrix.md:63`). The handlers of a student's data add the
  row and then raise the 403 inside the same `session_scope`, which rolls it back. The
  handlers that raise after the scope keep it.
* `stale_cache`: a failed fetch is to be made up for by an expired value
  (`runtime_io.py:235` looks for it, a test is named for it), but the lookup before the
  call has already dropped the expired entry.

## 5. Proofs

The theorems hold for any values of the constants that satisfy the assumptions named in
the models (`SupportAssumption`, `LinkAssumption`, `NullAssumption`, `AccessAssumption`
and so on), in particular for any bounds. The assumptions say that null values are not
members of the sets they stand beside, that kinds of people are disjoint, that bounds are
numbers; TLC evaluates them in every run. Three assumptions
stand in the statements of single theorems instead, because without them, or something like
them, the property can fail: `Room` (the gateway's lock table has room for every chat),
`AllRoom` (none of the gateway's tables forgets anything: room for every update and chat,
no identifier expires) and `UsageRemembered` (no identifier is forgotten, or nobody sends a
bare `/graphrag`). What is said of the worker and of the delivery has no such assumption.

`SupportWorkflowProofs`. `Invariance` proves `Spec => []IInv`, where `IInv` is
`TypeOK`, `LinksConsistent`, `ClosedIsRecorded` and `FreshTicketUnique`. None of them
is inductive alone: a cancelled visit writes to the ticket it links to, so types need
the links; a reopened ticket would count as fresh unless its closing is recorded. Every
handler comes down to saving one ticket row, so the lemmas say when a row is
`Admissible` and what saving an admissible row preserves; the step of each handler
shows that its row is. From it follow `TypeCorrect`, `FreshTickets`, `WorkflowLinks`, the
action properties `OwnerKept` and `SlaKept`, and `Refinement`: `Spec => Ledger!Spec`. A
save of a new row is `File`, one that closes is `Close`, one that opens a closed ticket is
`Reopen`, every other one a stutter. `CancelledVisitsClosed` rests on two lemmas: only
`CancelVisit` makes a visit cancelled, and it closes the ticket the visit links to; and
what was closed stays recorded. `ClosuresCaused` goes through the handlers: each either
keeps the status of every ticket, opens it, or closes it with its conversation or visit.
`CopiesBounded` needs `LogInv`: no log, of any length, ends with three equal messages of
the user. The window the model keeps of a log loses its head, never its end, and a message
is appended only after the two queries for the newest one, the second of which may miss
one unflushed row.

`TelegramLinkProofs`. `LinkInvariance` proves `Spec => []LinkInv`: `TypeOK`, the unique
constraints, one user per account, `LinkByProof` (the account a user is linked to stands
in a chat the user typed a code into), `TurnByProof` and `OwnerByProof`. The last is not
inductive because a turn carries its actor from one transaction to a later one, and that
a chat speaks by proof is not because a code overwrites an account row: the row must not
belong to a second user, which the refusal checks, and no other row may stand in the
chat, which the unique constraint ensures. From it follow `LinkTypeCorrect`,
`SpeaksByProof`, `ChatHasOneUser` and `OwnershipByProof`. `NewestCodeLinks` rests on a second
invariant, `CodeInv`: of a user's codes only the newest is live, and used ones are
consumed.

`TelegramGatewayProofs`. `TypeCorrect` (`TypeInv`: a task that waits stands in the queue of
its lock, so the queue whose head a task takes is not empty; that eviction stops somewhere
needs a least element of a set of numbers, which the library gives without an induction).
`WaitersServed`: `QueueInv` adds that those who stand in a queue wait for that lock, each
once, so a lock that is free and awaited has a first in line who may take it, even when
the table of locks has dropped it. `TasksDescend` is a measure: each step of a task lowers
its `Distance` from the end, at most nine. The two are the safety half of `EveryTaskEnds`.
`Superseded`, under `UsageRemembered`: `SupersededInv` says that whatever a chat is marked
with is vouched for, by a task that will not give up or by a remembered `/graphrag`; the
property alone is not inductive, since the update a task gave up for may be given up later,
but only for one the chat is then marked with. `AnswersOrdered`, under `AllRoom`: `OrderInv`
says that an update has one active task, that an unfinished task's update is at most the
mark of its chat, that a delivered answer is at most the mark, and that a task inside the
lock is newer than every answer of its chat. The last holds on entering because the task is
not stale and no answer is above the mark; it stays because the task is alone inside.
`Serialized`, under `Room`. `LockInv` says that the lock table is
a function of chats, that the lock of a chat stays in it as long as a task holds or awaits
it, and that no two tasks are inside one lock. The eviction is the hard step: a table that
is a function of chats with at most `LockLimit` of them never needs to drop anything
(`Room` and the pigeonhole lemmas), and expiry spares locks in use.

`DocumentPublishProofs`. All theorems hold of synchronisations that overlap in any way.
`AliasesServe` and `ServedStays` rest on `SInv`: collections were named in the past, so a
later name is free (`Named`), an alias leads to a collection that exists (`AliasExists`),
and, of each second in which no two synchronisations named a collection, what `Site` says:
the collection holds its builder's points before it is served, it is served or found by a
lookup only once its builder has switched the alias, and what a synchronisation is about to
delete is no longer served. A deletion is the hard step: what it deletes was found served
before the synchronisation switched, and cannot be served again, because its own builder
switched to it once and any other alias is switched to what another one built.
`LeftoversExplained` needs no more than the types: every step that leaves a collection
unserved, a switch, finds it in `current`, or puts it into `unseen`. `CatalogMatched` adds
`LInv`, of a synchronisation that replaced the catalogue while nobody was publishing and has
not been overtaken since (`Lone`): nobody else has begun to publish, because who does
replaces the catalogue first, so what it has switched stays (`PromotedStays`).

`SchoolAccessProofs`. `FallbackIsPolicy` compares the rules of OPA with the branch of the
local function act by act, for any well-formed actor and any resource that a handler can
build (`Asked`: the identifier a rule compares is not null; with nulls the two differ,
section 7). `ShownOnlyAsEntitled` hardly needs the snapshot: flags stand on links only
(`FlagsOnLinks`), and then the row policies of the moment imply a cell of the matrix or one
of the three grants beyond it, but for the administrative status, where the role the policy
granted has to be carried along (`EntitledInv`). `GrantsAreShown` needs that while nothing was edited the actor is still
`ActorOf(caller)` and the grant still follows from the tables (`GrantInv`).
`RecordIsOutcome` needs that nothing is recorded before the end.

`SupervisorTurnProofs`. `IInv` adds to the properties three relations between the stage
and the rest: nothing is answered while the run is at work nor stored before there is an
answer (`Answering`), nothing is done before there is a plan and no draft before the
manager (`Planning`), the manager and the judge run where they are due (`Supervised`). All
exits of the flow are instances of `Deliver` or `Crash`, which have a lemma each. From it
follow `TypeCorrect`, `TranscriptTold`, `DraftsJudged`, `RefusalsRunNothing` and
`Refinement`: a turn is a run as `StackRun` has it. `TurnsRunOut` is a measure, the changes
in api-core that are left plus the distance of the stage from the reply; what is tried again
(the manager without the session memory, the judge of a repaired draft, the answer that
could not be stored) is counted by the flag that stops it from being tried a third time.

`ContextCacheProofs`. `RecentServed` for any number of turns. The invariant bounds the age
of what each call has read (`CallsRecent`) and of the entry (`EntryRecent`). A failed call
serves whatever entry there is, whatever its age; that this is recent enough holds only
because the turn dropped an expired entry before its call, so an entry it finds was set
later (`EntryNewer`), and `Timeout <= Ttl`.

`TurnDeliveryProofs`. `RemembersShown` and `ToldOfVisit` for any number of messages and
mishaps and any window. Neither property is inductive. `IInv` counts the calls and says that
a run begins only when every earlier message is settled (`CallsCounted`, `InTurn`), and that
an answer comes from a run that has ended and is kept only once it is stored
(`AnswersEnded`). For the memory, `KeptInPlace` says that an answer api-core has confirmed,
heard or still awaited, stands somewhere in the transcript and is followed only by its own
question or by rows that may follow it: a row by a run of an older message that the user has
heard of cannot come after it, since that run had ended (`InTurn`). A context is then either
long enough to hold that row or made of rows after it; the lemmas `Written`, `TurnStored` and
`NotesStored` carry this over every way of writing, a skipped turn included, which is
skipped because the same text is already last. For the visits, `SaidTruly` ties what a run
says of a visit to the visit it handled last, and `SaidInOrder` says that a run of a newer
message has spoken of a visit only after whatever an older run the user has heard of did to
it. `GatewayStep` and `DataStep` say once what the steps of the gateway and those of a run
or of api-core preserve; each action is shown to be an instance.

## 6. Only model-checked

`EveryTaskEnds` and `EveryTurnAnswered` stay with TLC, because liveness under fairness needs
`ENABLED`, which the proof system does not handle. Their safety halves are proved for every
size: `TasksDescend` and `WaitersServed` for the gateway, `TurnsRunOut` for a turn. What TLC
adds is that a step that may be taken is taken. The two violated properties,
`RefusalRecorded` and `StaleServedOnError`, have no theorem.

## 7. Not modelled, and observations

Most of the code is not state but language: the orchestrator's kernels, `retrieval.py` and
its two siblings, `grounded_answer_experience.py`, `semantic-ingress` and the supervisor's
answer modules are regular expressions, word lists, prompts and templates that pick or
write a text. A model could only say that some text comes out, which is what the models of
the turn do say, as a choice; covering these files line by line would add no behaviour. So
the models cover a small share of the lines and most of what the lines do to shared state.
Also not modelled:

* the LlamaIndex pipeline: the order of its writes is in the library, not in the repository;
* graph checkpoints and human review: the library's; the repository resumes a thread by name;
* the circuit in front of the supervisor: a count and a cool-down per pilot. A call begun
  before the circuit opened may fail or succeed later and lengthen or end the cool-down, and
  the count only falls with a success; nothing written says whether it should be so;
* the response cache, serving policy and telemetry: values and statistics that choose among
  texts, with no promise about them to check;
* stack overrides, token validation, the login of the admin web: settings, one stateless
  call, and glue around Keycloak;
* observability, infrastructure, seeding, evaluation and benchmark tools, tests.

Behaviour of the code that the models contain, or that was met while writing them, and no
property forbids:

Gateway and delivery

* the tables of the gateway are in memory, so an update repeated after a restart is
  processed again, and may be answered again; `AnswersInOrder` speaks of one life of
  the process;
* the identifier of an update is consumed before anything is done with it, so an update
  whose handler fails later is acknowledged as a duplicate when it is repeated, and
  dropped;
* "serialização por chat" (`docs/architecture/service-catalog.md:13`) does not survive the
  eviction of a lock that was handed out and is not yet held: with 4096 other chats active
  within the hour, two tasks of a chat may run at once. Hence the assumption `Room`;
* when the orchestrator times out the message is orchestrated once more although the
  first run may still be going on, so one message may leave two turns in the transcript and
  two changes of the visit; `VisitAsTold` says which of them the user hears of;
* a dedicated stack (`dedicated_stack_app.py:188-219`) postprocesses the answer after the
  turn was stored, so the transcript keeps a text the user did not see; `ShownIsRemembered`
  is about what was stored, `VisitAsTold` does not count a reworded answer as telling.
  Answers of an explicit GraphRAG question are not stored at all;
* the context is a window of rows, so what runs given up or late requests store pushes
  answers the user has read out of it, and an operator's notes do too;
* a visit may be changed and the user never told: the run crashed afterwards, was given up
  or withheld, or its request landed late. `VisitAsTold` excludes only that an answer the
  user did read, about a change made last, is contradicted by an older one read later.

Link and conversation

* the conversation held before a link is not adopted by the link, since the query runs
  before the session has an actor (`api_core/main.py:1480`); the next turn adopts it;
* a chat that passes from one user to another keeps the first as the owner of its thread
  (`conversation_memory.py:45`), and turns of the second are stored in it, which
  `docs/security/security-architecture.md:88` does not expect.

Tickets

* one visit and one request of a conversation share a ticket, so cancelling the visit
  closes the request's ticket.

Access

* `/v1/authz/check` takes an actor from its caller; for a student or teacher without an id
  OPA finds null equal to null and allows, the local function refuses. No handler builds
  such a request, which is why `FallbackAgrees` holds;
* a guardian with the finance view gets a 404 when another guardian signed the contract,
  though the policy grants; a teacher may be refused a student of a second class, because
  the query takes the first row; a link that shows nothing is invisible to the guardian;
* the policy and its fallback grant beyond the matrix (`BeyondMatrix`): everything to the
  admin, whom `docs/security/access-control-matrix.md:28` denies by default and line 69 wants
  refused and recorded; a student's own finances (line 20) and administrative data to
  coordination (line 25), both "Limitado" there, in whole;
* the upcoming assessments of a student's class need only a link in row level security
  (`domain.py:212-264`): a guardian whose academic view is withdrawn after the decision, and
  before the rows are read, is still shown them, which for grades and attendance the row
  policy prevents;
* row level security alone would show a student's row to a teacher or to the finance team
  asking for the administrative status; the policy refuses it.

Supervisor and cache

* `planner_support.py:543` calls a function that is not defined, so a planner without
  structured output and without advice always ends in the safe fallback;
* a specialist that booked something and then raised is dropped with its result, so the
  answer may not mention the booking; a manager that runs again without the session memory
  may act twice;
* the refiner's list of answers to leave alone (`supervisor_run_flow.py:317-321`) misses the
  refusal of a third party, whose reason has a longer name
  (`protected_answer_helpers.py:1063`);
* concurrent fetches may replace a newer value by an older one, for at most a life and a
  call (`ServedRecent`);
* the obvious remedy for `stale_cache`, to keep an expired entry until its successor has come,
  is the mutation that breaks `ServedRecent`: api-core may be out of reach for as long as it
  likes, so whoever keeps the entry has to bound the age at which it is still served.

Worker

* two synchronisations that name a collection in the same second build the same one, and one
  may delete or mix what the other promotes (`Clash`, excepted in `AliasServes`);
* a failure to look up the aliases is swallowed (`pipeline.py:817-838`): the alias is switched
  and the old collection stays for good though the synchronisation ends well, and if Qdrant
  takes the alias for a collection's name, the served collection is deleted before the switch
  (`pipeline.py:793-795`); `NothingLeftBehind` and `NeverTakenDown` name both cases;
* two synchronisations that overlap may leave the catalogue of one beside the indexes of the
  other, or one index of each (`IndexesMatchCatalog` speaks of the one nobody interfered with);
  of two that switch one alias after the same lookup, the collection of the first is never
  deleted;
* restricted documents are rebuilt from their chunks, and each synchronisation joins another
  summary to the headings (`pipeline.py:191-194`), so a second synchronisation is not a
  no-op as `docs/operations/local-development.md:82` has it; an edit of such a document
  committed between the two transactions of a synchronisation is lost.
