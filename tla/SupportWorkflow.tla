--------------------------- MODULE SupportWorkflow ---------------------------
(***************************************************************************)
(* The human-support queue of api-core: conversations, support handoffs    *)
(* ("tickets"), visit bookings and institutional requests.                 *)
(*                                                                         *)
(* One action is one HTTP handler of api_core/main.py.  Every handler runs *)
(* its statements inside one session_scope() and has no await between the  *)
(* first statement and the commit, and the service is one uvicorn process, *)
(* so a committed transaction is one step.  A handler that raises is       *)
(* rolled back as a whole and is a stuttering step.                        *)
(*                                                                         *)
(* Data that no property tells apart is abstracted: the free text of a     *)
(* call (summary, notes, slot) is one member of Texts, protocol codes are  *)
(* the ids themselves, and audit rows, which nothing reads back, are       *)
(* left out.                                                               *)
(***************************************************************************)
EXTENDS Naturals, Sequences

CONSTANTS Threads,       \* external_thread_id of a channel, e.g. telegram:<chat>
          Users,         \* identity.users
          Operators,     \* the users whose role is an internal operator role
          Texts,         \* free text of tickets, visits and requests
          ChatTexts,     \* free text of ordinary turns and operator notes
          FiledQueues,   \* queues the callers file tickets for
          MaxHandoffs, MaxBookings, MaxRequests,   \* bounds on stored rows
          NoUser, NoThread, NoText

ASSUME SupportAssumption ==
    /\ Operators \subseteq Users
    /\ NoUser \notin Users
    /\ NoThread \notin Threads
    /\ NoText \notin Texts
    /\ ChatTexts \subseteq Texts
    /\ FiledQueues \subseteq {"direcao", "coordenacao", "financeiro", "secretaria", "atendimento"}
    /\ MaxHandoffs \in Nat /\ MaxBookings \in Nat /\ MaxRequests \in Nat

VARIABLES
    owner,       \* conversation.user_id, per thread
    convStatus,  \* conversation.status, "absent" until the row exists
    handoff,     \* conversation.handoffs
    rank,        \* per ticket: how many tickets of its thread have a later updated_at
    booking,     \* conversation.visit_bookings
    request,     \* conversation.institutional_requests
    recent,      \* the newest messages of the thread, oldest first, at most Window
    everClosed   \* history: the tickets that have been resolved or cancelled

vars == <<owner, convStatus, handoff, rank, booking, request, recent, everClosed>>

HandoffIds == 1..MaxHandoffs
BookingIds == 1..MaxBookings
RequestIds == 1..MaxRequests

(* Ids are handed out in creation order, so "created_at desc" is "greatest  *)
(* id first"; 0 stands for a missing link or a missing protocol code.       *)
Queues == {"direcao", "admissoes", "coordenacao", "financeiro", "secretaria", "atendimento"}
OpenStatuses == {"queued", "in_progress"}
ClosedStatuses == {"resolved", "cancelled"}
HandoffStatuses == OpenStatuses \cup ClosedStatuses
Priorities == {"standard", "high"}
Message == [sender: {"user", "assistant", "operator"}, text: Texts]

AbsentHandoff == [thread |-> NoThread, queue |-> "none", status |-> "absent",
                  assignee |-> NoUser, sla |-> "none"]
AbsentBooking == [thread |-> NoThread, ticket |-> 0, status |-> "absent"]
AbsentRequest == [thread |-> NoThread, ticket |-> 0, status |-> "absent"]

HandoffRow == [thread: Threads, queue: Queues, status: HandoffStatuses,
               assignee: Operators \cup {NoUser}, sla: Priorities]
BookingRow == [thread: Threads, ticket: HandoffIds, status: {"requested", "cancelled"}]
RequestRow == [thread: Threads, ticket: HandoffIds, status: {"queued"}]

Init ==
    /\ owner = [t \in Threads |-> NoUser]
    /\ convStatus = [t \in Threads |-> "absent"]
    /\ handoff = [h \in HandoffIds |-> AbsentHandoff]
    /\ rank = [h \in HandoffIds |-> MaxHandoffs]
    /\ booking = [b \in BookingIds |-> AbsentBooking]
    /\ request = [r \in RequestIds |-> AbsentRequest]
    /\ recent = [t \in Threads |-> <<>>]
    /\ everClosed = {}

-----------------------------------------------------------------------------
(* Reading the store *)

PresentHandoffs == {h \in HandoffIds : handoff[h].status # "absent"}
PresentBookings == {b \in BookingIds : booking[b].status # "absent"}
PresentRequests == {r \in RequestIds : request[r].status # "absent"}

(* Variant: the reuse lookup forgets tickets an operator is working on.     *)
OpenHandoffsQueuedOnly(t) ==
    {h \in HandoffIds : handoff[h].thread = t /\ handoff[h].status = "queued"}

OpenHandoffs(t) ==
    {h \in HandoffIds : handoff[h].thread = t /\ handoff[h].status \in OpenStatuses}

NextId(h, present) == h \notin present /\ \A k \in 1..(h - 1) : k \in present

(* The ticket create_support_handoff ends up with: the open ticket of the   *)
(* thread with the latest updated_at, or a new row when none is open.       *)
IsTargetHandoff(t, h) ==
    \/ /\ h \in OpenHandoffs(t)
       /\ \A k \in OpenHandoffs(t) : rank[h] <= rank[k]
    \/ /\ OpenHandoffs(t) = {}
       /\ NextId(h, PresentHandoffs)

(* updated_at = now(): h becomes the most recently updated of its thread.   *)
Touched(h, t) ==
    [k \in HandoffIds |->
        IF k = h THEN 0
        ELSE IF handoff[k].thread = t /\ rank[k] < rank[h] THEN rank[k] + 1
        ELSE rank[k]]

PriorityForQueue(q) ==
    IF q \in {"direcao", "coordenacao", "financeiro"} THEN "high" ELSE "standard"

(* Variant: an identified caller always takes the conversation over.        *)
ResolvedOwnerLastCaller(t, u) == IF u # NoUser THEN u ELSE owner[t]

(* A conversation without an owner is adopted by the identified caller.     *)
ResolvedOwner(t, u) == IF owner[t] = NoUser THEN u ELSE owner[t]

(* Variant: moving a ticket to another queue restarts its deadlines.        *)
ReroutedRestartingSla(row, q) == [row EXCEPT !.queue = q, !.sla = PriorityForQueue(q)]

(* Reuse keeps status, assignee and the deadlines computed at creation.     *)
Rerouted(row, q) == [row EXCEPT !.queue = q]

NewHandoff(t, q) ==
    [thread |-> t, queue |-> q, status |-> "queued", assignee |-> NoUser,
     sla |-> PriorityForQueue(q)]

-----------------------------------------------------------------------------
(* Writing the store *)

SaveHandoff(h, row, changed) ==
    /\ handoff' = [handoff EXCEPT ![h] = row]
    /\ rank' = IF changed THEN Touched(h, row.thread) ELSE rank
    /\ everClosed' = IF row.status \in ClosedStatuses THEN everClosed \cup {h} ELSE everClosed

(* An UPDATE is emitted, and updated_at moves, only for a row that changed; *)
(* the summary a call writes, not modelled, can be new or the stored one.   *)
WriteHandoff(h, row) == \E changed \in {TRUE, row # handoff[h]} : SaveHandoff(h, row, changed)

(* Conversation and ticket part of create_support_handoff.                  *)
FileTicket(t, u, h, q) ==
    /\ IsTargetHandoff(t, h)
    /\ WriteHandoff(h, IF h \in PresentHandoffs THEN Rerouted(handoff[h], q) ELSE NewHandoff(t, q))
    /\ owner' = [owner EXCEPT ![t] = ResolvedOwner(t, u)]
    /\ convStatus' = [convStatus EXCEPT ![t] = "open"]

-----------------------------------------------------------------------------
(* The message log.  No query of the code looks back further than the two   *)
(* newest rows of a thread; one more is kept for the properties.            *)

Window == 3
Last(s) == s[Len(s)]
Truncated(s) ==
    IF Len(s) <= Window THEN s ELSE [i \in 1..Window |-> s[Len(s) - Window + i]]
Store(t, rows) == recent' = [recent EXCEPT ![t] = Truncated(recent[t] \o rows)]

FromUser(x) == [sender |-> "user", text |-> x]
FromAssistant(x) == [sender |-> "assistant", text |-> x]

IsNewest(s, m) == s # <<>> /\ Last(s) = m

(* The two rows of a turn are stored with one created_at, so a query        *)
(* ordered by created_at alone can return either of them.                   *)
NewestByTime(s) ==
    IF s = <<>> THEN {}
    ELSE {Last(s)} \cup {s[i] : i \in {j \in 1..(Len(s) - 1) :
                                    /\ j = Len(s) - 1
                                    /\ {s[j].sender, Last(s).sender} = {"user", "assistant"}}}

(* _append_user_message_if_needed                                          *)
RowsIfNeeded(s, m) == IF IsNewest(s, FromUser(m)) THEN <<>> ELSE <<FromUser(m)>>

(* Variant: the text is stored without looking at the log.                  *)
HandoffRowsAlways(s, m) == {<<FromUser(m)>>}

(* What create_support_handoff can store for the user's text m.             *)
HandoffRows(s, m) ==
    IF m = NoText THEN {<<>>}
    ELSE {rows \in {<<>>, <<FromUser(m)>>} :
            IF rows = <<>> THEN FromUser(m) \in NewestByTime(s)
                           ELSE NewestByTime(s) # {FromUser(m)}}

(* append_conversation_messages for a turn: the user's text x, answered.    *)
Turn(x) == {FromUser(x), FromAssistant(x)}
AlreadyStored(s, x) == Len(s) >= 2 /\ {Last(s), s[Len(s) - 1]} = Turn(x)

(* Each row of the turn is compared with the newest persisted row; the rows *)
(* that remain share created_at and come out in either order.               *)
TurnRows(s, x) ==
    IF IsNewest(s, FromUser(x)) THEN {<<FromAssistant(x)>>}
    ELSE IF IsNewest(s, FromAssistant(x)) THEN {<<FromUser(x)>>}
    ELSE {<<FromUser(x), FromAssistant(x)>>, <<FromAssistant(x), FromUser(x)>>}

-----------------------------------------------------------------------------
(* POST /v1/internal/support/handoffs *)

CreateSupportHandoff(t, u, h, q, m) ==
    /\ FileTicket(t, u, h, q)
    /\ \E rows \in HandoffRows(recent[t], m) : Store(t, rows)
    /\ UNCHANGED <<booking, request>>

(* Variant: no existing booking is ever found for the reused ticket.        *)
BookingOfTicketNone(h) == {}

BookingOfTicket(h) == {b \in PresentBookings : booking[b].ticket = h}
RequestOfTicket(h) == {r \in PresentRequests : request[r].ticket = h}

(* POST /v1/internal/workflows/visit-bookings.  The notes go to the log    *)
(* through _append_user_message_if_needed and again through                 *)
(* create_support_handoff, whose query does not see the first, unflushed,   *)
(* row.  A booking that is found keeps its status.                          *)
CreateVisitBooking(t, u, h, x) ==
    /\ FileTicket(t, u, h, "admissoes")
    /\ \E rows \in HandoffRows(recent[t], x) : Store(t, RowsIfNeeded(recent[t], x) \o rows)
    /\ \/ /\ BookingOfTicket(h) # {}
          /\ UNCHANGED booking
       \/ /\ BookingOfTicket(h) = {}
          /\ \E b \in BookingIds :
                /\ NextId(b, PresentBookings)
                /\ booking' = [booking EXCEPT ![b] =
                                 [thread |-> t, ticket |-> h, status |-> "requested"]]
    /\ UNCHANGED request

(* POST /v1/internal/workflows/institutional-requests *)
CreateInstitutionalRequest(t, u, h, q, x) ==
    /\ FileTicket(t, u, h, q)
    /\ \E rows \in HandoffRows(recent[t], x) : Store(t, RowsIfNeeded(recent[t], x) \o rows)
    /\ \/ /\ RequestOfTicket(h) # {}
          /\ UNCHANGED request
       \/ /\ RequestOfTicket(h) = {}
          /\ \E r \in RequestIds :
                /\ NextId(r, PresentRequests)
                /\ request' = [request EXCEPT ![r] =
                                 [thread |-> t, ticket |-> h, status |-> "queued"]]
    /\ UNCHANGED booking

(* A protocol code finds its row whatever the thread; without one the       *)
(* newest row of the thread is meant.                                       *)
Resolved(rows, table, t, code, x) ==
    /\ x \in rows
    /\ \/ x = code
       \/ /\ code = 0
          /\ table[x].thread = t
          /\ \A y \in rows : table[y].thread = t => y <= x

(* Variant: cancelling a visit leaves a ticket in progress alone.           *)
CancelledWithVisitQueuedOnly(row) ==
    IF row.status = "queued" THEN [row EXCEPT !.status = "cancelled"] ELSE row

CancelledWithVisit(row) ==
    IF row.status \in ClosedStatuses THEN row ELSE [row EXCEPT !.status = "cancelled"]

(* POST /v1/internal/workflows/visit-bookings/actions, action = cancel      *)
CancelVisit(t, code, b) ==
    /\ Resolved(PresentBookings, booking, t, code, b)
    /\ booking' = [booking EXCEPT ![b].status = "cancelled"]
    /\ WriteHandoff(booking[b].ticket, CancelledWithVisit(handoff[booking[b].ticket]))
    /\ UNCHANGED <<owner, convStatus, request, recent>>

(* ... action = reschedule: the ticket goes back to the queue whatever its  *)
(* status is, and the conversation is not touched.                          *)
RescheduleVisit(t, code, b) ==
    /\ Resolved(PresentBookings, booking, t, code, b)
    /\ booking' = [booking EXCEPT ![b].status = "requested"]
    /\ WriteHandoff(booking[b].ticket, [handoff[booking[b].ticket] EXCEPT !.status = "queued"])
    /\ UNCHANGED <<owner, convStatus, request, recent>>

(* POST /v1/internal/workflows/institutional-requests/actions               *)
AppendRequestNote(t, code, r) ==
    /\ Resolved(PresentRequests, request, t, code, r)
    /\ request' = [request EXCEPT ![r].status = "queued"]
    /\ WriteHandoff(request[r].ticket, [handoff[request[r].ticket] EXCEPT !.status = "queued"])
    /\ UNCHANGED <<owner, convStatus, booking, recent>>

-----------------------------------------------------------------------------
(* PATCH /v1/support/handoffs/{id}, by an operator the policy lets through. *)
(* st is the requested status or "keep"; asg an operator, "clear" or "keep";*)
(* note the operator's note or NoText.                                      *)

AssigneeAfter(row, actor, st, asg) ==
    CASE asg = "clear" -> NoUser
      [] asg \notin {"clear", "keep"} -> asg
      [] asg = "keep" /\ st = "in_progress" /\ row.assignee = NoUser -> actor
      [] OTHER -> row.assignee

(* Variant: only resolving a ticket closes its conversation.                *)
ConversationStatusForResolvedOnly(st) == IF st = "resolved" THEN "closed" ELSE "open"

ConversationStatusFor(st) == IF st \in ClosedStatuses THEN "closed" ELSE "open"

(* Variant: any user can be named as assignee.                              *)
AssignableAnyUser(asg) == asg \in Users \cup {"clear", "keep"}

Assignable(asg) == asg \in Operators \cup {"clear", "keep"}

UpdateHandoffStatus(h, actor, st, asg, note) ==
    LET row == handoff[h]
        new == [row EXCEPT !.status = IF st = "keep" THEN @ ELSE st,
                           !.assignee = AssigneeAfter(row, actor, st, asg)]
        assigns == asg \notin {"clear", "keep"}      \* assigned_at = now() is a change
    IN /\ h \in PresentHandoffs
       /\ Assignable(asg)
       /\ ~(st = "keep" /\ asg = "keep" /\ note = NoText)
       /\ SaveHandoff(h, new, new # row \/ assigns)
       /\ convStatus' = IF st = "keep" THEN convStatus
                        ELSE [convStatus EXCEPT ![row.thread] = ConversationStatusFor(st)]
       /\ Store(row.thread, IF note = NoText THEN <<>> ELSE <<[sender |-> "operator", text |-> note]>>)
       /\ UNCHANGED <<owner, booking, request>>

(* POST /v1/internal/conversations/messages: a turn the log already ends    *)
(* with is skipped, and then the conversation is not reopened either.       *)
AppendConversationMessages(t, u, x) ==
    /\ owner' = [owner EXCEPT ![t] = ResolvedOwner(t, u)]
    /\ IF AlreadyStored(recent[t], x)
       THEN UNCHANGED <<convStatus, recent>>
       ELSE /\ convStatus' = [convStatus EXCEPT ![t] = "open"]
            /\ \E rows \in TurnRows(recent[t], x) : Store(t, rows)
    /\ UNCHANGED <<handoff, rank, booking, request, everClosed>>

-----------------------------------------------------------------------------

Callers == Users \cup {NoUser}

Next ==
    \/ \E t \in Threads, u \in Callers, h \in HandoffIds :
          \/ \E q \in FiledQueues, m \in Texts \cup {NoText} : CreateSupportHandoff(t, u, h, q, m)
          \/ \E x \in Texts : CreateVisitBooking(t, u, h, x)
          \/ \E q \in FiledQueues, x \in Texts : CreateInstitutionalRequest(t, u, h, q, x)
    \/ \E t \in Threads, b \in BookingIds, code \in {0} \cup BookingIds :
          \/ CancelVisit(t, code, b)
          \/ RescheduleVisit(t, code, b)
    \/ \E t \in Threads, r \in RequestIds, code \in {0} \cup RequestIds :
          AppendRequestNote(t, code, r)
    \/ \E h \in HandoffIds, actor \in Operators, st \in HandoffStatuses \cup {"keep"},
         asg \in Users \cup {"clear", "keep"}, note \in ChatTexts \cup {NoText} :
          UpdateHandoffStatus(h, actor, st, asg, note)
    \/ \E t \in Threads, u \in Callers, x \in ChatTexts : AppendConversationMessages(t, u, x)

Spec == Init /\ [][Next]_vars

-----------------------------------------------------------------------------
(* Properties *)

TypeOK ==
    /\ owner \in [Threads -> Users \cup {NoUser}]
    /\ convStatus \in [Threads -> {"absent", "open", "closed"}]
    /\ handoff \in [HandoffIds -> HandoffRow \cup {AbsentHandoff}]
    /\ rank \in [HandoffIds -> Nat]
    /\ booking \in [BookingIds -> BookingRow \cup {AbsentBooking}]
    /\ request \in [RequestIds -> RequestRow \cup {AbsentRequest}]
    /\ recent \in [Threads -> Seq(Message)]
    /\ everClosed \subseteq HandoffIds

(* Of the open tickets of a thread at most one has never been closed: the   *)
(* reuse lookup of create_support_handoff never lets two fresh tickets      *)
(* stand side by side, however tickets are reopened around it.              *)
Fresh(h) == handoff[h].status \in OpenStatuses /\ h \notin everClosed

FreshTicketUnique ==
    \A h, k \in HandoffIds :
        Fresh(h) /\ Fresh(k) /\ handoff[h].thread = handoff[k].thread => h = k

(* The links of the workflows: a visit or a request points to an existing   *)
(* ticket of its own thread, and no two visits (no two requests) share one, *)
(* although by protocol code they can be changed from any thread.           *)
VisitLinks ==
    \A b \in PresentBookings :
        /\ handoff[booking[b].ticket].thread = booking[b].thread
        /\ \A c \in PresentBookings : booking[c].ticket = booking[b].ticket => c = b

RequestLinks ==
    \A r \in PresentRequests :
        /\ handoff[request[r].ticket].thread = request[r].thread
        /\ \A c \in PresentRequests : request[c].ticket = request[r].ticket => c = r

LinksConsistent == VisitLinks /\ RequestLinks

(* A cancelled visit has closed its ticket at some point: no cancellation   *)
(* leaves work in the queue that nobody asked for any more.                 *)
CancelledVisitClosedItsTicket ==
    \A b \in PresentBookings : booking[b].status = "cancelled" => booking[b].ticket \in everClosed

(* A conversation, once somebody's, stays theirs whoever writes in it.      *)
OwnerSticky ==
    [][\A t \in Threads : owner[t] # NoUser => owner'[t] = owner[t]]_vars

(* Deadlines are set once: however often a ticket is reused, rerouted or    *)
(* reopened, its first response and resolution times are not renegotiated.  *)
SlaNeverRenegotiated ==
    [][\A h \in PresentHandoffs : handoff'[h].sla = handoff[h].sla]_vars

(* A ticket is closed only together with its conversation (an operator did  *)
(* it) or by cancelling the visit it was filed for.                         *)
ClosureHasCause ==
    [][\A h \in PresentHandoffs :
         handoff[h].status \in OpenStatuses /\ handoff'[h].status \in ClosedStatuses =>
            \/ convStatus'[handoff[h].thread] = "closed"
            \/ \E b \in BookingOfTicket(h) : booking'[b].status = "cancelled"]_vars

(* The log never ends with three equal user messages: a repeated call       *)
(* stores no further copy.                                                  *)
NoThirdCopy ==
    \A t \in Threads :
        Len(recent[t]) = Window /\ Last(recent[t]).sender = "user"
            => \E i \in 1..Window : recent[t][i] # Last(recent[t])
-----------------------------------------------------------------------------
(* The abstract queue this module implements.                               *)

Stage(h) ==
    IF handoff[h].status = "absent" THEN "none"
    ELSE IF handoff[h].status \in ClosedStatuses THEN "closed"
    ELSE IF Fresh(h) THEN "fresh" ELSE "reopened"

Ledger == INSTANCE TicketLedger
            WITH Tickets <- HandoffIds,
                 stage <- [h \in HandoffIds |-> Stage(h)],
                 home <- [h \in HandoffIds |-> handoff[h].thread]

(* Every handler is a step of the abstract queue or leaves it unchanged: in *)
(* particular no call files a second ticket beside an open one, whichever   *)
(* of the four entry points files it and whoever reopened tickets before.   *)
ImplementsLedger == Ledger!Spec
=============================================================================
