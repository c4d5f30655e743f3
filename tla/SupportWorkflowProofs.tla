------------------------ MODULE SupportWorkflowProofs ------------------------
(***************************************************************************)
(* Proofs about SupportWorkflow, for any threads, users, texts and bounds. *)
(***************************************************************************)
EXTENDS SupportWorkflow, SequenceTheorems, TLAPS

(* The inductive invariant.  Type correctness alone is not inductive: a     *)
(* cancelled visit writes to the ticket it links to, which must exist; and  *)
(* the uniqueness of fresh tickets needs that closing is remembered, or a   *)
(* reopened ticket would count as fresh again.                              *)
ClosedIsRecorded ==
    /\ \A h \in HandoffIds : handoff[h].status \in ClosedStatuses => h \in everClosed
    /\ \A h \in everClosed : handoff[h].status # "absent"

IInv ==
    /\ TypeOK
    /\ LinksConsistent
    /\ ClosedIsRecorded
    /\ FreshTicketUnique

USE SupportAssumption

LEMMA InitIInv == Init => IInv
  BY DEF Init, IInv, TypeOK, LinksConsistent, VisitLinks, RequestLinks, ClosedIsRecorded, FreshTicketUnique, Fresh,
         HandoffIds, BookingIds, RequestIds, AbsentHandoff, AbsentBooking, AbsentRequest,
         PresentBookings, PresentRequests, OpenStatuses, ClosedStatuses

-----------------------------------------------------------------------------
(* Saving one ticket row, which every handler of the queue comes down to.   *)

(* What a handler owes before it saves row as ticket h: the row keeps the   *)
(* thread and the deadlines of an existing ticket, and a new ticket is open *)
(* and goes to a thread with no open one.                                   *)
Admissible(h, row) ==
    /\ h \in HandoffIds
    /\ row \in HandoffRow
    /\ h \in PresentHandoffs =>
          row.thread = handoff[h].thread /\ row.sla = handoff[h].sla
    /\ h \notin PresentHandoffs =>
          row.status \in OpenStatuses /\ OpenHandoffs(row.thread) = {}

LEMMA TouchedType ==
  ASSUME TypeOK, NEW h \in HandoffIds, NEW t
  PROVE  Touched(h, t) \in [HandoffIds -> Nat]
  BY DEF TypeOK, Touched, HandoffIds

(* Only existing tickets belong to a thread.                                *)
LEMMA ThreadMeansPresent ==
  ASSUME TypeOK, NEW k \in HandoffIds, handoff[k].thread \in Threads
  PROVE  k \in PresentHandoffs
  <1>1. handoff[k] \in HandoffRow \cup {AbsentHandoff}
    BY DEF TypeOK
  <1>2. handoff[k] # AbsentHandoff
    BY DEF AbsentHandoff
  <1>3. handoff[k].status \in HandoffStatuses
    BY <1>1, <1>2 DEF HandoffRow
  <1> QED
    BY <1>3 DEF PresentHandoffs, HandoffStatuses, OpenStatuses, ClosedStatuses

LEMMA SaveTypes ==
  ASSUME TypeOK, NEW h, NEW row, NEW changed \in BOOLEAN,
         Admissible(h, row), SaveHandoff(h, row, changed)
  PROVE  /\ handoff' \in [HandoffIds -> HandoffRow \cup {AbsentHandoff}]
         /\ rank' \in [HandoffIds -> Nat]
         /\ everClosed' \subseteq HandoffIds
  <1>1. h \in HandoffIds /\ row \in HandoffRow
    BY DEF Admissible
  <1>2. handoff' \in [HandoffIds -> HandoffRow \cup {AbsentHandoff}]
    BY <1>1 DEF SaveHandoff, TypeOK
  <1>3. rank' \in [HandoffIds -> Nat]
    BY <1>1, TouchedType DEF SaveHandoff, TypeOK
  <1>4. everClosed' \subseteq HandoffIds
    BY <1>1 DEF SaveHandoff, TypeOK
  <1> QED
    BY <1>2, <1>3, <1>4

LEMMA SaveRecordsClosing ==
  ASSUME TypeOK, ClosedIsRecorded, NEW h, NEW row, NEW changed \in BOOLEAN,
         Admissible(h, row), SaveHandoff(h, row, changed)
  PROVE  ClosedIsRecorded'
  BY DEF TypeOK, ClosedIsRecorded, Admissible, SaveHandoff, HandoffRow, HandoffStatuses,
         OpenStatuses, ClosedStatuses

LEMMA SaveKeepsFreshUnique ==
  ASSUME IInv, NEW h, NEW row, NEW changed \in BOOLEAN,
         Admissible(h, row), SaveHandoff(h, row, changed)
  PROVE  FreshTicketUnique'
  <1> SUFFICES ASSUME NEW i \in HandoffIds, NEW j \in HandoffIds,
                      Fresh(i)', Fresh(j)', handoff'[i].thread = handoff'[j].thread
               PROVE  i = j
    BY DEF FreshTicketUnique
  <1>1. h \in HandoffIds /\ row \in HandoffRow /\ handoff \in [HandoffIds -> HandoffRow \cup {AbsentHandoff}]
    BY DEF Admissible, IInv, TypeOK
  <1>2. ASSUME NEW k \in HandoffIds, k # h, Fresh(k)'
        PROVE  Fresh(k) /\ handoff'[k] = handoff[k]
    BY <1>1, <1>2 DEF Fresh, SaveHandoff
  <1>3. handoff'[h] = row
    BY <1>1 DEF SaveHandoff
  <1>4. ASSUME h \in PresentHandoffs, Fresh(h)'
        PROVE  Fresh(h) /\ handoff'[h].thread = handoff[h].thread
    <2>1. h \notin everClosed
      BY <1>4 DEF Fresh, SaveHandoff
    <2>2. handoff[h].status \in OpenStatuses
      BY <1>1, <1>4, <2>1 DEF IInv, ClosedIsRecorded, PresentHandoffs, HandoffRow, HandoffStatuses,
         AbsentHandoff
    <2> QED
      BY <1>3, <1>4, <2>1, <2>2 DEF Fresh, Admissible
  <1>5. ASSUME h \notin PresentHandoffs, NEW k \in HandoffIds, k # h, Fresh(k)',
               handoff'[k].thread = row.thread
        PROVE  FALSE
    <2>1. k \in OpenHandoffs(row.thread)
      BY <1>2, <1>5 DEF OpenHandoffs, Fresh
    <2> QED
      BY <1>5, <2>1 DEF Admissible
  <1>6. CASE h \in PresentHandoffs
    BY <1>2, <1>4, <1>6 DEF IInv, FreshTicketUnique
  <1>7. CASE h \notin PresentHandoffs
    <2>1. CASE i = h /\ j # h
      <3>1. handoff'[j].thread = row.thread
        BY <1>3, <2>1
      <3> QED
        BY <1>5, <1>7, <2>1, <3>1
    <2>2. CASE j = h /\ i # h
      <3>1. handoff'[i].thread = row.thread
        BY <1>3, <2>2
      <3> QED
        BY <1>5, <1>7, <2>2, <3>1
    <2>3. CASE i # h /\ j # h
      BY <1>2, <2>3 DEF IInv, FreshTicketUnique
    <2> QED
      BY <2>1, <2>2, <2>3
  <1> QED
    BY <1>6, <1>7

(* The threads of existing tickets never change, so links stay consistent   *)
(* as long as the workflow rows themselves do.                              *)
LEMMA SaveKeepsThreads ==
  ASSUME TypeOK, NEW h, NEW row, NEW changed \in BOOLEAN,
         Admissible(h, row), SaveHandoff(h, row, changed),
         NEW k \in HandoffIds, handoff[k].thread \in Threads
  PROVE  handoff'[k].thread = handoff[k].thread
  <1>1. k \in PresentHandoffs
    BY ThreadMeansPresent
  <1> QED
    BY <1>1 DEF TypeOK, Admissible, SaveHandoff

-----------------------------------------------------------------------------
(* The rows the handlers save are admissible.                               *)

LEMMA PriorityType ==
  ASSUME NEW q
  PROVE  PriorityForQueue(q) \in Priorities
  BY DEF PriorityForQueue, Priorities

LEMMA PresentRow ==
  ASSUME TypeOK, NEW h \in PresentHandoffs
  PROVE  h \in HandoffIds /\ handoff[h] \in HandoffRow
  BY DEF TypeOK, PresentHandoffs, AbsentHandoff

(* A visit's or a request's ticket exists.                                  *)
LEMMA LinkedTicketPresent ==
  ASSUME IInv
  PROVE  /\ \A b \in PresentBookings : booking[b].ticket \in PresentHandoffs
         /\ \A r \in PresentRequests : request[r].ticket \in PresentHandoffs
  <1>1. ASSUME NEW b \in PresentBookings PROVE booking[b].ticket \in PresentHandoffs
    <2>1. booking[b] \in BookingRow
      BY DEF IInv, TypeOK, PresentBookings, AbsentBooking
    <2>2. handoff[booking[b].ticket].thread \in Threads
      BY <2>1 DEF IInv, LinksConsistent, VisitLinks, BookingRow
    <2> QED
      BY <2>1, <2>2, ThreadMeansPresent DEF BookingRow, IInv
  <1>2. ASSUME NEW r \in PresentRequests PROVE request[r].ticket \in PresentHandoffs
    <2>1. request[r] \in RequestRow
      BY DEF IInv, TypeOK, PresentRequests, AbsentRequest
    <2>2. handoff[request[r].ticket].thread \in Threads
      BY <2>1 DEF IInv, LinksConsistent, RequestLinks, RequestRow
    <2> QED
      BY <2>1, <2>2, ThreadMeansPresent DEF RequestRow, IInv
  <1> QED
    BY <1>1, <1>2

(* Changing the status of an existing ticket, or its queue, is admissible.  *)
LEMMA StatusChangeAdmissible ==
  ASSUME IInv, NEW h \in PresentHandoffs, NEW st \in HandoffStatuses
  PROVE  Admissible(h, [handoff[h] EXCEPT !.status = st])
  BY PresentRow DEF IInv, Admissible, HandoffRow

FiledRow(t, h, q) ==
    IF h \in PresentHandoffs THEN Rerouted(handoff[h], q) ELSE NewHandoff(t, q)

LEMMA FiledRowAdmissible ==
  ASSUME IInv, NEW t \in Threads, NEW h \in HandoffIds, NEW q \in Queues, IsTargetHandoff(t, h)
  PROVE  Admissible(h, FiledRow(t, h, q)) /\ FiledRow(t, h, q).thread = t
  <1>1. CASE h \in PresentHandoffs
    <2>1. handoff[h].thread = t
      BY <1>1 DEF IsTargetHandoff, NextId, OpenHandoffs
    <2>2. handoff[h] \in HandoffRow
      BY <1>1, PresentRow DEF IInv
    <2> QED
      BY <1>1, <2>1, <2>2 DEF FiledRow, Rerouted, Admissible, HandoffRow
  <1>2. CASE h \notin PresentHandoffs
    <2>1. h \notin OpenHandoffs(t)
      BY <1>2 DEF OpenHandoffs, PresentHandoffs, OpenStatuses
    <2>2. OpenHandoffs(t) = {}
      BY <2>1 DEF IsTargetHandoff
    <2>3. /\ NewHandoff(t, q) \in HandoffRow
          /\ NewHandoff(t, q).thread = t
          /\ NewHandoff(t, q).status \in OpenStatuses
      BY PriorityType DEF NewHandoff, HandoffRow, HandoffStatuses, OpenStatuses
    <2> QED
      BY <1>2, <2>2, <2>3 DEF FiledRow, Admissible
  <1> QED
    BY <1>1, <1>2

-----------------------------------------------------------------------------
(* What is common to the handlers: a ticket is saved, and the tables of     *)
(* visits and requests change only in ways that keep their links.           *)

(* The row of a visit keeps its ticket and its thread, and no row is added. *)
VisitsKept ==
    /\ booking' \in [BookingIds -> BookingRow \cup {AbsentBooking}]
    /\ \A b \in BookingIds :
          /\ booking'[b].status # "absent" <=> booking[b].status # "absent"
          /\ booking'[b].thread = booking[b].thread
          /\ booking'[b].ticket = booking[b].ticket

RequestsKept ==
    /\ request' \in [RequestIds -> RequestRow \cup {AbsentRequest}]
    /\ \A r \in RequestIds :
          /\ request'[r].status # "absent" <=> request[r].status # "absent"
          /\ request'[r].thread = request[r].thread
          /\ request'[r].ticket = request[r].ticket

(* Tickets of some thread stay with it.                                     *)
ThreadsKept ==
    \A k \in HandoffIds : handoff[k].thread \in Threads => handoff'[k].thread = handoff[k].thread

LEMMA UnchangedVisitsKept ==
  ASSUME TypeOK, UNCHANGED booking PROVE VisitsKept
  BY DEF TypeOK, VisitsKept

LEMMA UnchangedRequestsKept ==
  ASSUME TypeOK, UNCHANGED request PROVE RequestsKept
  BY DEF TypeOK, RequestsKept

LEMMA BookingFacts ==
  ASSUME TypeOK, NEW b \in PresentBookings
  PROVE  /\ b \in BookingIds
         /\ booking[b] \in BookingRow
         /\ booking[b].ticket \in HandoffIds
         /\ booking[b].thread \in Threads
  BY DEF TypeOK, PresentBookings, AbsentBooking, BookingRow

LEMMA RequestFacts ==
  ASSUME TypeOK, NEW r \in PresentRequests
  PROVE  /\ r \in RequestIds
         /\ request[r] \in RequestRow
         /\ request[r].ticket \in HandoffIds
         /\ request[r].thread \in Threads
  BY DEF TypeOK, PresentRequests, AbsentRequest, RequestRow

LEMMA VisitLinksStable ==
  ASSUME TypeOK, VisitLinks, VisitsKept, ThreadsKept
  PROVE  VisitLinks'
  <1>1. PresentBookings' = PresentBookings
    BY DEF PresentBookings, VisitsKept
  <1>2. ASSUME NEW b \in PresentBookings
        PROVE  handoff'[booking'[b].ticket].thread = booking'[b].thread
    BY BookingFacts DEF VisitLinks, VisitsKept, ThreadsKept
  <1>3. ASSUME NEW b \in PresentBookings, NEW c \in PresentBookings,
               booking'[c].ticket = booking'[b].ticket
        PROVE  c = b
    BY <1>3, BookingFacts DEF VisitLinks, VisitsKept
  <1> QED
    BY <1>1, <1>2, <1>3 DEF VisitLinks

LEMMA RequestLinksStable ==
  ASSUME TypeOK, RequestLinks, RequestsKept, ThreadsKept
  PROVE  RequestLinks'
  <1>1. PresentRequests' = PresentRequests
    BY DEF PresentRequests, RequestsKept
  <1>2. ASSUME NEW r \in PresentRequests
        PROVE  handoff'[request'[r].ticket].thread = request'[r].thread
    BY RequestFacts DEF RequestLinks, RequestsKept, ThreadsKept
  <1>3. ASSUME NEW r \in PresentRequests, NEW c \in PresentRequests,
               request'[c].ticket = request'[r].ticket
        PROVE  c = r
    BY <1>3, RequestFacts DEF RequestLinks, RequestsKept
  <1> QED
    BY <1>1, <1>2, <1>3 DEF RequestLinks

(* A new visit for a ticket of its thread that no other visit points to.    *)
LEMMA NewVisitLinks ==
  ASSUME TypeOK, VisitLinks, ThreadsKept,
         NEW b \in BookingIds, b \notin PresentBookings,
         NEW t \in Threads, NEW h \in HandoffIds,
         handoff'[h].thread = t, BookingOfTicket(h) = {},
         booking' = [booking EXCEPT ![b] = [thread |-> t, ticket |-> h, status |-> "requested"]]
  PROVE  VisitLinks' /\ booking' \in [BookingIds -> BookingRow \cup {AbsentBooking}]
  <1>1. booking' \in [BookingIds -> BookingRow \cup {AbsentBooking}]
    BY DEF TypeOK, BookingRow
  <1>2. PresentBookings' = PresentBookings \cup {b}
    BY DEF TypeOK, PresentBookings
  <1>3. booking'[b].thread = t /\ booking'[b].ticket = h
    BY DEF TypeOK
  <1>4. ASSUME NEW c \in PresentBookings
        PROVE  booking'[c] = booking[c] /\ booking[c].ticket # h
    BY BookingFacts DEF TypeOK, BookingOfTicket
  <1>5. ASSUME NEW c \in PresentBookings
        PROVE  handoff'[booking'[c].ticket].thread = booking'[c].thread
    BY <1>4, BookingFacts DEF VisitLinks, ThreadsKept
  <1> QED
    BY <1>1, <1>2, <1>3, <1>4, <1>5 DEF VisitLinks

LEMMA NewRequestLinks ==
  ASSUME TypeOK, RequestLinks, ThreadsKept,
         NEW r \in RequestIds, r \notin PresentRequests,
         NEW t \in Threads, NEW h \in HandoffIds,
         handoff'[h].thread = t, RequestOfTicket(h) = {},
         request' = [request EXCEPT ![r] = [thread |-> t, ticket |-> h, status |-> "queued"]]
  PROVE  RequestLinks' /\ request' \in [RequestIds -> RequestRow \cup {AbsentRequest}]
  <1>1. request' \in [RequestIds -> RequestRow \cup {AbsentRequest}]
    BY DEF TypeOK, RequestRow
  <1>2. PresentRequests' = PresentRequests \cup {r}
    BY DEF TypeOK, PresentRequests
  <1>3. request'[r].thread = t /\ request'[r].ticket = h
    BY DEF TypeOK
  <1>4. ASSUME NEW c \in PresentRequests
        PROVE  request'[c] = request[c] /\ request[c].ticket # h
    BY RequestFacts DEF TypeOK, RequestOfTicket
  <1>5. ASSUME NEW c \in PresentRequests
        PROVE  handoff'[request'[c].ticket].thread = request'[c].thread
    BY <1>4, RequestFacts DEF RequestLinks, ThreadsKept
  <1> QED
    BY <1>1, <1>2, <1>3, <1>4, <1>5 DEF RequestLinks

SavesAdmissibleRow ==
    \E h \in HandoffIds, row \in HandoffRow, changed \in BOOLEAN :
        Admissible(h, row) /\ SaveHandoff(h, row, changed)

(* Saving an admissible row keeps the part of IInv about tickets.           *)
TicketPart ==
    /\ SavesAdmissibleRow
    /\ handoff' \in [HandoffIds -> HandoffRow \cup {AbsentHandoff}]
    /\ rank' \in [HandoffIds -> Nat]
    /\ everClosed' \subseteq HandoffIds
    /\ ClosedIsRecorded'
    /\ FreshTicketUnique'
    /\ ThreadsKept

LEMMA SaveKeepsTicketPart ==
  ASSUME IInv, NEW h, NEW row, NEW changed \in BOOLEAN,
         Admissible(h, row), SaveHandoff(h, row, changed)
  PROVE  TicketPart
  <1>1. ThreadsKept
    BY SaveKeepsThreads DEF ThreadsKept, IInv
  <1>2. ClosedIsRecorded'
    BY SaveRecordsClosing DEF IInv
  <1>3. SavesAdmissibleRow
    BY DEF SavesAdmissibleRow, Admissible
  <1> QED
    BY <1>1, <1>2, <1>3, SaveTypes, SaveKeepsFreshUnique DEF TicketPart, IInv

LEMMA WriteKeepsTicketPart ==
  ASSUME IInv, NEW h, NEW row, Admissible(h, row), WriteHandoff(h, row)
  PROVE  TicketPart
  <1>1. PICK changed \in {TRUE, row # handoff[h]} : SaveHandoff(h, row, changed)
    BY DEF WriteHandoff
  <1>2. changed \in BOOLEAN
    BY <1>1
  <1> QED
    BY <1>1, <1>2, SaveKeepsTicketPart

-----------------------------------------------------------------------------
(* The log.                                                                 *)

LEMMA StoreType ==
  ASSUME TypeOK, NEW t \in Threads, NEW rows \in Seq(Message), Store(t, rows)
  PROVE  recent' \in [Threads -> Seq(Message)]
  <1>1. recent[t] \o rows \in Seq(Message)
    BY DEF TypeOK
  <1>2. ASSUME NEW s \in Seq(Message) PROVE Truncated(s) \in Seq(Message)
    BY DEF Truncated, Window
  <1>3. Truncated(recent[t] \o rows) \in Seq(Message)
    BY <1>1, <1>2
  <1> QED
    BY <1>3 DEF TypeOK, Store

LEMMA RowTypes ==
  ASSUME NEW s, NEW x \in Texts
  PROVE  /\ RowsIfNeeded(s, x) \in Seq(Message)
         /\ \A rows \in HandoffRows(s, x) : rows \in Seq(Message)
         /\ \A rows \in TurnRows(s, x) : rows \in Seq(Message)
  <1>1. FromUser(x) \in Message /\ FromAssistant(x) \in Message
    BY DEF FromUser, FromAssistant, Message
  <1>2. <<FromUser(x)>> \in Seq(Message) /\ <<FromAssistant(x)>> \in Seq(Message)
    BY <1>1
  <1>3. /\ <<FromUser(x), FromAssistant(x)>> \in Seq(Message)
        /\ <<FromAssistant(x), FromUser(x)>> \in Seq(Message)
    BY <1>1
  <1>4. <<>> \in Seq(Message)
    OBVIOUS
  <1>5. RowsIfNeeded(s, x) \in Seq(Message)
    BY <1>2, <1>4 DEF RowsIfNeeded
  <1>6. ASSUME NEW rows \in HandoffRows(s, x) PROVE rows \in Seq(Message)
    BY <1>2, <1>4, Zenon DEF HandoffRows
  <1>7. ASSUME NEW rows \in TurnRows(s, x) PROVE rows \in Seq(Message)
    BY <1>2, <1>3, Zenon DEF TurnRows
  <1> QED
    BY <1>5, <1>6, <1>7

-----------------------------------------------------------------------------
(* One lemma per handler: it keeps the inductive invariant.                 *)

LEMMA FileTicketKeeps ==
  ASSUME IInv, NEW t \in Threads, NEW u \in Callers, NEW h \in HandoffIds, NEW q \in Queues,
         FileTicket(t, u, h, q)
  PROVE  /\ TicketPart
         /\ owner' \in [Threads -> Users \cup {NoUser}]
         /\ convStatus' \in [Threads -> {"absent", "open", "closed"}]
         /\ handoff'[h].thread = t
  <1>1. Admissible(h, FiledRow(t, h, q)) /\ FiledRow(t, h, q).thread = t
    BY FiledRowAdmissible DEF FileTicket
  <1>2. WriteHandoff(h, FiledRow(t, h, q))
    BY DEF FileTicket, FiledRow
  <1>3. TicketPart
    BY <1>1, <1>2, WriteKeepsTicketPart
  <1>4. owner' \in [Threads -> Users \cup {NoUser}]
    BY DEF FileTicket, ResolvedOwner, Callers, IInv, TypeOK
  <1>5. convStatus' \in [Threads -> {"absent", "open", "closed"}]
    BY DEF FileTicket, IInv, TypeOK
  <1>6. handoff'[h] = FiledRow(t, h, q)
    BY <1>2 DEF WriteHandoff, SaveHandoff, IInv, TypeOK
  <1> QED
    BY <1>1, <1>3, <1>4, <1>5, <1>6

LEMMA CreateSupportHandoffKeeps ==
  ASSUME IInv, NEW t \in Threads, NEW u \in Callers, NEW h \in HandoffIds,
         NEW q \in FiledQueues, NEW m \in Texts \cup {NoText}, CreateSupportHandoff(t, u, h, q, m)
  PROVE  IInv' /\ SavesAdmissibleRow
  <1>1. q \in Queues
    BY DEF Queues
  <1>2. /\ TicketPart
        /\ owner' \in [Threads -> Users \cup {NoUser}]
        /\ convStatus' \in [Threads -> {"absent", "open", "closed"}]
    BY <1>1, FileTicketKeeps DEF CreateSupportHandoff
  <1>3. recent' \in [Threads -> Seq(Message)]
    <2>1. PICK rows \in HandoffRows(recent[t], m) : Store(t, rows)
      BY DEF CreateSupportHandoff
    <2>2. CASE m \in Texts
      BY <2>1, <2>2, RowTypes, StoreType DEF IInv
    <2>3. CASE m = NoText
      <3>1. rows = <<>>
        BY <2>1, <2>3 DEF HandoffRows
      <3>2. <<>> \in Seq(Message)
        OBVIOUS
      <3> QED
        BY <2>1, <3>1, <3>2, StoreType DEF IInv
    <2> QED
      BY <2>2, <2>3
  <1>4. VisitsKept /\ RequestsKept
    BY UnchangedVisitsKept, UnchangedRequestsKept DEF CreateSupportHandoff, IInv
  <1>5. VisitLinks' /\ RequestLinks'
    BY <1>2, <1>4, VisitLinksStable, RequestLinksStable DEF IInv, LinksConsistent, TicketPart
  <1> QED
    BY <1>2, <1>3, <1>4, <1>5
    DEF IInv, TypeOK, LinksConsistent, TicketPart, VisitsKept, RequestsKept

(* The log part of the two workflow handlers.                               *)
LEMMA WorkflowLog ==
  ASSUME TypeOK, NEW t \in Threads, NEW x \in Texts,
         \E rows \in HandoffRows(recent[t], x) : Store(t, RowsIfNeeded(recent[t], x) \o rows)
  PROVE  recent' \in [Threads -> Seq(Message)]
  <1>1. PICK rows \in HandoffRows(recent[t], x) : Store(t, RowsIfNeeded(recent[t], x) \o rows)
    OBVIOUS
  <1>2. rows \in Seq(Message) /\ RowsIfNeeded(recent[t], x) \in Seq(Message)
    BY <1>1, RowTypes
  <1>3. RowsIfNeeded(recent[t], x) \o rows \in Seq(Message)
    BY <1>2
  <1> QED
    BY <1>1, <1>3, StoreType

LEMMA CreateVisitBookingKeeps ==
  ASSUME IInv, NEW t \in Threads, NEW u \in Callers, NEW h \in HandoffIds, NEW x \in Texts,
         CreateVisitBooking(t, u, h, x)
  PROVE  IInv' /\ SavesAdmissibleRow
  <1>1. /\ TicketPart
        /\ owner' \in [Threads -> Users \cup {NoUser}]
        /\ convStatus' \in [Threads -> {"absent", "open", "closed"}]
        /\ handoff'[h].thread = t
    BY FileTicketKeeps, "admissoes" \in Queues DEF CreateVisitBooking, Queues
  <1>2. recent' \in [Threads -> Seq(Message)]
    BY WorkflowLog DEF CreateVisitBooking, IInv
  <1>3. RequestsKept
    BY UnchangedRequestsKept DEF CreateVisitBooking, IInv
  <1>4. RequestLinks'
    BY <1>1, <1>3, RequestLinksStable DEF IInv, LinksConsistent, TicketPart
  <1>5. VisitLinks' /\ booking' \in [BookingIds -> BookingRow \cup {AbsentBooking}]
    <2>1. CASE UNCHANGED booking
      <3>1. VisitsKept
        BY <2>1, UnchangedVisitsKept DEF IInv
      <3> QED
        BY <1>1, <3>1, VisitLinksStable DEF IInv, LinksConsistent, TicketPart, VisitsKept
    <2>2. ASSUME BookingOfTicket(h) = {},
                 NEW b \in BookingIds, NextId(b, PresentBookings),
                 booking' = [booking EXCEPT ![b] =
                               [thread |-> t, ticket |-> h, status |-> "requested"]]
          PROVE  VisitLinks' /\ booking' \in [BookingIds -> BookingRow \cup {AbsentBooking}]
      BY <1>1, <2>2, NewVisitLinks DEF IInv, LinksConsistent, TicketPart, NextId
    <2> QED
      BY <2>1, <2>2 DEF CreateVisitBooking
  <1> QED
    BY <1>1, <1>2, <1>3, <1>4, <1>5 DEF IInv, TypeOK, LinksConsistent, TicketPart, RequestsKept

LEMMA CreateInstitutionalRequestKeeps ==
  ASSUME IInv, NEW t \in Threads, NEW u \in Callers, NEW h \in HandoffIds,
         NEW q \in FiledQueues, NEW x \in Texts, CreateInstitutionalRequest(t, u, h, q, x)
  PROVE  IInv' /\ SavesAdmissibleRow
  <1>1. /\ TicketPart
        /\ owner' \in [Threads -> Users \cup {NoUser}]
        /\ convStatus' \in [Threads -> {"absent", "open", "closed"}]
        /\ handoff'[h].thread = t
    BY FileTicketKeeps, q \in Queues DEF CreateInstitutionalRequest, Queues
  <1>2. recent' \in [Threads -> Seq(Message)]
    BY WorkflowLog DEF CreateInstitutionalRequest, IInv
  <1>3. VisitsKept
    BY UnchangedVisitsKept DEF CreateInstitutionalRequest, IInv
  <1>4. VisitLinks'
    BY <1>1, <1>3, VisitLinksStable DEF IInv, LinksConsistent, TicketPart
  <1>5. RequestLinks' /\ request' \in [RequestIds -> RequestRow \cup {AbsentRequest}]
    <2>1. CASE UNCHANGED request
      <3>1. RequestsKept
        BY <2>1, UnchangedRequestsKept DEF IInv
      <3> QED
        BY <1>1, <3>1, RequestLinksStable DEF IInv, LinksConsistent, TicketPart, RequestsKept
    <2>2. ASSUME RequestOfTicket(h) = {},
                 NEW r \in RequestIds, NextId(r, PresentRequests),
                 request' = [request EXCEPT ![r] =
                               [thread |-> t, ticket |-> h, status |-> "queued"]]
          PROVE  RequestLinks' /\ request' \in [RequestIds -> RequestRow \cup {AbsentRequest}]
      BY <1>1, <2>2, NewRequestLinks DEF IInv, LinksConsistent, TicketPart, NextId
    <2> QED
      BY <2>1, <2>2 DEF CreateInstitutionalRequest
  <1> QED
    BY <1>1, <1>2, <1>3, <1>4, <1>5 DEF IInv, TypeOK, LinksConsistent, TicketPart, VisitsKept

(* A status written to a visit or a request that exists.                    *)
LEMMA VisitStatusKept ==
  ASSUME TypeOK, NEW b \in PresentBookings, NEW st \in {"requested", "cancelled"},
         booking' = [booking EXCEPT ![b].status = st]
  PROVE  VisitsKept
  BY BookingFacts DEF TypeOK, VisitsKept, PresentBookings, BookingRow

LEMMA RequestStatusKept ==
  ASSUME TypeOK, NEW r \in PresentRequests, request' = [request EXCEPT ![r].status = "queued"]
  PROVE  RequestsKept
  BY RequestFacts DEF TypeOK, RequestsKept, PresentRequests, RequestRow

(* What is left of a handler that writes one ticket and statuses only.      *)
LEMMA StatusStepKeeps ==
  ASSUME IInv, TicketPart, VisitsKept, RequestsKept, UNCHANGED owner,
         convStatus' \in [Threads -> {"absent", "open", "closed"}],
         recent' \in [Threads -> Seq(Message)]
  PROVE  IInv'
  <1>1. VisitLinks' /\ RequestLinks'
    BY VisitLinksStable, RequestLinksStable DEF IInv, LinksConsistent, TicketPart
  <1> QED
    BY <1>1 DEF IInv, TypeOK, LinksConsistent, TicketPart, VisitsKept, RequestsKept

LEMMA CancelVisitKeeps ==
  ASSUME IInv, NEW t \in Threads, NEW b \in BookingIds, NEW code, CancelVisit(t, code, b)
  PROVE  IInv' /\ SavesAdmissibleRow
  <1> DEFINE h == booking[b].ticket
  <1>1. b \in PresentBookings
    BY DEF CancelVisit, Resolved
  <1>2. h \in PresentHandoffs
    BY <1>1, LinkedTicketPresent
  <1>3. Admissible(h, CancelledWithVisit(handoff[h]))
    <2>1. Admissible(h, [handoff[h] EXCEPT !.status = "cancelled"])
      BY <1>2, StatusChangeAdmissible DEF HandoffStatuses, ClosedStatuses
    <2>2. Admissible(h, handoff[h])
      BY <1>2, PresentRow DEF Admissible, IInv
    <2> QED
      BY <2>1, <2>2 DEF CancelledWithVisit
  <1>4. TicketPart
    BY <1>3, WriteKeepsTicketPart DEF CancelVisit
  <1>5. VisitsKept /\ RequestsKept
    BY <1>1, VisitStatusKept, UnchangedRequestsKept DEF CancelVisit, IInv
  <1> QED
    BY <1>4, <1>5, StatusStepKeeps DEF CancelVisit, IInv, TypeOK, TicketPart

LEMMA RescheduleVisitKeeps ==
  ASSUME IInv, NEW t \in Threads, NEW b \in BookingIds, NEW code, RescheduleVisit(t, code, b)
  PROVE  IInv' /\ SavesAdmissibleRow
  <1> DEFINE h == booking[b].ticket
  <1>1. b \in PresentBookings
    BY DEF RescheduleVisit, Resolved
  <1>2. h \in PresentHandoffs
    BY <1>1, LinkedTicketPresent
  <1>3. Admissible(h, [handoff[h] EXCEPT !.status = "queued"])
    BY <1>2, StatusChangeAdmissible DEF HandoffStatuses, OpenStatuses
  <1>4. TicketPart
    BY <1>3, WriteKeepsTicketPart DEF RescheduleVisit
  <1>5. VisitsKept /\ RequestsKept
    BY <1>1, VisitStatusKept, UnchangedRequestsKept DEF RescheduleVisit, IInv
  <1> QED
    BY <1>4, <1>5, StatusStepKeeps DEF RescheduleVisit, IInv, TypeOK, TicketPart

LEMMA AppendRequestNoteKeeps ==
  ASSUME IInv, NEW t \in Threads, NEW r \in RequestIds, NEW code, AppendRequestNote(t, code, r)
  PROVE  IInv' /\ SavesAdmissibleRow
  <1> DEFINE h == request[r].ticket
  <1>1. r \in PresentRequests
    BY DEF AppendRequestNote, Resolved
  <1>2. h \in PresentHandoffs
    BY <1>1, LinkedTicketPresent
  <1>3. Admissible(h, [handoff[h] EXCEPT !.status = "queued"])
    BY <1>2, StatusChangeAdmissible DEF HandoffStatuses, OpenStatuses
  <1>4. TicketPart
    BY <1>3, WriteKeepsTicketPart DEF AppendRequestNote
  <1>5. VisitsKept /\ RequestsKept
    BY <1>1, RequestStatusKept, UnchangedVisitsKept DEF AppendRequestNote, IInv
  <1> QED
    BY <1>4, <1>5, StatusStepKeeps DEF AppendRequestNote, IInv, TypeOK, TicketPart

(* The row an operator's update saves, as in UpdateHandoffStatus.           *)
UpdatedRow(h, actor, st, asg) ==
    [handoff[h] EXCEPT !.status = IF st = "keep" THEN @ ELSE st,
                       !.assignee = AssigneeAfter(handoff[h], actor, st, asg)]

LEMMA UpdatedRowAdmissible ==
  ASSUME IInv, NEW h \in PresentHandoffs, NEW actor \in Operators,
         NEW st \in HandoffStatuses \cup {"keep"}, NEW asg, Assignable(asg)
  PROVE  Admissible(h, UpdatedRow(h, actor, st, asg))
  <1>1. h \in HandoffIds /\ handoff[h] \in HandoffRow
    BY PresentRow DEF IInv
  <1>2. AssigneeAfter(handoff[h], actor, st, asg) \in Operators \cup {NoUser}
    BY <1>1 DEF AssigneeAfter, Assignable, HandoffRow
  <1>3. (IF st = "keep" THEN handoff[h].status ELSE st) \in HandoffStatuses
    BY <1>1 DEF HandoffRow
  <1>4. /\ UpdatedRow(h, actor, st, asg) \in HandoffRow
        /\ UpdatedRow(h, actor, st, asg).thread = handoff[h].thread
        /\ UpdatedRow(h, actor, st, asg).sla = handoff[h].sla
    BY <1>1, <1>2, <1>3 DEF UpdatedRow, HandoffRow
  <1> QED
    BY <1>1, <1>4 DEF Admissible

LEMMA UpdateHandoffStatusKeeps ==
  ASSUME IInv, NEW h \in HandoffIds, NEW actor \in Operators,
         NEW st \in HandoffStatuses \cup {"keep"}, NEW asg, NEW note \in ChatTexts \cup {NoText},
         UpdateHandoffStatus(h, actor, st, asg, note)
  PROVE  IInv' /\ SavesAdmissibleRow
  <1>1. h \in PresentHandoffs /\ handoff[h] \in HandoffRow /\ handoff[h].thread \in Threads
    BY PresentRow DEF UpdateHandoffStatus, IInv, HandoffRow
  <1>2. Admissible(h, UpdatedRow(h, actor, st, asg))
    BY <1>1, UpdatedRowAdmissible DEF UpdateHandoffStatus
  <1>3. PICK changed \in BOOLEAN : SaveHandoff(h, UpdatedRow(h, actor, st, asg), changed)
    <2> DEFINE assigns == asg \notin {"clear", "keep"}
               changed == UpdatedRow(h, actor, st, asg) # handoff[h] \/ assigns
    <2>1. SaveHandoff(h, UpdatedRow(h, actor, st, asg), changed)
      BY DEF UpdateHandoffStatus, UpdatedRow
    <2>2. changed \in BOOLEAN
      OBVIOUS
    <2> QED
      BY <2>1, <2>2
  <1>4. TicketPart
    BY <1>2, <1>3, SaveKeepsTicketPart
  <1>5. convStatus' \in [Threads -> {"absent", "open", "closed"}]
    BY <1>1 DEF UpdateHandoffStatus, ConversationStatusFor, IInv, TypeOK
  <1>6. recent' \in [Threads -> Seq(Message)]
    <2> DEFINE rows == IF note = NoText THEN <<>> ELSE <<[sender |-> "operator", text |-> note]>>
    <2>1. note # NoText => [sender |-> "operator", text |-> note] \in Message
      BY DEF Message
    <2>2. rows \in Seq(Message)
      BY <2>1
    <2>3. Store(handoff[h].thread, rows)
      BY DEF UpdateHandoffStatus
    <2> QED
      BY <1>1, <2>2, <2>3, StoreType DEF IInv
  <1>7. VisitsKept /\ RequestsKept
    BY UnchangedVisitsKept, UnchangedRequestsKept DEF UpdateHandoffStatus, IInv
  <1> QED
    BY <1>4, <1>5, <1>6, <1>7, StatusStepKeeps DEF UpdateHandoffStatus, TicketPart

LEMMA AppendConversationMessagesKeeps ==
  ASSUME IInv, NEW t \in Threads, NEW u \in Callers, NEW x \in ChatTexts,
         AppendConversationMessages(t, u, x)
  PROVE  IInv'
  <1>1. owner' \in [Threads -> Users \cup {NoUser}]
    BY DEF AppendConversationMessages, ResolvedOwner, Callers, IInv, TypeOK
  <1>2. convStatus' \in [Threads -> {"absent", "open", "closed"}]
    BY DEF AppendConversationMessages, IInv, TypeOK
  <1>3. recent' \in [Threads -> Seq(Message)]
    <2>1. CASE AlreadyStored(recent[t], x)
      BY <2>1 DEF AppendConversationMessages, IInv, TypeOK
    <2>2. CASE ~AlreadyStored(recent[t], x)
      <3>1. PICK rows \in TurnRows(recent[t], x) : Store(t, rows)
        BY <2>2 DEF AppendConversationMessages
      <3>2. rows \in Seq(Message)
        BY <3>1, RowTypes
      <3> QED
        BY <3>1, <3>2, StoreType DEF IInv
    <2> QED
      BY <2>1, <2>2
  <1>4. UNCHANGED <<handoff, rank, booking, request, everClosed>>
    BY DEF AppendConversationMessages
  <1> QED
    BY <1>1, <1>2, <1>3, <1>4
    DEF IInv, TypeOK, LinksConsistent, VisitLinks, RequestLinks, PresentBookings,
        PresentRequests, ClosedIsRecorded, FreshTicketUnique, Fresh

-----------------------------------------------------------------------------
(* Every step keeps the invariant and writes at most one ticket, by an      *)
(* admissible row.                                                          *)
LEMMA NextKeeps ==
  ASSUME IInv, [Next]_vars
  PROVE  IInv' /\ (SavesAdmissibleRow \/ UNCHANGED <<handoff, everClosed>>)
  <1>1. CASE UNCHANGED vars
    BY <1>1 DEF vars, IInv, TypeOK, LinksConsistent, VisitLinks, RequestLinks, PresentBookings,
                PresentRequests, ClosedIsRecorded, FreshTicketUnique, Fresh
  <1>2. ASSUME NEW t \in Threads, NEW u \in Callers, NEW h \in HandoffIds,
               NEW q \in FiledQueues, NEW m \in Texts \cup {NoText},
               CreateSupportHandoff(t, u, h, q, m)
        PROVE  IInv' /\ SavesAdmissibleRow
    BY <1>2, CreateSupportHandoffKeeps
  <1>3. ASSUME NEW t \in Threads, NEW u \in Callers, NEW h \in HandoffIds, NEW x \in Texts,
               CreateVisitBooking(t, u, h, x)
        PROVE  IInv' /\ SavesAdmissibleRow
    BY <1>3, CreateVisitBookingKeeps
  <1>4. ASSUME NEW t \in Threads, NEW u \in Callers, NEW h \in HandoffIds,
               NEW q \in FiledQueues, NEW x \in Texts, CreateInstitutionalRequest(t, u, h, q, x)
        PROVE  IInv' /\ SavesAdmissibleRow
    BY <1>4, CreateInstitutionalRequestKeeps
  <1>5. ASSUME NEW t \in Threads, NEW b \in BookingIds, NEW code,
               CancelVisit(t, code, b) \/ RescheduleVisit(t, code, b)
        PROVE  IInv' /\ SavesAdmissibleRow
    BY <1>5, CancelVisitKeeps, RescheduleVisitKeeps
  <1>6. ASSUME NEW t \in Threads, NEW r \in RequestIds, NEW code, AppendRequestNote(t, code, r)
        PROVE  IInv' /\ SavesAdmissibleRow
    BY <1>6, AppendRequestNoteKeeps
  <1>7. ASSUME NEW h \in HandoffIds, NEW actor \in Operators,
               NEW st \in HandoffStatuses \cup {"keep"}, NEW asg, NEW note \in ChatTexts \cup {NoText},
               UpdateHandoffStatus(h, actor, st, asg, note)
        PROVE  IInv' /\ SavesAdmissibleRow
    BY <1>7, UpdateHandoffStatusKeeps
  <1>8. ASSUME NEW t \in Threads, NEW u \in Callers, NEW x \in ChatTexts,
               AppendConversationMessages(t, u, x)
        PROVE  IInv' /\ UNCHANGED <<handoff, everClosed>>
    BY <1>8, AppendConversationMessagesKeeps DEF AppendConversationMessages
  <1> QED
    BY <1>1, <1>2, <1>3, <1>4, <1>5, <1>6, <1>7, <1>8 DEF Next

(* The inductive invariant holds in every reachable state.                  *)
THEOREM Invariance == Spec => []IInv
  <1>1. IInv /\ [Next]_vars => IInv'
    BY NextKeeps
  <1> QED
    BY <1>1, InitIInv, PTL DEF Spec

(* Every row the handlers store is well formed.                             *)
THEOREM TypeCorrect == Spec => []TypeOK
  <1>1. IInv => TypeOK
    BY DEF IInv
  <1> QED
    BY <1>1, Invariance, PTL

(* Two open tickets that were never closed do not share a thread: the reuse *)
(* lookup of create_support_handoff is safe for any interleaving of calls.  *)
THEOREM FreshTickets == Spec => []FreshTicketUnique
  <1>1. IInv => FreshTicketUnique
    BY DEF IInv
  <1> QED
    BY <1>1, Invariance, PTL

(* Visits and requests point to tickets of their own thread, one each.      *)
THEOREM WorkflowLinks == Spec => []LinksConsistent
  <1>1. IInv => LinksConsistent
    BY DEF IInv
  <1> QED
    BY <1>1, Invariance, PTL

-----------------------------------------------------------------------------
(* Action properties.                                                       *)

(* The owner of a conversation is adopted once, by any of the handlers.     *)
THEOREM OwnerKept == Spec => OwnerSticky
  <1>1. ASSUME IInv, NEW t \in Threads, NEW u, NEW o \in Threads, owner[o] # NoUser,
               owner' = [owner EXCEPT ![t] = ResolvedOwner(t, u)]
        PROVE  owner'[o] = owner[o]
    BY <1>1 DEF ResolvedOwner, IInv, TypeOK
  <1> DEFINE Adopts == \E t \in Threads, u \in Callers :
                           owner' = [owner EXCEPT ![t] = ResolvedOwner(t, u)]
  <1>2. ASSUME Next PROVE UNCHANGED owner \/ Adopts
    <2>1. ASSUME NEW t \in Threads, NEW u \in Callers,
                 \/ \E h \in HandoffIds :
                      \/ \E q \in FiledQueues, m \in Texts \cup {NoText} :
                            CreateSupportHandoff(t, u, h, q, m)
                      \/ \E x \in Texts : CreateVisitBooking(t, u, h, x)
                      \/ \E q \in FiledQueues, x \in Texts :
                            CreateInstitutionalRequest(t, u, h, q, x)
                 \/ \E x \in ChatTexts : AppendConversationMessages(t, u, x)
          PROVE  Adopts
      BY <2>1, Zenon DEF CreateSupportHandoff, CreateVisitBooking, CreateInstitutionalRequest,
         FileTicket, AppendConversationMessages
    <2>2. ASSUME NEW t \in Threads, NEW b \in BookingIds, NEW code \in {0} \cup BookingIds,
                 CancelVisit(t, code, b) \/ RescheduleVisit(t, code, b)
          PROVE  UNCHANGED owner
      BY <2>2, Zenon DEF CancelVisit, RescheduleVisit
    <2>3. ASSUME NEW t \in Threads, NEW r \in RequestIds, NEW code \in {0} \cup RequestIds,
                 AppendRequestNote(t, code, r)
          PROVE  UNCHANGED owner
      BY <2>3, Zenon DEF AppendRequestNote
    <2>4. ASSUME NEW h \in HandoffIds, NEW actor \in Operators,
                 NEW st \in HandoffStatuses \cup {"keep"},
                 NEW asg \in Users \cup {"clear", "keep"}, NEW note \in ChatTexts \cup {NoText},
                 UpdateHandoffStatus(h, actor, st, asg, note)
          PROVE  UNCHANGED owner
      BY <2>4, Zenon DEF UpdateHandoffStatus
    <2> QED
      BY <1>2, <2>1, <2>2, <2>3, <2>4, Zenon DEF Next
  <1>3. ASSUME IInv, [Next]_vars, NEW t \in Threads, owner[t] # NoUser
        PROVE  owner'[t] = owner[t]
    BY <1>1, <1>2, <1>3 DEF vars, IInv, TypeOK
  <1>4. IInv /\ [Next]_vars => [\A t \in Threads : owner[t] # NoUser => owner'[t] = owner[t]]_vars
    BY <1>3
  <1> QED
    BY <1>4, Invariance, PTL DEF Spec, OwnerSticky

(* The deadlines of a ticket outlive reuse, rerouting and reopening.        *)
THEOREM SlaKept == Spec => SlaNeverRenegotiated
  <1>1. ASSUME IInv, [Next]_vars, NEW h \in PresentHandoffs
        PROVE  handoff'[h].sla = handoff[h].sla
    <2>1. CASE UNCHANGED <<handoff, everClosed>>
      BY <2>1
    <2>2. CASE SavesAdmissibleRow
      BY <1>1, <2>2 DEF SavesAdmissibleRow, Admissible, SaveHandoff, IInv, TypeOK, PresentHandoffs
    <2> QED
      BY <1>1, <2>1, <2>2, NextKeeps
  <1>2. IInv /\ [Next]_vars => [\A h \in PresentHandoffs : handoff'[h].sla = handoff[h].sla]_vars
    BY <1>1
  <1> QED
    BY <1>2, Invariance, PTL DEF Spec, SlaNeverRenegotiated

-----------------------------------------------------------------------------
(* Visits that are cancelled, and tickets that are closed.                  *)

(* A ticket, once closed, has been closed for ever after.                   *)
LEMMA ClosingRemembered ==
  ASSUME IInv, [Next]_vars
  PROVE  everClosed \subseteq everClosed'
  BY NextKeeps DEF SavesAdmissibleRow, SaveHandoff

(* No handler but CancelVisit cancels a visit.                              *)
CancelsNone ==
    \A b \in BookingIds : booking'[b].status = "cancelled" => booking'[b] = booking[b]

LEMMA OnlyCancelVisitCancels ==
  ASSUME IInv, Next,
         ~ \E t \in Threads, b \in BookingIds, code \in {0} \cup BookingIds : CancelVisit(t, code, b)
  PROVE  CancelsNone
  <1>1. ASSUME NEW t \in Threads, NEW u \in Callers, NEW h \in HandoffIds, NEW x \in Texts,
               CreateVisitBooking(t, u, h, x)
        PROVE  CancelsNone
    <2>1. ASSUME NEW b \in BookingIds,
                 booking' = [booking EXCEPT ![b] = [thread |-> t, ticket |-> h, status |-> "requested"]]
          PROVE  CancelsNone
      BY <2>1 DEF CancelsNone, IInv, TypeOK
    <2> QED
      BY <1>1, <2>1 DEF CreateVisitBooking, CancelsNone
  <1>2. ASSUME NEW t \in Threads, NEW b \in BookingIds, NEW code, RescheduleVisit(t, code, b)
        PROVE  CancelsNone
    <2>1. booking[b] \in BookingRow
      BY <1>2, BookingFacts DEF RescheduleVisit, Resolved, IInv
    <2> QED
      BY <1>2, <2>1 DEF RescheduleVisit, CancelsNone, IInv, TypeOK, BookingRow
  <1>3. ASSUME UNCHANGED booking PROVE CancelsNone
    BY <1>3 DEF CancelsNone
  <1>4. ASSUME NEW t \in Threads, NEW u \in Callers, NEW h \in HandoffIds, NEW q \in FiledQueues,
               \/ \E m \in Texts \cup {NoText} : CreateSupportHandoff(t, u, h, q, m)
               \/ \E x \in Texts : CreateInstitutionalRequest(t, u, h, q, x)
        PROVE  UNCHANGED booking
    BY <1>4, Zenon DEF CreateSupportHandoff, CreateInstitutionalRequest
  <1>5. ASSUME NEW t \in Threads, NEW r \in RequestIds, NEW code \in {0} \cup RequestIds,
               AppendRequestNote(t, code, r)
        PROVE  UNCHANGED booking
    BY <1>5, Zenon DEF AppendRequestNote
  <1>6. ASSUME NEW h \in HandoffIds, NEW actor \in Operators, NEW st \in HandoffStatuses \cup {"keep"},
               NEW asg \in Users \cup {"clear", "keep"}, NEW note \in ChatTexts \cup {NoText},
               UpdateHandoffStatus(h, actor, st, asg, note)
        PROVE  UNCHANGED booking
    BY <1>6, Zenon DEF UpdateHandoffStatus
  <1>7. ASSUME NEW t \in Threads, NEW u \in Callers, NEW x \in ChatTexts, AppendConversationMessages(t, u, x)
        PROVE  UNCHANGED booking
    BY <1>7, Zenon DEF AppendConversationMessages
  <1> QED
    BY <1>1, <1>2, <1>3, <1>4, <1>5, <1>6, <1>7, Zenon DEF Next

(* Cancelling a visit closes its ticket, unless that is closed already.     *)
LEMMA CancelVisitCloses ==
  ASSUME IInv, NEW t \in Threads, NEW b \in BookingIds, NEW code, CancelVisit(t, code, b)
  PROVE  /\ booking' = [booking EXCEPT ![b].status = "cancelled"] /\ b \in PresentBookings
         /\ booking[b].ticket \in everClosed'
         /\ \A h \in HandoffIds : handoff'[h] # handoff[h] => h = booking[b].ticket
  <1> DEFINE h == booking[b].ticket
  <1>1. b \in PresentBookings /\ h \in HandoffIds
    BY BookingFacts DEF CancelVisit, Resolved, IInv
  <1>2. CancelledWithVisit(handoff[h]).status \in ClosedStatuses
    BY <1>1 DEF CancelledWithVisit, ClosedStatuses, IInv, TypeOK, HandoffRow, AbsentHandoff
  <1>3. PICK changed \in {TRUE, CancelledWithVisit(handoff[h]) # handoff[h]} :
           SaveHandoff(h, CancelledWithVisit(handoff[h]), changed)
    BY DEF CancelVisit, WriteHandoff
  <1> QED
    BY <1>1, <1>2, <1>3 DEF CancelVisit, SaveHandoff, IInv, TypeOK

(* No cancellation leaves work in the queue that nobody asked for any more. *)
THEOREM CancelledVisitsClosed == Spec => []CancelledVisitClosedItsTicket
  <1> DEFINE Inv == CancelledVisitClosedItsTicket
  <1>1. Init => Inv
    BY DEF Init, CancelledVisitClosedItsTicket, PresentBookings, AbsentBooking
  <1>2. ASSUME IInv, Inv, [Next]_vars, NEW b \in BookingIds, booking'[b].status = "cancelled"
        PROVE  booking'[b].ticket \in everClosed'
    <2>1. booking'[b] = booking[b] => booking'[b].ticket \in everClosed'
      BY <1>2, ClosingRemembered DEF CancelledVisitClosedItsTicket, PresentBookings
    <2>2. CASE UNCHANGED vars
      BY <2>1, <2>2 DEF vars
    <2>3. ASSUME NEW t \in Threads, NEW c \in BookingIds, NEW code, CancelVisit(t, code, c)
          PROVE  booking'[b].ticket \in everClosed'
      <3>1. /\ booking' = [booking EXCEPT ![c].status = "cancelled"] /\ booking[c].ticket \in everClosed'
            /\ booking[c] \in BookingRow /\ booking \in [BookingIds -> BookingRow \cup {AbsentBooking}]
        BY <1>2, <2>3, CancelVisitCloses, BookingFacts DEF IInv, TypeOK
      <3>2. booking'[c].ticket = booking[c].ticket /\ (b # c => booking'[b] = booking[b])
        BY <3>1 DEF BookingRow
      <3> QED
        BY <2>1, <3>1, <3>2
    <2> QED
      BY <1>2, <2>1, <2>2, <2>3, OnlyCancelVisitCancels DEF CancelsNone
  <1>3. IInv /\ Inv /\ [Next]_vars => Inv'
    BY <1>2 DEF CancelledVisitClosedItsTicket, PresentBookings
  <1> QED
    BY <1>1, <1>3, Invariance, PTL DEF Spec

(* What an open ticket can be closed by.                                    *)
Caused(h) ==
    \/ convStatus'[handoff[h].thread] = "closed"
    \/ \E b \in BookingOfTicket(h) : booking'[b].status = "cancelled"

LEMMA FilingClosesNothing ==
  ASSUME IInv, NEW t \in Threads, NEW u, NEW k \in HandoffIds, NEW q, FileTicket(t, u, k, q),
         NEW h \in PresentHandoffs
  PROVE  handoff'[h].status = handoff[h].status
  <1>1. handoff' = [handoff EXCEPT ![k] = FiledRow(t, k, q)]
    BY DEF FileTicket, WriteHandoff, SaveHandoff, FiledRow
  <1> QED
    BY <1>1, PresentRow DEF FiledRow, Rerouted, IInv, TypeOK, HandoffRow

(* A ticket is closed by an operator, together with its conversation, or by *)
(* cancelling its visit, by nothing else a handler does.                    *)
THEOREM ClosuresCaused == Spec => ClosureHasCause
  <1>1. ASSUME IInv, Next, NEW h \in PresentHandoffs,
               handoff[h].status \in OpenStatuses, handoff'[h].status \in ClosedStatuses
        PROVE  Caused(h)
    <2>1. /\ h \in HandoffIds /\ handoff[h].thread \in Threads /\ handoff'[h].status # handoff[h].status
          /\ handoff'[h].status # "queued"
      BY <1>1, PresentRow DEF IInv, HandoffRow, OpenStatuses, ClosedStatuses
    <2>2. ASSUME NEW t \in Threads, NEW u, NEW k \in HandoffIds, NEW q, FileTicket(t, u, k, q)
          PROVE  FALSE
      BY <1>1, <2>1, <2>2, FilingClosesNothing
    <2>3. ASSUME NEW k \in HandoffIds, WriteHandoff(k, [handoff[k] EXCEPT !.status = "queued"])
          PROVE  FALSE
      <3>1. handoff' = [handoff EXCEPT ![k] = [handoff[k] EXCEPT !.status = "queued"]]
        BY <2>3 DEF WriteHandoff, SaveHandoff
      <3>2. handoff'[h] = IF h = k THEN [handoff[h] EXCEPT !.status = "queued"] ELSE handoff[h]
        BY <1>1, <2>1, <3>1 DEF IInv, TypeOK
      <3>3. handoff[h] \in HandoffRow
        BY <1>1, PresentRow DEF IInv
      <3> QED
        BY <2>1, <3>2, <3>3 DEF HandoffRow
    <2>4. ASSUME NEW t \in Threads, NEW b \in BookingIds, NEW code \in {0} \cup BookingIds, CancelVisit(t, code, b)
          PROVE  Caused(h)
      <3>1. b \in PresentBookings /\ booking[b].ticket = h
        BY <1>1, <2>1, <2>4, CancelVisitCloses
      <3>2. booking'[b].status = "cancelled"
        BY <1>1, <2>4, CancelVisitCloses DEF IInv, TypeOK, BookingRow, AbsentBooking
      <3> QED
        BY <3>1, <3>2 DEF Caused, BookingOfTicket
    <2>5. ASSUME NEW t \in Threads, NEW b \in BookingIds, NEW code, RescheduleVisit(t, code, b)
          PROVE  FALSE
      <3>1. booking[b].ticket \in HandoffIds
        BY <1>1, <2>5, BookingFacts DEF RescheduleVisit, Resolved, IInv
      <3> QED
        BY <2>3, <2>5, <3>1 DEF RescheduleVisit
    <2>6. ASSUME NEW t \in Threads, NEW r \in RequestIds, NEW code, AppendRequestNote(t, code, r)
          PROVE  FALSE
      <3>1. request[r].ticket \in HandoffIds
        BY <1>1, <2>6, RequestFacts DEF AppendRequestNote, Resolved, IInv
      <3> QED
        BY <2>3, <2>6, <3>1 DEF AppendRequestNote
    <2>7. ASSUME NEW k \in HandoffIds, NEW actor \in Operators, NEW st \in HandoffStatuses \cup {"keep"},
                 NEW asg, NEW note, UpdateHandoffStatus(k, actor, st, asg, note)
          PROVE  Caused(h)
      <3>1. handoff' = [handoff EXCEPT ![k] = UpdatedRow(k, actor, st, asg)]
        BY <2>7 DEF UpdateHandoffStatus, SaveHandoff, UpdatedRow
      <3>2. handoff'[h] = IF h = k THEN UpdatedRow(h, actor, st, asg) ELSE handoff[h]
        BY <1>1, <2>1, <3>1 DEF IInv, TypeOK
      <3>3. h = k /\ handoff'[h].status = IF st = "keep" THEN handoff[h].status ELSE st
        <4>1. handoff[h] \in HandoffRow
          BY <1>1, PresentRow DEF IInv
        <4> QED
          BY <2>1, <3>2, <4>1 DEF UpdatedRow, HandoffRow
      <3>4. st # "keep" /\ st \in ClosedStatuses
        BY <1>1, <2>1, <3>3
      <3>5. convStatus' = [convStatus EXCEPT ![handoff[h].thread] = "closed"]
        BY <2>7, <3>3, <3>4 DEF UpdateHandoffStatus, ConversationStatusFor
      <3> QED
        BY <1>1, <2>1, <3>5 DEF Caused, IInv, TypeOK
    <2>8. ASSUME NEW t \in Threads, NEW u \in Callers, NEW x, AppendConversationMessages(t, u, x)
          PROVE  FALSE
      BY <2>1, <2>8 DEF AppendConversationMessages
    <2> QED
      BY <1>1, <2>2, <2>4, <2>5, <2>6, <2>7, <2>8 DEF Next, CreateSupportHandoff, CreateVisitBooking,
         CreateInstitutionalRequest
  <1>2. IInv /\ [Next]_vars =>
          [\A h \in PresentHandoffs :
             handoff[h].status \in OpenStatuses /\ handoff'[h].status \in ClosedStatuses =>
                \/ convStatus'[handoff[h].thread] = "closed"
                \/ \E b \in BookingOfTicket(h) : booking'[b].status = "cancelled"]_vars
    BY <1>1 DEF Caused
  <1> QED
    BY <1>2, Invariance, PTL DEF Spec, ClosureHasCause

-----------------------------------------------------------------------------
(* The log never ends with three equal user messages.                       *)

Triple(s) ==
    /\ Len(s) >= 3 /\ Last(s).sender = "user"
    /\ s[Len(s) - 1] = Last(s) /\ s[Len(s) - 2] = Last(s)

(* The property does not say what a log shorter than the window must be     *)
(* like for it to hold when the log has grown: this does.                   *)
LogInv == \A t \in Threads : Len(recent[t]) <= Window /\ ~Triple(recent[t])

LEMMA TruncatedEnd ==
  ASSUME NEW s \in Seq(Message)
  PROVE  Len(Truncated(s)) <= Window /\ (Triple(Truncated(s)) => Triple(s))
  <1>1. CASE Len(s) <= Window
    BY <1>1 DEF Truncated, Window
  <1>2. CASE Len(s) > Window
    <2>1. Truncated(s) = [i \in 1..3 |-> s[Len(s) - 3 + i]] /\ Len(s) \in Nat /\ Len(s) > 3
      BY <1>2 DEF Truncated, Window
    <2>2. Truncated(s) \in Seq(Message) /\ Len(Truncated(s)) = 3
      BY <2>1
    <2>3. Truncated(s)[3] = s[Len(s)] /\ Truncated(s)[2] = s[Len(s) - 1] /\ Truncated(s)[1] = s[Len(s) - 2]
      BY <2>1
    <2> QED
      BY <2>1, <2>2, <2>3 DEF Triple, Last, Window
  <1>3. Len(s) \in Nat
    OBVIOUS
  <1> QED
    BY <1>1, <1>2, <1>3 DEF Window

(* Storing rows that do not make three of a kind.                           *)
LEMMA StoreKeepsLog ==
  ASSUME TypeOK, LogInv, NEW t \in Threads, NEW rows \in Seq(Message), Store(t, rows),
         ~Triple(recent[t] \o rows)
  PROVE  LogInv'
  <1>1. recent[t] \o rows \in Seq(Message)
    BY DEF TypeOK
  <1>2. Len(Truncated(recent[t] \o rows)) <= Window /\ ~Triple(Truncated(recent[t] \o rows))
    BY <1>1, TruncatedEnd
  <1> QED
    BY <1>2 DEF Store, TypeOK, LogInv

(* What one or two more rows make of the end of a log.                      *)
LEMMA OneMore ==
  ASSUME NEW s \in Seq(Message), NEW m \in Message,
         ~(Len(s) >= 2 /\ m.sender = "user" /\ Last(s) = m /\ s[Len(s) - 1] = m)
  PROVE  ~Triple(s \o <<m>>)
  <1> DEFINE z == s \o <<m>>
  <1>1. Len(z) = Len(s) + 1 /\ z[Len(s) + 1] = m /\ \A i \in 1..Len(s) : z[i] = s[i]
    OBVIOUS
  <1>2. Len(s) \in Nat
    OBVIOUS
  <1> QED
    BY <1>1, <1>2 DEF Triple, Last

LEMMA TwoMore ==
  ASSUME NEW s \in Seq(Message), NEW m \in Message, NEW n \in Message,
         n.sender = "user" /\ m = n => s = <<>> \/ Last(s) # m
  PROVE  ~Triple(s \o <<m, n>>)
  <1> DEFINE z == s \o <<m, n>>
  <1>1. /\ Len(z) = Len(s) + 2 /\ z[Len(s) + 2] = n /\ z[Len(s) + 1] = m
        /\ \A i \in 1..Len(s) : z[i] = s[i]
    OBVIOUS
  <1>2. Len(s) \in Nat /\ (s = <<>> => Len(s) = 0)
    OBVIOUS
  <1> QED
    BY <1>1, <1>2 DEF Triple, Last

LEMMA NoMore ==
  ASSUME NEW s \in Seq(Message), ~Triple(s)
  PROVE  ~Triple(s \o <<>>)
  <1>1. s \o <<>> = s
    OBVIOUS
  <1> QED
    BY <1>1

LEMMA RowSequences ==
  ASSUME NEW m \in Message, NEW n \in Message
  PROVE  /\ <<m>> \in Seq(Message) /\ <<m, n>> \in Seq(Message)
         /\ <<m>> \o <<n>> = <<m, n>>
  <1>1. <<m>> \in Seq(Message) /\ <<n>> \in Seq(Message)
    OBVIOUS
  <1>2. <<m, n>> \in Seq(Message)
    OBVIOUS
  <1>3. /\ Len(<<m>> \o <<n>>) = 2 /\ (<<m>> \o <<n>>)[1] = m /\ (<<m>> \o <<n>>)[2] = n
        /\ <<m>> \o <<n>> \in Seq(Message)
    BY <1>1
  <1>4. \A i \in 1..2 : (<<m>> \o <<n>>)[i] = <<m, n>>[i]
    BY <1>3
  <1>5. <<m>> \o <<n>> = <<m, n>>
    <2> DEFINE y == <<m>> \o <<n>>
               z == <<m, n>>
    <2>1. y \in Seq(Message) /\ z \in Seq(Message) /\ Len(y) = Len(z)
      BY <1>2, <1>3
    <2>2. \A i \in 1..Len(y) : y[i] = z[i]
      BY <1>3, <1>4
    <2> HIDE DEF y, z
    <2>3. y = z
      BY <2>1, <2>2, SeqEqual
    <2> QED
      BY <2>3 DEF y, z
  <1> QED
    BY <1>1, <1>2, <1>5

LEMMA Rows ==
  ASSUME NEW x \in Texts
  PROVE  /\ FromUser(x) \in Message /\ FromAssistant(x) \in Message
         /\ FromUser(x).sender = "user" /\ FromAssistant(x).sender = "assistant"
  BY DEF FromUser, FromAssistant, Message

(* A user's text is not stored over two copies of it: the newest rows are   *)
(* that text however they are ordered.                                      *)
LEMMA HandoffRowsNoTriple ==
  ASSUME NEW s \in Seq(Message), ~Triple(s), NEW m \in Texts \cup {NoText}, NEW rows \in HandoffRows(s, m)
  PROVE  ~Triple(s \o rows) /\ rows \in Seq(Message)
  <1>1. CASE rows = <<>>
    BY <1>1, NoMore
  <1>2. CASE rows # <<>>
    <2>1. m \in Texts /\ rows = <<FromUser(m)>> /\ NewestByTime(s) # {FromUser(m)}
      BY <1>2 DEF HandoffRows
    <2>2. ASSUME Len(s) >= 2, Last(s) = FromUser(m), s[Len(s) - 1] = FromUser(m)
          PROVE  FALSE
      <3>1. s # <<>> /\ Len(s) \in Nat
        BY <2>2
      <3>2. {s[Len(s) - 1].sender, Last(s).sender} # {"user", "assistant"}
        BY <2>1, <2>2, Rows
      <3>3. NewestByTime(s) = {FromUser(m)}
        BY <2>2, <3>1, <3>2 DEF NewestByTime
      <3> QED
        BY <2>1, <3>3
    <2> QED
      BY <2>1, <2>2, OneMore, Rows
  <1> QED
    BY <1>1, <1>2

(* The notes of a visit or a request go to the log twice.                   *)
LEMMA WorkflowRowsNoTriple ==
  ASSUME NEW s \in Seq(Message), ~Triple(s), NEW x \in Texts, NEW rows \in HandoffRows(s, x)
  PROVE  ~Triple(s \o (RowsIfNeeded(s, x) \o rows)) /\ RowsIfNeeded(s, x) \o rows \in Seq(Message)
  <1> DEFINE m == FromUser(x)
  <1>1. m \in Message /\ rows \in Seq(Message)
    BY Rows, HandoffRowsNoTriple
  <1>2. CASE IsNewest(s, m)
    <2>1. RowsIfNeeded(s, x) \o rows = rows
      BY <1>1, <1>2 DEF RowsIfNeeded
    <2> QED
      BY <2>1, HandoffRowsNoTriple
  <1>3. CASE ~IsNewest(s, m)
    <2>1. RowsIfNeeded(s, x) = <<m>> /\ (s = <<>> \/ Last(s) # m)
      BY <1>3 DEF RowsIfNeeded, IsNewest
    <2>2. rows = <<>> \/ rows = <<m>>
      BY SupportAssumption DEF HandoffRows
    <2>3. CASE rows = <<>>
      <3>1. RowsIfNeeded(s, x) \o rows = <<m>>
        BY <2>1, <2>3
      <3>2. Len(s) >= 2 => Last(s) # m
        BY <2>1
      <3> QED
        BY <1>1, <3>1, <3>2, OneMore
    <2>4. CASE rows = <<m>>
      <3>1. RowsIfNeeded(s, x) \o rows = <<m, m>>
        BY <1>1, <2>1, <2>4, RowSequences
      <3>2. <<m, m>> \in Seq(Message)
        BY <1>1, RowSequences
      <3>3. ~Triple(s \o <<m, m>>)
        BY <1>1, <2>1, TwoMore
      <3> QED
        BY <3>1, <3>2, <3>3
    <2> QED
      BY <2>2, <2>3, <2>4
  <1> QED
    BY <1>2, <1>3

(* A turn always stores the assistant's row, or follows it.                 *)
LEMMA TurnRowsNoTriple ==
  ASSUME NEW s \in Seq(Message), ~Triple(s), NEW x \in Texts, NEW rows \in TurnRows(s, x)
  PROVE  ~Triple(s \o rows) /\ rows \in Seq(Message)
  <1> DEFINE m == FromUser(x)
             n == FromAssistant(x)
  <1>1. m \in Message /\ n \in Message /\ m # n /\ m.sender = "user" /\ n.sender = "assistant"
    BY Rows
  <1>2. \/ rows = <<n>>
        \/ rows = <<m>> /\ Last(s) = n
        \/ rows = <<m, n>> \/ rows = <<n, m>>
    BY Zenon DEF TurnRows, IsNewest
  <1> HIDE DEF m, n
  <1>3. rows \in Seq(Message)
    BY <1>1, <1>2, RowSequences, Zenon
  <1>4. ~Triple(s \o rows)
    BY <1>1, <1>2, OneMore, TwoMore
  <1> QED
    BY <1>3, <1>4

(* Every handler stores such rows, in one thread, or none.                  *)
StoresRows ==
    \E t \in Threads, rows \in Seq(Message) : Store(t, rows) /\ ~Triple(recent[t] \o rows)

LEMMA NextStoresRows == ASSUME IInv, LogInv, Next PROVE StoresRows \/ UNCHANGED recent
  <1>1. \A t \in Threads : recent[t] \in Seq(Message) /\ ~Triple(recent[t])
    BY DEF IInv, TypeOK, LogInv
  <1>2. ASSUME NEW t \in Threads, NEW u \in Callers, NEW h \in HandoffIds, NEW q \in FiledQueues,
               NEW m \in Texts \cup {NoText}, CreateSupportHandoff(t, u, h, q, m)
        PROVE  StoresRows
    <2>1. PICK rows \in HandoffRows(recent[t], m) : Store(t, rows)
      BY <1>2 DEF CreateSupportHandoff
    <2> QED
      BY <1>1, <2>1, HandoffRowsNoTriple DEF StoresRows
  <1>3. ASSUME NEW t \in Threads, NEW x \in Texts,
               \E rows \in HandoffRows(recent[t], x) : Store(t, RowsIfNeeded(recent[t], x) \o rows)
        PROVE  StoresRows
    BY <1>1, <1>3, WorkflowRowsNoTriple DEF StoresRows
  <1>4. ASSUME NEW t \in Threads, NEW u \in Callers, NEW h \in HandoffIds, NEW x \in Texts,
               \/ CreateVisitBooking(t, u, h, x)
               \/ \E q \in FiledQueues : CreateInstitutionalRequest(t, u, h, q, x)
        PROVE  StoresRows
    BY <1>3, <1>4 DEF CreateVisitBooking, CreateInstitutionalRequest
  <1>5. ASSUME NEW h \in HandoffIds, NEW actor \in Operators, NEW st \in HandoffStatuses \cup {"keep"},
               NEW asg \in Users \cup {"clear", "keep"}, NEW note \in ChatTexts \cup {NoText},
               UpdateHandoffStatus(h, actor, st, asg, note)
        PROVE  StoresRows
    <2> DEFINE m == [sender |-> "operator", text |-> note]
    <2>1. handoff[h].thread \in Threads
      BY <1>5, PresentRow DEF UpdateHandoffStatus, IInv, HandoffRow
    <2>2. Store(handoff[h].thread, IF note = NoText THEN <<>> ELSE <<m>>)
      BY <1>5 DEF UpdateHandoffStatus
    <2>3. CASE note = NoText
      <3>1. <<>> \in Seq(Message)
        OBVIOUS
      <3> QED
        BY <1>1, <2>1, <2>2, <2>3, <3>1, NoMore DEF StoresRows
    <2>4. CASE note # NoText
      <3>1. m \in Message /\ m.sender # "user" /\ <<m>> \in Seq(Message)
        BY <2>4 DEF Message
      <3> QED
        <4>1. ~Triple(recent[handoff[h].thread] \o <<m>>)
          BY <1>1, <2>1, <3>1, OneMore
        <4>2. Store(handoff[h].thread, <<m>>)
          BY <2>2, <2>4
        <4> QED
          BY <2>1, <3>1, <4>1, <4>2, Zenon DEF StoresRows
    <2> QED
      BY <2>3, <2>4
  <1>6. ASSUME NEW t \in Threads, NEW u \in Callers, NEW x \in ChatTexts, AppendConversationMessages(t, u, x)
        PROVE  StoresRows \/ UNCHANGED recent
    <2>1. ASSUME NEW rows \in TurnRows(recent[t], x), Store(t, rows) PROVE StoresRows
      BY <1>1, <2>1, TurnRowsNoTriple DEF StoresRows
    <2> QED
      BY <1>6, <2>1 DEF AppendConversationMessages
  <1>7. ASSUME NEW t \in Threads, NEW b \in BookingIds, NEW code, CancelVisit(t, code, b) \/ RescheduleVisit(t, code, b)
        PROVE  UNCHANGED recent
    BY <1>7 DEF CancelVisit, RescheduleVisit
  <1>8. ASSUME NEW t \in Threads, NEW r \in RequestIds, NEW code, AppendRequestNote(t, code, r)
        PROVE  UNCHANGED recent
    BY <1>8 DEF AppendRequestNote
  <1> QED
    BY <1>2, <1>4, <1>5, <1>6, <1>7, <1>8 DEF Next

(* A repeated call stores no third copy of the user's text.                 *)
THEOREM CopiesBounded == Spec => []NoThirdCopy
  <1>1. Init => LogInv
    <2> SUFFICES ASSUME Init, NEW t \in Threads PROVE Len(recent[t]) <= Window /\ ~Triple(recent[t])
      BY DEF LogInv
    <2>1. recent[t] = <<>> /\ Len(recent[t]) = 0
      BY DEF Init
    <2> QED
      BY <2>1 DEF Triple, Window
  <1>2. IInv /\ LogInv /\ [Next]_vars => LogInv'
    <2> SUFFICES ASSUME IInv, LogInv, [Next]_vars PROVE LogInv'
      OBVIOUS
    <2>1. CASE UNCHANGED recent
      BY <2>1 DEF LogInv
    <2>2. CASE StoresRows
      BY <2>2, StoreKeepsLog DEF StoresRows, IInv
    <2> QED
      BY <2>1, <2>2, NextStoresRows DEF vars
  <1>3. IInv /\ LogInv => NoThirdCopy
    <2> SUFFICES ASSUME IInv, LogInv, NEW t \in Threads, Len(recent[t]) = Window, Last(recent[t]).sender = "user",
                        \A i \in 1..Window : recent[t][i] = Last(recent[t])
                 PROVE  FALSE
      BY DEF NoThirdCopy
    <2> QED
      BY DEF LogInv, Triple, Window
  <1> QED
    BY <1>1, <1>2, <1>3, Invariance, PTL DEF Spec

-----------------------------------------------------------------------------
(* The refinement of TicketLedger.  Whatever admissible row a handler saves *)
(* the ticket is filed, closed or reopened, or stays in its stage.          *)

LEMMA SaveIsLedgerStep ==
  ASSUME IInv, NEW h, NEW row, NEW changed \in BOOLEAN,
         Admissible(h, row), SaveHandoff(h, row, changed)
  PROVE  [Ledger!Next]_(Ledger!ledgerVars)
  <1> DEFINE stage == [k \in HandoffIds |-> Stage(k)]
             home == [k \in HandoffIds |-> handoff[k].thread]
  <1>1. /\ h \in HandoffIds
        /\ row \in HandoffRow
        /\ handoff \in [HandoffIds -> HandoffRow \cup {AbsentHandoff}]
        /\ handoff' = [handoff EXCEPT ![h] = row]
        /\ handoff'[h] = row
    BY DEF Admissible, IInv, TypeOK, SaveHandoff
  <1>2. ASSUME NEW k \in HandoffIds, k # h
        PROVE  Stage(k)' = Stage(k) /\ handoff'[k] = handoff[k]
    BY <1>1, <1>2 DEF Stage, Fresh, SaveHandoff
  <1>3. stage' = [stage EXCEPT ![h] = Stage(h)']
    BY <1>1, <1>2
  <1>4. home' = [home EXCEPT ![h] = row.thread]
    BY <1>1
  <1>5. row.status \in HandoffStatuses /\ row.thread \in Threads
    BY <1>1 DEF HandoffRow
  <1>6. CASE h \notin PresentHandoffs
    <2>1. Stage(h) = "none"
      BY <1>1, <1>6 DEF PresentHandoffs, Stage
    <2>2. row.status \in OpenStatuses /\ OpenHandoffs(row.thread) = {}
      BY <1>6 DEF Admissible
    <2>3. h \notin everClosed /\ everClosed' = everClosed
      BY <1>1, <1>6, <2>2 DEF IInv, ClosedIsRecorded, PresentHandoffs, SaveHandoff, OpenStatuses,
         ClosedStatuses
    <2>4. Stage(h)' = "fresh"
      BY <1>1, <2>2, <2>3 DEF Stage, Fresh, OpenStatuses, ClosedStatuses
    <2>5. ASSUME NEW j \in HandoffIds, handoff[j].thread = row.thread
          PROVE  Stage(j) = "closed"
      <3>1. j \in PresentHandoffs
        BY <1>5, <2>5, ThreadMeansPresent DEF IInv
      <3>2. handoff[j].status \notin OpenStatuses
        BY <2>2, <2>5 DEF OpenHandoffs
      <3>3. handoff[j].status \in HandoffStatuses
        BY <3>1, PresentRow DEF IInv, HandoffRow
      <3> QED
        BY <3>1, <3>2, <3>3 DEF Stage, PresentHandoffs, HandoffStatuses
    <2>6. Ledger!File(h, row.thread)
      BY <1>1, <1>3, <1>4, <2>1, <2>4, <2>5 DEF Ledger!File
    <2> QED
      BY <1>1, <1>5, <2>6 DEF Ledger!Next
  <1>7. CASE h \in PresentHandoffs
    <2>1. handoff[h] \in HandoffRow /\ handoff[h].status \in HandoffStatuses
      BY <1>7, PresentRow DEF IInv, HandoffRow
    <2>2. home' = home
      BY <1>1, <1>4, <1>7 DEF Admissible
    <2>3. CASE row.status \in ClosedStatuses
      <3>1. Stage(h)' = "closed"
        BY <1>1, <2>3 DEF Stage, ClosedStatuses
      <3>2. CASE handoff[h].status \in ClosedStatuses
        <4>1. Stage(h)' = Stage(h)
          BY <3>1, <3>2 DEF Stage, ClosedStatuses
        <4>2. stage' = stage
          BY <1>1, <1>3, <4>1
        <4> QED
          BY <2>2, <4>2 DEF Ledger!ledgerVars
      <3>3. CASE handoff[h].status \notin ClosedStatuses
        <4>1. Stage(h) \in {"fresh", "reopened"}
          BY <2>1, <3>3 DEF Stage, HandoffStatuses, OpenStatuses
        <4>2. Ledger!Close(h)
          BY <1>1, <1>3, <2>2, <3>1, <4>1 DEF Ledger!Close
        <4> QED
          BY <1>1, <4>2 DEF Ledger!Next
      <3> QED
        BY <3>2, <3>3
    <2>4. CASE row.status \notin ClosedStatuses
      <3>1. everClosed' = everClosed /\ row.status \in OpenStatuses
        BY <1>5, <2>4 DEF SaveHandoff, HandoffStatuses
      <3>2. CASE handoff[h].status \in ClosedStatuses
        <4>1. Stage(h) = "closed" /\ h \in everClosed
          BY <1>1, <3>2 DEF Stage, ClosedStatuses, IInv, ClosedIsRecorded
        <4>2. Stage(h)' = "reopened"
          BY <1>1, <2>4, <3>1, <4>1 DEF Stage, Fresh, OpenStatuses
        <4>3. Ledger!Reopen(h)
          BY <1>1, <1>3, <2>2, <4>1, <4>2 DEF Ledger!Reopen
        <4> QED
          BY <1>1, <4>3 DEF Ledger!Next
      <3>3. CASE handoff[h].status \notin ClosedStatuses
        <4>1. handoff[h].status \in OpenStatuses
          BY <2>1, <3>3 DEF HandoffStatuses
        <4>2. Stage(h)' = Stage(h)
          BY <1>1, <2>4, <3>1, <3>3, <4>1 DEF Stage, Fresh, OpenStatuses
        <4>3. stage' = stage
          BY <1>1, <1>3, <4>2
        <4> QED
          BY <2>2, <4>3 DEF Ledger!ledgerVars
      <3> QED
        BY <3>2, <3>3
    <2> QED
      BY <2>3, <2>4
  <1> QED
    BY <1>6, <1>7

(* The queue implements the abstract ledger: no call files a second ticket  *)
(* beside an open one.                                                      *)
THEOREM Refinement == Spec => ImplementsLedger
  <1>1. Init => Ledger!Init
    BY DEF Init, Ledger!Init, Stage, AbsentHandoff
  <1>2. ASSUME IInv, [Next]_vars
        PROVE  [Ledger!Next]_(Ledger!ledgerVars)
    <2>1. CASE SavesAdmissibleRow
      BY <1>2, <2>1, SaveIsLedgerStep DEF SavesAdmissibleRow
    <2>2. CASE UNCHANGED <<handoff, everClosed>>
      BY <2>2 DEF Ledger!ledgerVars, Stage, Fresh
    <2> QED
      BY <1>2, <2>1, <2>2, NextKeeps
  <1> QED
    BY <1>1, <1>2, Invariance, PTL DEF Spec, ImplementsLedger, Ledger!Spec
=============================================================================
