----------------------------- MODULE TelegramLink -----------------------------
(***************************************************************************)
(* How a user of the portal and a Telegram account come together, and who  *)
(* owns the conversation of a Telegram chat.                               *)
(*                                                                         *)
(* The portal issues a code to a signed-in user; the code, typed into a    *)
(* chat, links the user to the Telegram account of that chat.  From then   *)
(* on the chat speaks for the user.  Every operation of api-core is one    *)
(* transaction and they run one after the other; an answer to a message    *)
(* takes two of them, the first of which finds out for whom the chat       *)
(* speaks, and anything can happen in between.                             *)
(***************************************************************************)
EXTENDS Naturals, Sequences, FiniteSets

CONSTANTS
    Users,          \* users of the portal
    Chats,          \* Telegram chats, private ones and groups
    Senders,        \* Telegram users
    MaxCodes        \* bound on the codes issued

ASSUME LinkAssumption == MaxCodes \in Nat /\ IsFiniteSet(Users)

CONSTANTS Nobody, Absent, NoSender
ASSUME NullAssumption ==
    /\ Nobody \notin Users /\ Absent \notin Users /\ Nobody # Absent
    /\ NoSender \notin Senders

VARIABLES
    challenges,     \* telegram_link_challenges: sequence of [user, status]
    accounts,       \* telegram_accounts: sequence of [sender, chat]
    link,           \* user_telegram_links: number of the user's account, 0 for none
    owner,          \* conversations.user_id of the thread of each chat
    turn,           \* for whom the chat spoke when its current turn began
    used,           \* history: the codes that linked, in order
    proofs          \* history: <<u, c>> for a code of u that linked in chat c

vars == <<challenges, accounts, link, owner, turn, used, proofs>>

NoTurn == Absent

Init ==
    /\ challenges = <<>> /\ accounts = <<>>
    /\ link = [u \in Users |-> 0]
    /\ owner = [c \in Chats |-> Absent]
    /\ turn = [c \in Chats |-> NoTurn]
    /\ used = <<>> /\ proofs = {}

-----------------------------------------------------------------------------
(* Reads *)

LinkedTo(a) == {u \in Users : link[u] = a}

(* resolve_actor_context(telegram_chat_id=c), which takes the first row.    *)
LinkedIn(c) == UNION {LinkedTo(a) : a \in {a \in DOMAIN accounts : accounts[a].chat = c}}
SpeaksFor(c) == IF LinkedIn(c) = {} THEN {Nobody} ELSE LinkedIn(c)

(* The row policy of conversations, for the actor of a session: internal    *)
(* services see every row, a user the rows it owns, and a session without   *)
(* an actor none.                                                           *)
CanAccess(actor, o) == actor = "service" \/ (actor # Nobody /\ actor = o)

(* The accounts that match the chat or the sender of a message.             *)
Matching(s, c) ==
    {a \in DOMAIN accounts : accounts[a].chat = c \/ (s # NoSender /\ accounts[a].sender = s)}

(* Variant: the chat is not unique.                                         *)
UniqueSenders(rows) ==
    \A a, b \in DOMAIN rows : a # b => rows[a].sender = NoSender \/ rows[a].sender # rows[b].sender

(* The unique constraints of telegram_accounts; NULL equals nothing.        *)
UniqueRows(rows) ==
    \A a, b \in DOMAIN rows : a # b =>
        /\ rows[a].chat # rows[b].chat
        /\ rows[a].sender = NoSender \/ rows[a].sender # rows[b].sender

-----------------------------------------------------------------------------
(* POST /v1/auth/telegram-link/challenges *)

(* Variant: earlier codes stay usable.                                      *)
WithdrawnNone(u) == challenges
(* The live codes of the user are consumed; expired ones stay as they are.  *)
Withdrawn(u) ==
    [i \in DOMAIN challenges |->
        IF challenges[i].user = u /\ challenges[i].status = "live"
        THEN [challenges[i] EXCEPT !.status = "consumed"] ELSE challenges[i]]

CreateChallenge(u) ==
    /\ Len(challenges) < MaxCodes
    /\ challenges' = Append(Withdrawn(u), [user |-> u, status |-> "live"])
    /\ UNCHANGED <<accounts, link, owner, turn, used, proofs>>

(* Codes expire in the order they were issued: their time to live is one    *)
(* setting.                                                                 *)
Expire(i) ==
    /\ i \in DOMAIN challenges /\ challenges[i].status = "live"
    /\ \A j \in DOMAIN challenges : j < i => challenges[j].status # "live"
    /\ challenges' = [challenges EXCEPT ![i].status = "expired"]
    /\ UNCHANGED <<accounts, link, owner, turn, used, proofs>>

-----------------------------------------------------------------------------
(* POST /v1/internal/telegram/link/consume *)

(* Variant: the new account is not added to the session.                    *)
UpsertedNotAdded(s, c) ==
    IF Matching(s, c) = {} THEN {[id |-> Len(accounts) + 1, rows |-> accounts]}
    ELSE {[id |-> a, rows |-> [accounts EXCEPT ![a] = [sender |-> s, chat |-> c]]]
             : a \in Matching(s, c)}
(* The account that the handler works on: a matching one, overwritten, or a *)
(* new one; [id, rows].                                                     *)
Upserted(s, c) ==
    LET row == [sender |-> s, chat |-> c] IN
    IF Matching(s, c) = {}
    THEN {[id |-> Len(accounts) + 1, rows |-> Append(accounts, row)]}
    ELSE {[id |-> a, rows |-> [accounts EXCEPT ![a] = row]] : a \in Matching(s, c)}

(* Variant: every conversation without an owner, whatever its chat.         *)
AdoptedAnywhere(u, c) == [d \in Chats |-> IF owner[d] = Nobody THEN u ELSE owner[d]]
(* _adopt_telegram_conversations: the conversations without an owner, among *)
(* those the session sees.  The handler has set no actor when it gets here. *)
Adopted(u, c) ==
    [owner EXCEPT ![c] = IF @ = Nobody /\ CanAccess(Nobody, @) THEN u ELSE @]

Usable(i) == challenges[i].status = "live"

ConsumeChallenge(i, s, c) ==
    LET u == challenges[i].user IN
    /\ i \in DOMAIN challenges
    /\ Usable(i)
    /\ \E acc \in Upserted(s, c) :
          /\ LinkedTo(acc.id) \subseteq {u}
          /\ UniqueRows(acc.rows)
          /\ accounts' = acc.rows
          /\ link' = [link EXCEPT ![u] = acc.id]
    /\ owner' = Adopted(u, c)
    /\ challenges' = [challenges EXCEPT ![i].status = "consumed"]
    /\ used' = Append(used, i)
    /\ proofs' = proofs \cup {<<u, c>>}
    /\ UNCHANGED turn

(* Variant: what the handler had written stays when it fails.               *)
KeptOnError(before, written) == written
(* session_scope: an exception rolls the transaction back.                  *)
RolledBack(before, written) == before

(* The account belongs to another user: 409, when the account is already    *)
(* overwritten.                                                             *)
RefuseChallenge(i, s, c) ==
    /\ i \in DOMAIN challenges
    /\ Usable(i)
    /\ \E acc \in Upserted(s, c) :
          /\ ~(LinkedTo(acc.id) \subseteq {challenges[i].user})
          /\ accounts' = RolledBack(accounts, acc.rows)
    /\ UNCHANGED <<challenges, link, owner, turn, used, proofs>>

-----------------------------------------------------------------------------
(* A turn of the chat: the orchestrator asks for the actor, works out the   *)
(* answer and stores the turn under the actor it was given.  When the       *)
(* question for the actor fails the turn is an anonymous one.               *)
BeginTurn(c) ==
    /\ turn[c] = NoTurn
    /\ \E u \in SpeaksFor(c) \cup {Nobody} : turn' = [turn EXCEPT ![c] = u]
    /\ UNCHANGED <<challenges, accounts, link, owner, used, proofs>>

(* _resolve_or_create_conversation *)
OwnerAfterTurn(c) == IF owner[c] \in {Absent, Nobody} THEN turn[c] ELSE owner[c]

StoreTurn(c) ==
    /\ turn[c] # NoTurn
    /\ owner' = [owner EXCEPT ![c] = OwnerAfterTurn(c)]
    /\ turn' = [turn EXCEPT ![c] = NoTurn]
    /\ UNCHANGED <<challenges, accounts, link, used, proofs>>

(* The turn fails, or its storing does, which is only logged.               *)
LoseTurn(c) ==
    /\ turn[c] # NoTurn
    /\ turn' = [turn EXCEPT ![c] = NoTurn]
    /\ UNCHANGED <<challenges, accounts, link, owner, used, proofs>>

Next ==
    \/ \E u \in Users : CreateChallenge(u)
    \/ \E i \in DOMAIN challenges : Expire(i)
    \/ \E i \in DOMAIN challenges, s \in Senders \cup {NoSender}, c \in Chats :
          ConsumeChallenge(i, s, c) \/ RefuseChallenge(i, s, c)
    \/ \E c \in Chats : BeginTurn(c) \/ StoreTurn(c) \/ LoseTurn(c)

Spec == Init /\ [][Next]_vars

-----------------------------------------------------------------------------
(* Properties *)

TypeOK ==
    /\ challenges \in Seq([user: Users, status: {"live", "consumed", "expired"}])
    /\ accounts \in Seq([sender: Senders \cup {NoSender}, chat: Chats])
    /\ link \in [Users -> 0..Len(accounts)]
    /\ owner \in [Chats -> Users \cup {Nobody, Absent}]
    /\ turn \in [Chats -> Users \cup {Nobody, NoTurn}]
    /\ used \in Seq(DOMAIN challenges)
    /\ proofs \subseteq Users \X Chats

(* A chat speaks for a user only if a code of that user was typed into that *)
(* very chat, although an account row can move from chat to chat and from   *)
(* Telegram user to Telegram user.                                          *)
ChatSpeaksByProof == \A c \in Chats : \A u \in LinkedIn(c) : <<u, c>> \in proofs

(* A chat speaks for one user.                                              *)
OneUserPerChat == \A c \in Chats : Cardinality(LinkedIn(c)) <= 1

(* Who owns the conversation of a chat has typed a code into that chat,     *)
(* even when the turn that made them the owner began before the chat was    *)
(* linked to somebody else.                                                 *)
OwnerByProof == \A c \in Chats : owner[c] \in Users => <<owner[c], c>> \in proofs

(* Issuing a code puts an end to the earlier ones, and a code links once.   *)
LinkedByNewestCode ==
    [][used' # used =>
          LET i == used'[Len(used')] IN
          /\ \A n \in DOMAIN used : used[n] # i
          /\ \A j \in DOMAIN challenges : challenges[j].user = challenges[i].user => j <= i
      ]_vars
=============================================================================
