-------------------------- MODULE TelegramLinkProofs --------------------------
(***************************************************************************)
(* Proofs about TelegramLink, for any users, chats, Telegram users and     *)
(* number of codes.                                                        *)
(***************************************************************************)
EXTENDS TelegramLink, FiniteSetTheorems, TLAPS

(* The inductive invariant.  That a chat speaks by proof is not inductive:  *)
(* a code overwrites an account row, which must not belong to a second user *)
(* nor share its chat with another row, and a turn carries its actor from   *)
(* one transaction to the next.                                             *)
OneUserPerAccount == \A u, v \in Users : link[u] = link[v] /\ link[u] # 0 => u = v
LinkByProof ==
    \A u \in Users : link[u] # 0 => <<u, accounts[link[u]].chat>> \in proofs
TurnByProof == \A c \in Chats : turn[c] \in Users => <<turn[c], c>> \in proofs

(* Of the codes of a user only the newest is live, and one that was typed   *)
(* in is consumed.                                                          *)
LiveIsNewest ==
    \A i, j \in DOMAIN challenges :
        challenges[i].status = "live" /\ challenges[j].user = challenges[i].user => j <= i
UsedIsConsumed == \A n \in DOMAIN used : challenges[used[n]].status = "consumed"

LinkInv ==
    /\ TypeOK
    /\ UniqueRows(accounts)
    /\ OneUserPerAccount
    /\ LinkByProof
    /\ TurnByProof
    /\ OwnerByProof

CodeInv == TypeOK /\ LiveIsNewest /\ UsedIsConsumed

USE LinkAssumption, NullAssumption

Challenge == [user: Users, status: {"live", "consumed", "expired"}]
Account == [sender: Senders \cup {NoSender}, chat: Chats]

-----------------------------------------------------------------------------
(* Type correctness *)

LEMMA InitLink == Init => LinkInv /\ CodeInv
  BY DEF Init, LinkInv, CodeInv, TypeOK, UniqueRows, OneUserPerAccount, LinkByProof,
         TurnByProof, OwnerByProof, LiveIsNewest, UsedIsConsumed, NoTurn

(* Where the account row of a consumed code ends up.                        *)
LEMMA UpsertedRow ==
  ASSUME TypeOK, NEW s \in Senders \cup {NoSender}, NEW c \in Chats, NEW acc \in Upserted(s, c)
  PROVE  /\ acc.rows \in Seq(Account)
         /\ Len(accounts) <= Len(acc.rows)
         /\ acc.id \in 1..Len(acc.rows)
         /\ acc.rows[acc.id] = [sender |-> s, chat |-> c]
         /\ \A a \in 1..Len(accounts) : a # acc.id => acc.rows[a] = accounts[a]
  <1> DEFINE row == [sender |-> s, chat |-> c]
  <1>1. accounts \in Seq(Account) /\ row \in Account
    BY DEF TypeOK, Account
  <1>2. CASE Matching(s, c) = {}
    <2>1. acc = [id |-> Len(accounts) + 1, rows |-> Append(accounts, row)]
      BY <1>2 DEF Upserted
    <2> QED
      BY <1>1, <2>1
  <1>3. CASE Matching(s, c) # {}
    <2>1. PICK a \in Matching(s, c) : acc = [id |-> a, rows |-> [accounts EXCEPT ![a] = row]]
      BY <1>3 DEF Upserted
    <2>2. a \in 1..Len(accounts)
      BY <1>1 DEF Matching
    <2> QED
      BY <1>1, <2>1, <2>2
  <1> QED
    BY <1>2, <1>3

(* Only the status of a code changes, ever.                                 *)
LEMMA WithStatus ==
  ASSUME NEW ch \in Challenge, NEW st \in {"live", "consumed", "expired"}
  PROVE  /\ [ch EXCEPT !.status = st] \in Challenge
         /\ [ch EXCEPT !.status = st].status = st
         /\ [ch EXCEPT !.status = st].user = ch.user
  BY DEF Challenge

LEMMA CodesAreIndexed ==
  ASSUME TypeOK
  PROVE  /\ Len(challenges) \in Nat
         /\ DOMAIN challenges = 1..Len(challenges)
         /\ challenges \in [1..Len(challenges) -> Challenge]
  <1>1. challenges \in Seq(Challenge)
    BY DEF TypeOK, Challenge
  <1> QED
    BY <1>1

LEMMA WithdrawnType ==
  ASSUME TypeOK, NEW u \in Users
  PROVE  Withdrawn(u) \in Seq(Challenge) /\ Len(Withdrawn(u)) = Len(challenges)
  <1>1. ASSUME NEW i \in DOMAIN challenges
        PROVE  [challenges[i] EXCEPT !.status = "consumed"] \in Challenge
    BY CodesAreIndexed, WithStatus
  <1>2. ASSUME NEW i \in DOMAIN challenges
        PROVE  (IF challenges[i].user = u /\ challenges[i].status = "live"
                THEN [challenges[i] EXCEPT !.status = "consumed"] ELSE challenges[i]) \in Challenge
    BY <1>1, CodesAreIndexed
  <1>3. Withdrawn(u) \in [1..Len(challenges) -> Challenge]
    BY <1>2, CodesAreIndexed, Zenon DEF Withdrawn
  <1> QED
    BY <1>3, CodesAreIndexed

LEMMA CreateType ==
  ASSUME TypeOK, NEW u \in Users, CreateChallenge(u)
  PROVE  TypeOK'
  <1>1. challenges' \in Seq(Challenge) /\ Len(challenges') = Len(challenges) + 1
    <2>1. [user |-> u, status |-> "live"] \in Challenge
      BY DEF Challenge
    <2>2. challenges' = Append(Withdrawn(u), [user |-> u, status |-> "live"])
      BY DEF CreateChallenge
    <2> QED
      BY <2>1, <2>2, WithdrawnType
  <1>2. used \in Seq(1..Len(challenges)) /\ used' = used
    BY DEF TypeOK, CreateChallenge
  <1>3. used' \in Seq(DOMAIN challenges')
    <2>1. used \in [1..Len(used) -> 1..Len(challenges)]
      BY <1>2
    <2>2. used \in [1..Len(used) -> 1..Len(challenges')]
      BY <1>1, <2>1 DEF TypeOK
    <2>3. DOMAIN challenges' = 1..Len(challenges')
      BY <1>1
    <2> QED
      BY <1>2, <2>2, <2>3
  <1> QED
    BY <1>1, <1>3 DEF TypeOK, CreateChallenge, Challenge

LEMMA StatusType ==
  ASSUME TypeOK, NEW i \in DOMAIN challenges, NEW st \in {"consumed", "expired"},
         challenges' = [challenges EXCEPT ![i] = [challenges[i] EXCEPT !.status = st]]
  PROVE  challenges' \in Seq(Challenge) /\ DOMAIN challenges' = DOMAIN challenges
  <1>1. [challenges[i] EXCEPT !.status = st] \in Challenge
    BY CodesAreIndexed, WithStatus
  <1> DEFINE new == [challenges[i] EXCEPT !.status = st]
  <1>2. challenges' = [challenges EXCEPT ![i] = new] /\ new \in Challenge
    BY <1>1
  <1> HIDE DEF new
  <1>3. challenges' \in [1..Len(challenges) -> Challenge]
    BY <1>2, CodesAreIndexed
  <1> QED
    BY <1>3, CodesAreIndexed

LEMMA ConsumeType ==
  ASSUME TypeOK, NEW i \in DOMAIN challenges, NEW s \in Senders \cup {NoSender}, NEW c \in Chats,
         ConsumeChallenge(i, s, c)
  PROVE  TypeOK'
  <1>1. challenges[i].user \in Users
    BY CodesAreIndexed DEF Challenge
  <1>2. challenges' \in Seq(Challenge) /\ DOMAIN challenges' = DOMAIN challenges
    BY StatusType DEF ConsumeChallenge
  <1>3. PICK acc \in Upserted(s, c) :
           accounts' = acc.rows /\ link' = [link EXCEPT ![challenges[i].user] = acc.id]
    BY DEF ConsumeChallenge
  <1>4. /\ accounts' \in Seq(Account)
        /\ Len(accounts) <= Len(accounts')
        /\ acc.id \in 1..Len(accounts')
    BY <1>3, UpsertedRow
  <1>5. link' \in [Users -> 0..Len(accounts')]
    <2>1. link \in [Users -> 0..Len(accounts)] /\ Len(accounts) \in Nat /\ Len(accounts') \in Nat
      BY <1>4 DEF TypeOK
    <2> QED
      BY <1>1, <1>3, <1>4, <2>1
  <1>6. owner' \in [Chats -> Users \cup {Nobody, Absent}]
    BY <1>1 DEF TypeOK, ConsumeChallenge, Adopted
  <1>7. used' \in Seq(DOMAIN challenges')
    BY <1>2 DEF TypeOK, ConsumeChallenge
  <1>8. proofs' \subseteq Users \X Chats
    BY <1>1 DEF TypeOK, ConsumeChallenge
  <1> QED
    BY <1>2, <1>4, <1>5, <1>6, <1>7, <1>8 DEF TypeOK, ConsumeChallenge, Challenge, Account

LEMMA RefuseNothing ==
  ASSUME NEW i, NEW s, NEW c, RefuseChallenge(i, s, c)
  PROVE  UNCHANGED vars
  BY DEF RefuseChallenge, RolledBack, vars

LEMMA LinkedUsers ==
  ASSUME NEW c \in Chats, NEW u \in LinkedIn(c), TypeOK
  PROVE  u \in Users /\ link[u] # 0 /\ accounts[link[u]].chat = c
  BY DEF LinkedIn, LinkedTo, TypeOK

LEMMA BeginTurnFacts ==
  ASSUME TypeOK, NEW c \in Chats, BeginTurn(c)
  PROVE  /\ turn' \in [Chats -> Users \cup {Nobody, NoTurn}]
         /\ \A d \in Chats : d # c => turn'[d] = turn[d]
         /\ turn'[c] \in Users => turn'[c] \in LinkedIn(c)
  <1>1. PICK u \in SpeaksFor(c) \cup {Nobody} : turn' = [turn EXCEPT ![c] = u]
    BY DEF BeginTurn
  <1>2. u \in LinkedIn(c) \/ u = Nobody
    BY DEF SpeaksFor
  <1>3. u \in Users \cup {Nobody}
    BY <1>2, LinkedUsers
  <1> QED
    BY <1>1, <1>2, <1>3 DEF TypeOK

LEMMA NextType == TypeOK /\ [Next]_vars => TypeOK'
  <1> SUFFICES ASSUME TypeOK, [Next]_vars PROVE TypeOK'
    OBVIOUS
  <1>1. ASSUME NEW u \in Users, CreateChallenge(u) PROVE TypeOK'
    BY <1>1, CreateType
  <1>2. ASSUME NEW i \in DOMAIN challenges, Expire(i) PROVE TypeOK'
    <2>1. challenges' \in Seq(Challenge) /\ DOMAIN challenges' = DOMAIN challenges
      BY <1>2, StatusType DEF Expire
    <2> QED
      BY <1>2, <2>1 DEF Expire, TypeOK, Challenge
  <1>3. ASSUME NEW i \in DOMAIN challenges, NEW s \in Senders \cup {NoSender}, NEW c \in Chats,
               ConsumeChallenge(i, s, c)
        PROVE  TypeOK'
    BY <1>3, ConsumeType
  <1>4. ASSUME NEW c \in Chats, BeginTurn(c) PROVE TypeOK'
    BY <1>4, BeginTurnFacts DEF BeginTurn, TypeOK
  <1>5. ASSUME NEW c \in Chats, StoreTurn(c) PROVE TypeOK'
    BY <1>5 DEF StoreTurn, OwnerAfterTurn, TypeOK, NoTurn
  <1>6. ASSUME NEW c \in Chats, LoseTurn(c) PROVE TypeOK'
    BY <1>6 DEF LoseTurn, TypeOK
  <1>7. ASSUME UNCHANGED vars PROVE TypeOK'
    BY <1>7 DEF vars, TypeOK
  <1> QED
    BY <1>1, <1>2, <1>3, <1>4, <1>5, <1>6, <1>7, RefuseNothing DEF Next
-----------------------------------------------------------------------------
(* For whom a chat speaks *)

LEMMA ConsumeKeepsLinks ==
  ASSUME LinkInv, NEW i \in DOMAIN challenges, NEW s \in Senders \cup {NoSender}, NEW c \in Chats,
         ConsumeChallenge(i, s, c)
  PROVE  LinkInv'
  <1> DEFINE u == challenges[i].user
  <1>1. u \in Users
    BY CodesAreIndexed DEF Challenge, LinkInv
  <1>2. PICK acc \in Upserted(s, c) :
           /\ LinkedTo(acc.id) \subseteq {u}
           /\ UniqueRows(acc.rows)
           /\ accounts' = acc.rows
           /\ link' = [link EXCEPT ![u] = acc.id]
    BY DEF ConsumeChallenge
  <1>3. /\ acc.id \in 1..Len(accounts')
        /\ accounts'[acc.id].chat = c
        /\ \A a \in 1..Len(accounts) : a # acc.id => accounts'[a] = accounts[a]
    <2>1. /\ acc.id \in 1..Len(acc.rows)
          /\ acc.rows[acc.id] = [sender |-> s, chat |-> c]
          /\ \A a \in 1..Len(accounts) : a # acc.id => acc.rows[a] = accounts[a]
      BY UpsertedRow DEF LinkInv
    <2> QED
      BY <1>2, <2>1
  <1>4. /\ proofs' = proofs \cup {<<u, c>>}
        /\ turn' = turn
        /\ \A d \in Chats : owner'[d] = owner[d] \/ (d = c /\ owner'[d] = u)
    BY DEF ConsumeChallenge, Adopted, LinkInv, TypeOK
  <1> HIDE DEF u
  <1>5. /\ link'[u] = acc.id
        /\ \A v \in Users : v # u => link'[v] = link[v] /\ link[v] # acc.id
    BY <1>1, <1>2 DEF LinkInv, TypeOK, LinkedTo
  <1>6. TypeOK' /\ UniqueRows(accounts)'
    BY <1>2, ConsumeType DEF LinkInv, UniqueRows
  <1>7. OneUserPerAccount'
    BY <1>5 DEF LinkInv, OneUserPerAccount
  <1>8. LinkByProof'
    <2>1. ASSUME NEW v \in Users, v # u, link'[v] # 0
          PROVE  <<v, accounts'[link'[v]].chat>> \in proofs'
      <3>1. link[v] \in 1..Len(accounts) /\ link[v] # acc.id
        BY <1>5, <2>1 DEF LinkInv, TypeOK
      <3>2. accounts'[link'[v]] = accounts[link[v]]
        BY <1>3, <1>5, <2>1, <3>1
      <3> QED
        BY <1>4, <1>5, <2>1, <3>2 DEF LinkInv, LinkByProof
    <2>2. <<u, accounts'[link'[u]].chat>> \in proofs'
      BY <1>3, <1>4, <1>5
    <2> QED
      BY <2>1, <2>2 DEF LinkByProof
  <1>9. TurnByProof'
    BY <1>4 DEF LinkInv, TurnByProof
  <1>10. ASSUME NEW d \in Chats, owner'[d] \in Users PROVE <<owner'[d], d>> \in proofs'
    BY <1>4, <1>10 DEF LinkInv, OwnerByProof
  <1> QED
    BY <1>6, <1>7, <1>8, <1>9, <1>10 DEF LinkInv, OwnerByProof

LEMMA TurnKeepsLinks ==
  ASSUME LinkInv, NEW c \in Chats, BeginTurn(c) \/ StoreTurn(c) \/ LoseTurn(c)
  PROVE  TurnByProof' /\ OwnerByProof'
  <1>1. CASE BeginTurn(c)
    <2>1. ASSUME NEW d \in Chats, turn'[d] \in Users
          PROVE  <<turn'[d], d>> \in proofs
      <3>1. CASE d # c
        BY <1>1, <2>1, <3>1, BeginTurnFacts DEF LinkInv, TurnByProof
      <3>2. CASE d = c
        BY <1>1, <2>1, <3>2, BeginTurnFacts, LinkedUsers DEF LinkInv, LinkByProof
      <3> QED
        BY <3>1, <3>2
    <2> QED
      BY <1>1, <2>1 DEF BeginTurn, LinkInv, TurnByProof, OwnerByProof
  <1>2. CASE StoreTurn(c)
    <2>1. \A d \in Chats : owner'[d] = owner[d] \/ (d = c /\ owner'[d] = turn[c])
      BY <1>2 DEF StoreTurn, OwnerAfterTurn, LinkInv, TypeOK
    <2>2. \A d \in Chats : turn'[d] = turn[d] \/ turn'[d] = NoTurn
      BY <1>2 DEF StoreTurn, LinkInv, TypeOK
    <2> QED
      BY <1>2, <2>1, <2>2 DEF StoreTurn, LinkInv, TurnByProof, OwnerByProof, NoTurn
  <1>3. CASE LoseTurn(c)
    BY <1>3 DEF LoseTurn, LinkInv, TypeOK, TurnByProof, OwnerByProof, NoTurn
  <1> QED
    BY <1>1, <1>2, <1>3

LEMMA NextKeepsLinks == LinkInv /\ [Next]_vars => LinkInv'
  <1> SUFFICES ASSUME LinkInv, [Next]_vars PROVE LinkInv'
    OBVIOUS
  <1> DEFINE RowsKept == UNCHANGED <<accounts, link, proofs>>
  <1>1. TypeOK'
    BY NextType DEF LinkInv
  <1>2. ASSUME RowsKept, TurnByProof', OwnerByProof' PROVE LinkInv'
    BY <1>1, <1>2 DEF LinkInv, UniqueRows, OneUserPerAccount, LinkByProof
  <1>3. ASSUME RowsKept, UNCHANGED <<owner, turn>> PROVE LinkInv'
    BY <1>2, <1>3 DEF LinkInv, TurnByProof, OwnerByProof
  <1>4. ASSUME NEW u \in Users, CreateChallenge(u) PROVE LinkInv'
    BY <1>3, <1>4 DEF CreateChallenge
  <1>5. ASSUME NEW i \in DOMAIN challenges, Expire(i) PROVE LinkInv'
    BY <1>3, <1>5 DEF Expire
  <1>6. ASSUME NEW i \in DOMAIN challenges, NEW s \in Senders \cup {NoSender}, NEW c \in Chats,
               ConsumeChallenge(i, s, c) \/ RefuseChallenge(i, s, c)
        PROVE  LinkInv'
    BY <1>3, <1>6, ConsumeKeepsLinks, RefuseNothing DEF vars
  <1>7. ASSUME NEW c \in Chats, BeginTurn(c) \/ StoreTurn(c) \/ LoseTurn(c) PROVE LinkInv'
    BY <1>2, <1>7, TurnKeepsLinks DEF BeginTurn, StoreTurn, LoseTurn
  <1>8. ASSUME UNCHANGED vars PROVE LinkInv'
    BY <1>3, <1>8 DEF vars
  <1> QED
    BY <1>4, <1>5, <1>6, <1>7, <1>8 DEF Next

(* The invariant holds of every state of every execution.                   *)
THEOREM LinkInvariance == Spec => []LinkInv
  <1>1. Init => LinkInv
    BY InitLink
  <1> QED
    BY <1>1, NextKeepsLinks, PTL DEF Spec

(* Every stored row of the link tables is well formed.                      *)
THEOREM LinkTypeCorrect == Spec => []TypeOK
  <1>1. LinkInv => TypeOK
    BY DEF LinkInv
  <1> QED
    BY <1>1, LinkInvariance, PTL

(* A chat speaks for those only who typed a code of theirs into it.         *)
THEOREM SpeaksByProof == Spec => []ChatSpeaksByProof
  <1>1. LinkInv => ChatSpeaksByProof
    BY LinkedUsers DEF LinkInv, LinkByProof, ChatSpeaksByProof
  <1> QED
    BY <1>1, LinkInvariance, PTL

(* No chat speaks for two users: the rows of a chat are one, its links too. *)
THEOREM ChatHasOneUser == Spec => []OneUserPerChat
  <1>1. ASSUME LinkInv, NEW c \in Chats PROVE Cardinality(LinkedIn(c)) <= 1
    <2>1. ASSUME NEW u \in LinkedIn(c), NEW v \in LinkedIn(c) PROVE u = v
      <3>1. /\ u \in Users /\ link[u] \in DOMAIN accounts /\ accounts[link[u]].chat = c
            /\ v \in Users /\ link[v] \in DOMAIN accounts /\ accounts[link[v]].chat = c
        BY DEF LinkedIn, LinkedTo
      <3>2. link[u] = link[v]
        BY <1>1, <3>1 DEF LinkInv, UniqueRows
      <3>3. link[u] # 0
        BY <1>1, LinkedUsers DEF LinkInv
      <3> QED
        BY <1>1, <3>1, <3>2, <3>3 DEF LinkInv, OneUserPerAccount
    <2>2. CASE LinkedIn(c) = {}
      BY <2>2, FS_EmptySet
    <2>3. CASE LinkedIn(c) # {}
      <3>1. PICK u \in LinkedIn(c) : LinkedIn(c) = {u}
        BY <2>1, <2>3
      <3>2. Cardinality({u}) = 1
        BY FS_Singleton
      <3> QED
        BY <3>1, <3>2
    <2> QED
      BY <2>2, <2>3
  <1>2. LinkInv => OneUserPerChat
    BY <1>1 DEF OneUserPerChat
  <1> QED
    BY <1>2, LinkInvariance, PTL

(* Who owns the conversation of a chat typed a code into that chat.         *)
THEOREM OwnershipByProof == Spec => []OwnerByProof
  <1>1. LinkInv => OwnerByProof
    BY DEF LinkInv
  <1> QED
    BY <1>1, LinkInvariance, PTL
-----------------------------------------------------------------------------
(* Which codes link *)

LEMMA WithdrawnFacts ==
  ASSUME TypeOK, NEW u \in Users, NEW i \in DOMAIN challenges
  PROVE  /\ Withdrawn(u)[i].user = challenges[i].user
         /\ Withdrawn(u)[i].status = "live" =>
               challenges[i].status = "live" /\ challenges[i].user # u
         /\ challenges[i].status = "consumed" => Withdrawn(u)[i].status = "consumed"
  <1>1. challenges[i] \in Challenge
    BY CodesAreIndexed
  <1>2. CASE challenges[i].user = u /\ challenges[i].status = "live"
    <2>1. Withdrawn(u)[i] = [challenges[i] EXCEPT !.status = "consumed"]
      BY <1>2 DEF Withdrawn
    <2> QED
      BY <1>1, <1>2, <2>1, WithStatus
  <1>3. CASE ~(challenges[i].user = u /\ challenges[i].status = "live")
    <2>1. Withdrawn(u)[i] = challenges[i]
      BY <1>3 DEF Withdrawn
    <2> QED
      BY <1>3, <2>1
  <1> QED
    BY <1>2, <1>3

LEMMA CreateKeepsCodes ==
  ASSUME CodeInv, NEW u \in Users, CreateChallenge(u)
  PROVE  LiveIsNewest' /\ UsedIsConsumed'
  <1> DEFINE n == Len(challenges)
  <1>1. /\ TypeOK /\ n \in Nat /\ DOMAIN challenges = 1..n
        /\ challenges' = Append(Withdrawn(u), [user |-> u, status |-> "live"])
        /\ Withdrawn(u) \in Seq(Challenge) /\ Len(Withdrawn(u)) = n
    BY CodesAreIndexed, WithdrawnType DEF CodeInv, CreateChallenge
  <1>2. /\ DOMAIN challenges' = 1..(n + 1)
        /\ challenges'[n + 1] = [user |-> u, status |-> "live"]
        /\ \A i \in 1..n : challenges'[i] = Withdrawn(u)[i]
    BY <1>1
  <1> HIDE DEF n
  <1>3. ASSUME NEW i \in DOMAIN challenges', NEW j \in DOMAIN challenges',
               challenges'[i].status = "live", challenges'[j].user = challenges'[i].user
        PROVE  j <= i
    <2>1. CASE i = n + 1
      BY <1>1, <1>2, <2>1
    <2>2. CASE i \in 1..n /\ j \in 1..n
      BY <1>1, <1>2, <1>3, <2>2, WithdrawnFacts DEF CodeInv, LiveIsNewest
    <2>3. CASE i \in 1..n /\ j = n + 1
      BY <1>1, <1>2, <1>3, <2>3, WithdrawnFacts
    <2> QED
      BY <1>1, <1>2, <2>1, <2>2, <2>3
  <1>4. ASSUME NEW k \in DOMAIN used PROVE challenges'[used[k]].status = "consumed"
    <2>1. used[k] \in 1..n /\ challenges[used[k]].status = "consumed"
      BY <1>1 DEF CodeInv, UsedIsConsumed, TypeOK
    <2> QED
      BY <1>1, <1>2, <2>1, WithdrawnFacts
  <1> QED
    BY <1>3, <1>4 DEF LiveIsNewest, UsedIsConsumed, CreateChallenge

(* A code that expires or is consumed only stops being live.                *)
LEMMA EndingKeepsCodes ==
  ASSUME CodeInv, NEW i \in DOMAIN challenges, NEW st \in {"consumed", "expired"},
         challenges[i].status = "live",
         challenges' = [challenges EXCEPT ![i] = [challenges[i] EXCEPT !.status = st]]
  PROVE  /\ LiveIsNewest'
         /\ \A k \in DOMAIN used : challenges'[used[k]].status = "consumed"
         /\ challenges'[i].status = st
  <1>1. /\ challenges'[i] = [challenges[i] EXCEPT !.status = st]
        /\ DOMAIN challenges' = DOMAIN challenges
        /\ \A j \in DOMAIN challenges : j # i => challenges'[j] = challenges[j]
    BY CodesAreIndexed DEF CodeInv
  <1>2. challenges'[i].status = st /\ challenges'[i].user = challenges[i].user
    <2>1. challenges[i] \in Challenge /\ st \in {"live", "consumed", "expired"}
      BY CodesAreIndexed DEF CodeInv
    <2>2. /\ [challenges[i] EXCEPT !.status = st].status = st
          /\ [challenges[i] EXCEPT !.status = st].user = challenges[i].user
      BY <2>1 DEF Challenge
    <2> QED
      BY <1>1, <2>2, Zenon
  <1>3. LiveIsNewest'
    BY <1>1, <1>2 DEF LiveIsNewest, CodeInv
  <1>4. ASSUME NEW k \in DOMAIN used PROVE challenges'[used[k]].status = "consumed"
    <2>1. used[k] \in DOMAIN challenges /\ challenges[used[k]].status = "consumed"
      BY DEF CodeInv, UsedIsConsumed, TypeOK
    <2> QED
      BY <1>1, <2>1
  <1> QED
    BY <1>2, <1>3, <1>4

LEMMA ConsumeKeepsCodes ==
  ASSUME CodeInv, NEW i \in DOMAIN challenges, NEW s, NEW c, ConsumeChallenge(i, s, c)
  PROVE  LiveIsNewest' /\ UsedIsConsumed'
  <1>1. /\ challenges[i].status = "live"
        /\ challenges' = [challenges EXCEPT ![i] = [challenges[i] EXCEPT !.status = "consumed"]]
        /\ used' = Append(used, i)
    BY DEF ConsumeChallenge, Usable
  <1>2. /\ LiveIsNewest'
        /\ \A k \in DOMAIN used : challenges'[used[k]].status = "consumed"
        /\ challenges'[i].status = "consumed"
    BY <1>1, EndingKeepsCodes
  <1>3. \A k \in DOMAIN used' : used'[k] = i \/ (k \in DOMAIN used /\ used'[k] = used[k])
    <2>1. /\ used \in Seq(DOMAIN challenges)
          /\ Len(used) \in Nat /\ DOMAIN used = 1..Len(used)
      BY DEF CodeInv, TypeOK
    <2>2. DOMAIN used' = 1..(Len(used) + 1)
      BY <1>1, <2>1
    <2> QED
      BY <1>1, <2>1, <2>2
  <1> QED
    BY <1>2, <1>3 DEF UsedIsConsumed

LEMMA NextKeepsCodes == CodeInv /\ [Next]_vars => CodeInv'
  <1> SUFFICES ASSUME CodeInv, [Next]_vars PROVE CodeInv'
    OBVIOUS
  <1>1. TypeOK'
    BY NextType DEF CodeInv
  <1>2. ASSUME UNCHANGED <<challenges, used>> PROVE LiveIsNewest' /\ UsedIsConsumed'
    BY <1>2 DEF CodeInv, LiveIsNewest, UsedIsConsumed
  <1>3. ASSUME NEW i \in DOMAIN challenges, Expire(i) PROVE LiveIsNewest' /\ UsedIsConsumed'
    <2>1. /\ challenges[i].status = "live" /\ used' = used
          /\ challenges' = [challenges EXCEPT ![i] = [challenges[i] EXCEPT !.status = "expired"]]
      BY <1>3 DEF Expire
    <2> QED
      BY <2>1, EndingKeepsCodes DEF UsedIsConsumed
  <1>4. ASSUME NEW i \in DOMAIN challenges, NEW s \in Senders \cup {NoSender}, NEW c \in Chats,
               ConsumeChallenge(i, s, c) \/ RefuseChallenge(i, s, c)
        PROVE  LiveIsNewest' /\ UsedIsConsumed'
    BY <1>2, <1>4, ConsumeKeepsCodes, RefuseNothing DEF vars
  <1>5. ASSUME NEW c \in Chats, BeginTurn(c) \/ StoreTurn(c) \/ LoseTurn(c)
        PROVE  LiveIsNewest' /\ UsedIsConsumed'
    BY <1>2, <1>5 DEF BeginTurn, StoreTurn, LoseTurn
  <1>6. LiveIsNewest' /\ UsedIsConsumed'
    BY <1>2, <1>3, <1>4, <1>5, CreateKeepsCodes DEF Next, vars
  <1> QED
    BY <1>1, <1>6 DEF CodeInv

(* A code links once, and only as long as it is the newest of its user.     *)
THEOREM NewestCodeLinks == Spec => LinkedByNewestCode
  <1>1. ASSUME CodeInv, NEW i \in DOMAIN challenges, NEW s, NEW c, ConsumeChallenge(i, s, c)
        PROVE  /\ used'[Len(used')] = i
               /\ \A n \in DOMAIN used : used[n] # i
               /\ \A j \in DOMAIN challenges : challenges[j].user = challenges[i].user => j <= i
    <2>1. challenges[i].status = "live" /\ used' = Append(used, i)
      BY <1>1 DEF ConsumeChallenge, Usable
    <2> QED
      BY <1>1, <2>1 DEF CodeInv, TypeOK, LiveIsNewest, UsedIsConsumed
  <1>2. ASSUME CodeInv, [Next]_vars, used' # used
        PROVE  \E i \in DOMAIN challenges, s \in Senders \cup {NoSender}, c \in Chats :
                  ConsumeChallenge(i, s, c)
    BY <1>2, Zenon DEF Next, vars, CreateChallenge, Expire, RefuseChallenge,
       BeginTurn, StoreTurn, LoseTurn
  <1> DEFINE Links == used' # used =>
          LET i == used'[Len(used')] IN
          /\ \A n \in DOMAIN used : used[n] # i
          /\ \A j \in DOMAIN challenges : challenges[j].user = challenges[i].user => j <= i
  <1>3. CodeInv /\ [Next]_vars => [Links]_vars
    BY <1>1, <1>2
  <1>4. Spec => []CodeInv
    BY InitLink, NextKeepsCodes, PTL DEF Spec
  <1>5. [Links]_vars <=> [used' # used =>
          LET i == used'[Len(used')] IN
          /\ \A n \in DOMAIN used : used[n] # i
          /\ \A j \in DOMAIN challenges : challenges[j].user = challenges[i].user => j <= i]_vars
    OBVIOUS
  <1> QED
    BY <1>3, <1>4, <1>5, PTL DEF Spec, LinkedByNewestCode
=============================================================================
