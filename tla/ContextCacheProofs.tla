--------------------------- MODULE ContextCacheProofs ---------------------------
(***************************************************************************)
(* For any number of turns, any lives and timeouts with Timeout <= Ttl: no *)
(* turn goes on with a value older than a life and a call.                 *)
(***************************************************************************)
EXTENDS ContextCache, TLAPS

(* A value was the row's at the given moment or later.                      *)
HeldSince(value, moment) == value = version \/ moment <= changed[value]

(* A call is not older than its timeout, and what it read was the row's     *)
(* after it started; the entry was read at most a call before it was set;   *)
(* and the entry a turn finds after its call was set after it started,      *)
(* since it dropped the one that was there.                                 *)
CallsRecent ==
    \A t \in Turns :
        /\ Busy(t) => fetch[t].since <= now /\ now <= fetch[t].since + Timeout
        /\ fetch[t].pc = "answered" =>
             fetch[t].value \in Versions /\ HeldSince(fetch[t].value, fetch[t].since)
EntryRecent ==
    \A e \in entry : e.until <= now + Ttl /\ HeldSince(e.value, e.until - Ttl - Timeout)
EntryNewer == \A t \in Turns : \A e \in entry : Busy(t) => fetch[t].since <= e.until - Ttl

IInv == TypeOK /\ CallsRecent /\ EntryRecent /\ EntryNewer /\ ServedRecent

-----------------------------------------------------------------------------

(* The invariant holds when nothing is cached and nobody has fetched.       *)
LEMMA InitInv == Init => IInv
<1> SUFFICES ASSUME Init PROVE IInv
  OBVIOUS
<1>1. TypeOK
  <2>1. 0 \in Times /\ 0 \in Versions
    BY CacheAssumption DEF Times, Versions
  <2>2. changed \in [Versions -> Times]
    BY <2>1 DEF Init, Versions
  <2>3. fetch \in [Turns -> [pc: {"idle", "asking", "answered", "served"}, since: Times,
                            value: Versions \cup {None}]]
    BY <2>1 DEF Init, Idle
  <2>4. entry \in SUBSET [value: Versions, until: Int] /\ \A e, f \in entry : e = f
    BY DEF Init
  <2> QED
    BY <2>1, <2>2, <2>3, <2>4 DEF Init, TypeOK
<1>2. CallsRecent /\ EntryRecent /\ EntryNewer /\ ServedRecent
  BY DEF Init, CallsRecent, EntryRecent, EntryNewer, ServedRecent, Idle, Busy
<1> QED
  BY <1>1, <1>2 DEF IInv

(* Each step keeps the invariant.                                           *)
LEMMA StepInv == IInv /\ [Next]_vars => IInv'
<1> SUFFICES ASSUME IInv, [Next]_vars PROVE IInv'
  OBVIOUS
<1> USE CacheAssumption DEF IInv, Busy, HeldSince, CurrentWithin
<1>1. ASSUME NEW t \in Turns, StartFetch(t) PROVE IInv'
  <2>1. CASE \E e \in entry : Fresh(e)
    <3>0. (\E e \in entry : Serve(t, e.value)) /\ UNCHANGED entry
      BY <1>1, <2>1 DEF StartFetch
    <3>1. PICK e \in entry : Fresh(e) /\ Serve(t, e.value) /\ UNCHANGED entry
      BY <2>1, <3>0 DEF TypeOK
    <3>2. UNCHANGED <<now, version, changed, known>> /\ e.value \in Versions /\ e.until \in Int
      BY <1>1 DEF StartFetch, TypeOK
    <3>3. TypeOK'
      BY <3>1, <3>2 DEF TypeOK, Serve
    <3>4. CurrentWithin(e.value, Ttl + Timeout)
      BY <3>1, <3>2 DEF Fresh, EntryRecent, TypeOK, Times, Versions
    <3>5. CallsRecent' /\ EntryRecent' /\ EntryNewer'
      BY <3>1, <3>2 DEF CallsRecent, EntryRecent, EntryNewer, Serve, TypeOK
    <3>6. ServedRecent'
      BY <3>1, <3>2, <3>4 DEF ServedRecent, Serve, TypeOK
    <3> QED
      BY <3>3, <3>5, <3>6
  <2>2. CASE ~\E e \in entry : Fresh(e)
    <3>1. /\ fetch' = [fetch EXCEPT ![t] = [pc |-> "asking", since |-> now, value |-> None]]
          /\ entry' = {} /\ UNCHANGED <<now, version, changed, known>>
      BY <1>1, <2>2 DEF StartFetch
    <3>2. TypeOK'
      BY <3>1 DEF TypeOK
    <3>3. CallsRecent' /\ EntryRecent' /\ EntryNewer' /\ ServedRecent'
      BY <3>1 DEF CallsRecent, EntryRecent, EntryNewer, ServedRecent, TypeOK, Times
    <3> QED
      BY <3>2, <3>3
  <2> QED
    BY <2>1, <2>2
<1>2. ASSUME NEW t \in Turns, Read(t) PROVE IInv'
  <2>1. TypeOK'
    BY <1>2 DEF Read, TypeOK
  <2>2. CallsRecent' /\ EntryRecent' /\ EntryNewer' /\ ServedRecent'
    BY <1>2 DEF Read, CallsRecent, EntryRecent, EntryNewer, ServedRecent, TypeOK
  <2> QED
    BY <2>1, <2>2
<1>3. ASSUME NEW t \in Turns, Arrive(t) PROVE IInv'
  <2> DEFINE v == fetch[t].value
             e == [value |-> v, until |-> now + Ttl]
  <2>1. /\ entry' = {e} /\ known' = TRUE /\ Serve(t, v)
        /\ UNCHANGED <<now, version, changed>> /\ fetch[t].pc = "answered"
    BY <1>3 DEF Arrive
  <2>2. /\ v \in Versions /\ now \in Nat /\ fetch[t].since \in Nat
        /\ fetch[t].since <= now /\ now <= fetch[t].since + Timeout
        /\ HeldSince(v, fetch[t].since)
    BY <2>1 DEF CallsRecent, TypeOK, Times
  <2>3. v # version => changed[v] \in Nat /\ now <= changed[v] + Timeout
    BY <2>2 DEF TypeOK, Times, Versions
  <2>4. TypeOK'
    <3>1. entry' \in SUBSET [value: Versions, until: Int]
      BY <2>1, <2>2
    <3> QED
      BY <2>1, <2>2, <3>1 DEF TypeOK, Serve
  <2>5. CallsRecent'
    BY <2>1 DEF CallsRecent, Serve, TypeOK
  <2>6. EntryRecent'
    BY <2>1, <2>2, <2>3 DEF EntryRecent
  <2>7. EntryNewer'
    <3> SUFFICES ASSUME NEW u \in Turns, Busy(u)' PROVE fetch'[u].since <= now + Ttl - Ttl
      BY <2>1, <2>2 DEF EntryNewer
    <3>1. u # t
      BY <2>1 DEF Serve, TypeOK
    <3>2. Busy(u) /\ fetch'[u] = fetch[u] /\ fetch[u].since \in Nat
      BY <2>1, <3>1 DEF Serve, TypeOK, Times
    <3> QED
      BY <2>2, <3>2 DEF CallsRecent
  <2>8. ServedRecent'
    BY <2>1, <2>2, <2>3 DEF ServedRecent, Serve, TypeOK
  <2> QED
    BY <2>4, <2>5, <2>6, <2>7, <2>8
<1>4. ASSUME NEW t \in Turns, ArriveEmpty(t) PROVE IInv'
  <2>0. entry' \subseteq entry
    BY <1>4 DEF ArriveEmpty
  <2>1. TypeOK'
    BY <1>4, <2>0 DEF ArriveEmpty, Serve, TypeOK
  <2>2. CallsRecent' /\ EntryRecent' /\ EntryNewer' /\ ServedRecent'
    BY <1>4, <2>0 DEF ArriveEmpty, Serve, CallsRecent, EntryRecent, EntryNewer, ServedRecent, TypeOK
  <2> QED
    BY <2>1, <2>2
<1>5. ASSUME NEW t \in Turns, Fail(t) PROVE IInv'
  <2>1. /\ Busy(t) /\ UNCHANGED <<now, version, changed, entry, known>>
    BY <1>5 DEF Fail
  <2>2. PICK v \in Versions \cup {None} :
            Serve(t, v) /\ (v # None => \E e \in entry : v = e.value)
    BY <1>5 DEF Fail, TypeOK
  <2>3. v # None => CurrentWithin(v, Ttl + Timeout)
    <3> SUFFICES ASSUME NEW e \in entry, v = e.value, v # version
                 PROVE now <= changed[v] + (Ttl + Timeout)
      BY <2>2
    <3>1. /\ e.until \in Int /\ v \in Versions /\ changed[v] \in Nat /\ now \in Nat
          /\ fetch[t].since \in Nat
      BY DEF TypeOK, Times
    <3>2. e.until - Ttl - Timeout <= changed[v]
      BY DEF EntryRecent
    <3>3. fetch[t].since <= e.until - Ttl /\ now <= fetch[t].since + Timeout
      BY <2>1 DEF EntryNewer, CallsRecent
    <3> QED
      BY <3>1, <3>2, <3>3
  <2>4. TypeOK'
    BY <2>1, <2>2 DEF TypeOK, Serve
  <2>5. CallsRecent' /\ EntryRecent' /\ EntryNewer'
    BY <2>1, <2>2 DEF CallsRecent, EntryRecent, EntryNewer, Serve, TypeOK
  <2>6. ServedRecent'
    BY <2>1, <2>2, <2>3 DEF ServedRecent, Serve, TypeOK
  <2> QED
    BY <2>4, <2>5, <2>6
<1>6. ASSUME NEW t \in Turns, Finish(t) PROVE IInv'
  <2>1. TypeOK'
    BY <1>6 DEF Finish, Idle, TypeOK, Times
  <2>2. CallsRecent' /\ EntryRecent' /\ EntryNewer' /\ ServedRecent'
    BY <1>6 DEF Finish, Idle, CallsRecent, EntryRecent, EntryNewer, ServedRecent, TypeOK
  <2> QED
    BY <2>1, <2>2
<1>7. ASSUME Change PROVE IInv'
  <2>1. /\ version' = version + 1 /\ changed' = [changed EXCEPT ![version] = now]
        /\ version < MaxChanges /\ UNCHANGED <<now, entry, fetch, known>>
    BY <1>7 DEF Change
  <2>2. TypeOK'
    BY <2>1 DEF TypeOK, Versions
  <2>3. \A v \in Versions : \A moment \in Int :
            moment <= now /\ HeldSince(v, moment) => HeldSince(v, moment)'
    BY <2>1 DEF TypeOK, Versions, Times
  <2>4. CallsRecent'
    <3> SUFFICES ASSUME NEW t \in Turns
                 PROVE /\ Busy(t) => fetch[t].since <= now /\ now <= fetch[t].since + Timeout
                       /\ fetch[t].pc = "answered" =>
                            fetch[t].value \in Versions /\ HeldSince(fetch[t].value, fetch[t].since)'
      BY <2>1 DEF CallsRecent
    <3>1. fetch[t].since \in Int
      BY DEF TypeOK, Times
    <3> QED
      BY <2>1, <2>3, <3>1 DEF CallsRecent
  <2>5. EntryRecent'
    <3> SUFFICES ASSUME NEW e \in entry
                 PROVE e.until <= now + Ttl /\ HeldSince(e.value, e.until - Ttl - Timeout)'
      BY <2>1 DEF EntryRecent
    <3>1. e.value \in Versions /\ e.until \in Int /\ now \in Nat
      BY DEF TypeOK, Times
    <3>2. e.until <= now + Ttl /\ HeldSince(e.value, e.until - Ttl - Timeout)
      BY DEF EntryRecent
    <3>3. e.until - Ttl - Timeout \in Int /\ e.until - Ttl - Timeout <= now
      BY <3>1, <3>2
    <3> QED
      BY <2>3, <3>1, <3>2, <3>3
  <2>6. EntryNewer'
    BY <2>1 DEF EntryNewer
  <2>7. ServedRecent'
    <3> SUFFICES ASSUME NEW t \in Turns, fetch[t].pc = "served", fetch[t].value # None
                 PROVE CurrentWithin(fetch[t].value, Ttl + Timeout)'
      BY <2>1 DEF ServedRecent
    <3>1. fetch[t].value \in Versions /\ CurrentWithin(fetch[t].value, Ttl + Timeout)
      BY DEF ServedRecent, TypeOK
    <3> QED
      BY <2>1, <3>1 DEF TypeOK, Versions, Times
  <2> QED
    BY <2>2, <2>4, <2>5, <2>6, <2>7
<1>8. ASSUME Tick PROVE IInv'
  <2>1. /\ now' = now + 1 /\ now < MaxTime /\ UNCHANGED <<version, changed, entry, fetch, known>>
        /\ \A t \in Turns : fetch[t].pc # "served" /\ (Busy(t) => now < fetch[t].since + Timeout)
    BY <1>8 DEF Tick
  <2>2. TypeOK'
    BY <2>1 DEF TypeOK, Times
  <2>3. CallsRecent' /\ ServedRecent'
    BY <2>1 DEF CallsRecent, ServedRecent, TypeOK, Times
  <2>4. EntryRecent'
    BY <2>1 DEF EntryRecent, TypeOK, Times
  <2>5. EntryNewer'
    BY <2>1 DEF EntryNewer
  <2> QED
    BY <2>2, <2>3, <2>4, <2>5
<1>9. CASE UNCHANGED vars
  BY <1>9 DEF vars, TypeOK, CallsRecent, EntryRecent, EntryNewer, ServedRecent
<1> QED
  BY <1>1, <1>2, <1>3, <1>4, <1>5, <1>6, <1>7, <1>8, <1>9 DEF Next

(* The cache keeps at most one well-formed entry per key, and the clock,    *)
(* the versions and the fetches stay within their types.                    *)
THEOREM TypeCorrect == Spec => []TypeOK
  BY InitInv, StepInv, PTL DEF Spec, IInv

(* Whatever fetches cross and whichever calls fail, no turn goes on with a  *)
(* value that api-core had replaced more than a life and a call ago: what   *)
(* _cache_get drops is what keeps the unchecked fallback recent.            *)
THEOREM RecentServed == Spec => []ServedRecent
  BY InitInv, StepInv, PTL DEF Spec, IInv
=================================================================================
