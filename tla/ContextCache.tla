------------------------------ MODULE ContextCache ------------------------------
(***************************************************************************)
(* One key of the specialist's in-memory caches (_ACTOR_CONTEXT_CACHE and  *)
(* _PUBLIC_RESOURCE_CACHE of runtime_io.py), shared by concurrent turns,   *)
(* and the row of api-core it copies.                                      *)
(*                                                                         *)
(* The process has one event loop: a fetch is a step before its HTTP call  *)
(* and a step after it.  Time is counted in units short enough for both to *)
(* take none of it; a call takes at most Timeout of them.                  *)
(***************************************************************************)
EXTENDS Integers

CONSTANTS
    Turns,          \* turns that fetch the value
    Ttl, Timeout,   \* life of an entry; longest time an HTTP call takes
    MaxTime,        \* bound on the clock
    MaxChanges      \* bound on the changes of the row

ASSUME CacheAssumption ==
    /\ Ttl \in Nat /\ Timeout \in Nat
    /\ Timeout <= Ttl
    /\ MaxTime \in Nat /\ MaxChanges \in Nat

VARIABLES
    now,
    version,     \* the row of api-core: how often it has changed
    changed,     \* history: when each version was replaced
    entry,       \* the cache entry, an empty set when there is none
    fetch,       \* the fetch of each turn
    known        \* history: the value has been cached before

vars == <<now, version, changed, entry, fetch, known>>

None == -1                     \* what a fetch returns when it has no value
Idle == [pc |-> "idle", since |-> 0, value |-> None]

Init ==
    /\ now = 0 /\ version = 0
    /\ changed = [v \in 0..MaxChanges |-> 0]
    /\ entry = {}
    /\ fetch = [t \in Turns |-> Idle]
    /\ known = FALSE

(* The value a turn goes on with.                                           *)
Serve(t, value) == fetch' = [fetch EXCEPT ![t] = [pc |-> "served", since |-> @.since, value |-> value]]

Fresh(e) == now < e.until

(* Variant: an expired entry is left for the fallback to find.              *)
StartFetchKept(t) ==
    /\ fetch[t].pc = "idle"
    /\ IF \E e \in entry : Fresh(e)
       THEN \E e \in entry : Serve(t, e.value)
       ELSE fetch' = [fetch EXCEPT ![t] = [pc |-> "asking", since |-> now, value |-> None]]
    /\ UNCHANGED <<now, version, changed, entry, known>>

(* _cache_get, then the request: an expired entry is dropped on the way.    *)
StartFetch(t) ==
    /\ fetch[t].pc = "idle"
    /\ IF \E e \in entry : Fresh(e)
       THEN \E e \in entry : Serve(t, e.value) /\ UNCHANGED entry
       ELSE /\ fetch' = [fetch EXCEPT ![t] = [pc |-> "asking", since |-> now, value |-> None]]
            /\ entry' = {}
    /\ UNCHANGED <<now, version, changed, known>>

(* api-core reads the row; its response is on the way.                      *)
Read(t) ==
    /\ fetch[t].pc = "asking"
    /\ fetch' = [fetch EXCEPT ![t].pc = "answered", ![t].value = version]
    /\ UNCHANGED <<now, version, changed, entry, known>>

(* Variant: the cache keeps what it had under the key.                      *)
ArriveAdded(t) ==
    /\ fetch[t].pc = "answered"
    /\ entry' = entry \cup {[value |-> fetch[t].value, until |-> now + Ttl]}
    /\ known' = TRUE
    /\ Serve(t, fetch[t].value)
    /\ UNCHANGED <<now, version, changed>>

(* _cache_set: whoever comes last is kept, not whoever read last.           *)
Arrive(t) ==
    /\ fetch[t].pc = "answered"
    /\ entry' = {[value |-> fetch[t].value, until |-> now + Ttl]}
    /\ known' = TRUE
    /\ Serve(t, fetch[t].value)
    /\ UNCHANGED <<now, version, changed>>

(* A response that holds no value: the actor cache keeps what it has, the   *)
(* public one an entry without a value, which is never served.              *)
ArriveEmpty(t) ==
    /\ fetch[t].pc = "answered"
    /\ Serve(t, None)
    /\ entry' \in {entry, {}}
    /\ UNCHANGED <<now, version, changed, known>>

(* An HTTP error, before or after the row was read: the entry is served     *)
(* whether or not it has expired, if there is one by now.                   *)
Fail(t) ==
    /\ fetch[t].pc \in {"asking", "answered"}
    /\ IF entry = {} THEN Serve(t, None) ELSE \E e \in entry : Serve(t, e.value)
    /\ UNCHANGED <<now, version, changed, entry, known>>

(* The next turn.                                                           *)
Finish(t) ==
    /\ fetch[t].pc = "served"
    /\ fetch' = [fetch EXCEPT ![t] = Idle]
    /\ UNCHANGED <<now, version, changed, entry, known>>

Change ==
    /\ version < MaxChanges
    /\ version' = version + 1
    /\ changed' = [changed EXCEPT ![version] = now]
    /\ UNCHANGED <<now, entry, fetch, known>>

Busy(t) == fetch[t].pc \in {"asking", "answered"}

(* A turn is served and goes on before the clock does.                      *)
Tick ==
    /\ now < MaxTime
    /\ \A t \in Turns : fetch[t].pc # "served" /\ (Busy(t) => now < fetch[t].since + Timeout)
    /\ now' = now + 1
    /\ UNCHANGED <<version, changed, entry, fetch, known>>

Next ==
    \/ \E t \in Turns : StartFetch(t) \/ Read(t) \/ Arrive(t) \/ ArriveEmpty(t) \/ Fail(t) \/ Finish(t)
    \/ Change \/ Tick

Spec == Init /\ [][Next]_vars

-----------------------------------------------------------------------------
(* Properties *)

Times == 0..MaxTime
Versions == 0..MaxChanges

TypeOK ==
    /\ now \in Times /\ version \in Versions
    /\ changed \in [Versions -> Times]
    /\ entry \in SUBSET [value: Versions, until: Int]
    /\ \A e, f \in entry : e = f
    /\ fetch \in [Turns -> [pc: {"idle", "asking", "answered", "served"}, since: Times,
                            value: Versions \cup {None}]]
    /\ known \in BOOLEAN

(* The value was still the row's at some moment of the last span units.     *)
CurrentWithin(value, span) == value = version \/ now <= changed[value] + span

(* A turn goes on with no value, or with one that api-core still held less  *)
(* than a life of an entry and a call ago, whichever turn fetched it,       *)
(* however the answers of concurrent fetches cross, and even when a failed  *)
(* call falls back on an entry without looking at its age.                  *)
ServedRecent ==
    \A t \in Turns :
        fetch[t].pc = "served" /\ fetch[t].value # None => CurrentWithin(fetch[t].value, Ttl + Timeout)

(* What test_fetch_public_payload_returns_stale_cache_when_api_core_times_  *)
(* out is named for: a call that fails is made up for by what was cached.   *)
StaleServedOnError ==
    [][\A t \in Turns : Fail(t) /\ known => fetch'[t].value # None]_vars
=================================================================================
