--------------------------- MODULE DocumentPublish ---------------------------
(***************************************************************************)
(* The document pipeline of the worker: a synchronisation replaces the     *)
(* catalogue in PostgreSQL in one transaction and then publishes the       *)
(* Qdrant indexes one after the other.  An index is published as a new     *)
(* collection, named after the second the publishing began in, to which    *)
(* the alias of the index is switched before its old collection goes.      *)
(*                                                                         *)
(* A synchronisation runs when the worker starts and, in a process of its  *)
(* own, whenever an operator asks for one: nothing keeps two of them       *)
(* apart.  Each can die between any two calls, and a call that fails ends  *)
(* it, except the lookups of the aliases, whose failures are swallowed.    *)
(***************************************************************************)
EXTENDS Naturals, Sequences, FiniteSets

CONSTANTS
    Syncs,          \* the synchronisations, each of which runs once
    Indexes,        \* the indexes, in the order they are published
    MaxTime,        \* bound on the clock, in seconds
    MaxCrashes      \* bound on the synchronisations that die

ASSUME PublishAssumption ==
    /\ IsFiniteSet(Syncs) /\ Syncs \cap {"seed", "missing"} = {}
    /\ Indexes \in Seq(STRING) /\ Len(Indexes) > 0
    /\ MaxTime \in Nat \ {0} /\ MaxCrashes \in Nat

VARIABLES
    time,
    catalog,        \* who wrote its rows
    collections,    \* per index, by second: the syncs whose points it holds
    alias,          \* per index: the second of its collection, NoTarget or Legacy
    pc,             \* where a sync is, or where it died
    at,             \* number of the index it is publishing
    target,         \* second of the collection it built for an index
    current,        \* what it found the alias to point to
    dead,           \* the syncs that died or whose call failed
    (* What the properties need to remember.                                *)
    unseen,         \* the collections replaced by a sync that had not found them
    rivals          \* who was publishing when a sync replaced the catalogue

locals == <<at, target, current>>
history == <<unseen, rivals>>
vars == <<time, catalog, collections, alias, pc, locals, dead, history>>

Times == 1..MaxTime
NoTarget == 0
Legacy == MaxTime + 1       \* a collection that has the name of the alias itself
Missing == {"missing"}      \* instead of the points of a collection
Seed == "seed"              \* wrote the first catalogue
Numbers == 1..Len(Indexes)
Building == {"created", "filled", "resolved", "exposed"}
Publishing == {"publishing", "named", "cleared", "switched"} \cup Building

Is(s, where) == pc[s] = where /\ s \notin dead
Running(s) == pc[s] \notin {"idle", "done"} /\ s \notin dead
IsPublishing(s) == pc[s] \in Publishing /\ s \notin dead

Init ==
    /\ time = 1
    /\ catalog = Seed
    /\ collections = [i \in Numbers |-> [t \in Times |-> Missing]]
    /\ alias \in [Numbers -> {NoTarget, Legacy}]
    /\ pc = [s \in Syncs |-> "idle"]
    /\ at = [s \in Syncs |-> 1]
    /\ target = [s \in Syncs |-> [i \in Numbers |-> NoTarget]]
    /\ current = [s \in Syncs |-> NoTarget]
    /\ dead = {} /\ unseen = {}
    /\ rivals = [s \in Syncs |-> {}]

-----------------------------------------------------------------------------
(* The catalogue *)

To(s, where) == pc' = [pc EXCEPT ![s] = where]

(* Reading is a transaction of its own.                                     *)
LoadCorpus(s) ==
    /\ Is(s, "idle")
    /\ To(s, "loaded")
    /\ UNCHANGED <<time, catalog, collections, alias, locals, dead, history>>

ReplaceCatalog(s) ==
    /\ Is(s, "loaded")
    /\ catalog' = s
    /\ rivals' = [rivals EXCEPT ![s] = {r \in Syncs : IsPublishing(r)}]
    /\ To(s, "publishing")
    /\ UNCHANGED <<time, collections, alias, locals, dead, unseen>>

-----------------------------------------------------------------------------
(* Publishing an index *)

Holds(i, t) == collections[i][t]
Exists(i, t) == t \in Times /\ Holds(i, t) # Missing
Built(s) == target[s][at[s]]

(* Qdrant drops the aliases of a collection with it; deleting what is not   *)
(* there does nothing.                                                      *)
Delete(i, t) ==
    /\ collections' = [collections EXCEPT ![i] =
                          IF t \in Times THEN [@ EXCEPT ![t] = Missing] ELSE @]
    /\ alias' = [alias EXCEPT ![i] = IF @ = t THEN NoTarget ELSE @]

NameCollection(s) ==
    /\ Is(s, "publishing")
    /\ target' = [target EXCEPT ![s][at[s]] = time]
    /\ To(s, "named")
    /\ UNCHANGED <<time, catalog, collections, alias, at, current, dead, history>>

(* After the embedding.  A collection that has the name already goes first, *)
(* unless the call that looks for it fails.                                 *)
ClearCollection(s) ==
    /\ Is(s, "named")
    /\ Delete(at[s], Built(s)) \/ UNCHANGED <<collections, alias>>
    /\ To(s, "cleared")
    /\ UNCHANGED <<time, catalog, locals, dead, history>>

CreateCollection(s) ==
    /\ Is(s, "cleared")
    /\ ~Exists(at[s], Built(s))
    /\ collections' = [collections EXCEPT ![at[s]][Built(s)] = {}]
    /\ To(s, "created")
    /\ UNCHANGED <<time, catalog, alias, locals, dead, history>>

UpsertPoints(s) ==
    /\ Is(s, "created")
    /\ Exists(at[s], Built(s))
    /\ collections' = [collections EXCEPT ![at[s]][Built(s)] = @ \cup {s}]
    /\ To(s, "filled")
    /\ UNCHANGED <<time, catalog, alias, locals, dead, history>>

(* Variant: a collection can be promoted before it has its points.          *)
ReadyWhenCreated(s) == Is(s, "created") \/ Is(s, "filled")
Ready(s) == Is(s, "filled")

(* The aliases are asked for, and then a collection of the alias' own name, *)
(* which is found as well when it is an alias that answers to it.  A lookup *)
(* that fails is one that found nothing.                                    *)
ResolveAlias(s) ==
    /\ Ready(s)
    /\ LET found == alias[at[s]] IN
       \/ found \in Times /\ current' = [current EXCEPT ![s] = found] /\ To(s, "resolved")
       \/ /\ current' = [current EXCEPT ![s] = NoTarget]
          /\ To(s, "resolved") \/ (found # NoTarget /\ To(s, "exposed"))
    /\ UNCHANGED <<time, catalog, collections, alias, at, target, dead, history>>

(* The collection found under the name of the alias is to make room.  When  *)
(* it is an alias that has the name, Qdrant may find nothing to delete or   *)
(* delete what it stands for; the lookup before it may fail.                *)
DeleteByName(s) ==
    /\ Is(s, "exposed")
    /\ Delete(at[s], alias[at[s]]) \/ UNCHANGED <<collections, alias>>
    /\ To(s, "resolved")
    /\ UNCHANGED <<time, catalog, locals, dead, history>>

(* update_collection_aliases replaces the alias in one call, and fails when *)
(* a collection has its name.                                               *)
SwitchAlias(s) ==
    /\ Is(s, "resolved")
    /\ Exists(at[s], Built(s)) /\ alias[at[s]] # Legacy
    /\ alias' = [alias EXCEPT ![at[s]] = Built(s)]
    /\ unseen' = unseen \cup {<<at[s], t>> : t \in {alias[at[s]]} \ {current[s], Built(s), NoTarget}}
    /\ To(s, "switched")
    /\ UNCHANGED <<time, catalog, collections, locals, dead, rivals>>

(* Variants: the old collection is kept; whatever is served now is deleted. *)
SupersededNone(s) == NoTarget
SupersededServed(s) == alias[at[s]]
(* The collection that the alias was found to point to before.              *)
Superseded(s) == IF current[s] = Built(s) THEN NoTarget ELSE current[s]

(* Variants: one index too many; one too few.                               *)
MoreToPublishOnce(s) == at[s] <= Len(Indexes)
MoreToPublishFewer(s) == at[s] + 1 < Len(Indexes)
MoreToPublish(s) == at[s] < Len(Indexes)

DeleteSuperseded(s) ==
    /\ Is(s, "switched")
    /\ Delete(at[s], Superseded(s))
    /\ current' = [current EXCEPT ![s] = NoTarget]
    /\ IF MoreToPublish(s)
       THEN at' = [at EXCEPT ![s] = @ + 1] /\ To(s, "publishing")
       ELSE UNCHANGED at /\ To(s, "done")
    /\ UNCHANGED <<time, catalog, target, dead, history>>

(* The process dies, or a call fails.                                       *)
Crash(s) ==
    /\ Running(s)
    /\ Cardinality(dead) < MaxCrashes
    /\ dead' = dead \cup {s}
    /\ UNCHANGED <<time, catalog, collections, alias, pc, locals, history>>

(* Seconds in which no collection is named are all the same.                *)
Tick ==
    /\ time < MaxTime
    /\ \E s \in Syncs, i \in Numbers : target[s][i] = time
    /\ time' = time + 1
    /\ UNCHANGED <<catalog, collections, alias, pc, locals, dead, history>>

Step(s) ==
    \/ LoadCorpus(s) \/ ReplaceCatalog(s) \/ NameCollection(s) \/ ClearCollection(s)
    \/ CreateCollection(s) \/ UpsertPoints(s) \/ ResolveAlias(s) \/ DeleteByName(s)
    \/ SwitchAlias(s) \/ DeleteSuperseded(s)

Next == Tick \/ \E s \in Syncs : Step(s) \/ Crash(s)

Spec == Init /\ [][Next]_vars

-----------------------------------------------------------------------------
(* Properties *)

TypeOK ==
    /\ time \in Times
    /\ catalog \in Syncs \cup {Seed}
    /\ collections \in [Numbers -> [Times -> (SUBSET Syncs) \cup {Missing}]]
    /\ alias \in [Numbers -> 0..Legacy]
    /\ pc \in [Syncs -> Publishing \cup {"idle", "loaded", "done"}]
    /\ at \in [Syncs -> Numbers]
    /\ target \in [Syncs -> [Numbers -> 0..MaxTime]] /\ current \in [Syncs -> 0..MaxTime]
    /\ dead \subseteq Syncs
    /\ unseen \subseteq Numbers \X Times /\ rivals \in [Syncs -> SUBSET Syncs]

(* Two synchronisations named their collections of an index in one second.  *)
Clash(i, t) == \E s, r \in Syncs : s # r /\ target[s][i] = t /\ target[r][i] = t

(* "A new collection, promoted at the end of the sync": whoever follows an  *)
(* alias finds the whole corpus of one synchronisation, while others are at *)
(* work, overtake one another or die, unless two chose the same second.     *)
AliasServes ==
    \A i \in Numbers : alias[i] \in Times =>
        /\ Exists(i, alias[i])
        /\ Clash(i, alias[i]) \/ \E s \in Syncs : Holds(i, alias[i]) = {s}

(* A served index is taken down only by a synchronisation that named its    *)
(* collection in the same second, or by one whose lookup of the aliases     *)
(* failed and which deletes by the name of the alias what stands there.     *)
NeverTakenDown ==
    [][\A i \in Numbers : alias[i] \in Times /\ alias'[i] \notin Times =>
          \/ Clash(i, alias[i])
          \/ \E s \in Syncs : at[s] = i /\ pc[s] = "exposed" /\ pc'[s] = "resolved"]_vars

(* A collection that is not served is the one a synchronisation, at work or *)
(* dead, has built or has yet to delete, or one that was replaced by a      *)
(* synchronisation that had not found it: nothing else is left behind.      *)
NothingLeftBehind ==
    \A i \in Numbers, t \in Times : Exists(i, t) /\ t # alias[i] =>
        \/ \E s \in Syncs : at[s] = i /\
              \/ pc[s] \in Building /\ target[s][i] = t
              \/ pc[s] = "switched" /\ current[s] = t /\ target[s][i] # t
        \/ <<i, t>> \in unseen

(* When a synchronisation has ended well, and neither another was still     *)
(* publishing when it replaced the catalogue nor one has replaced it since, *)
(* the indexes hold what the catalogue holds: their chunk identifiers are   *)
(* rows.                                                                    *)
IndexesMatchCatalog ==
    \A s \in Syncs : pc[s] = "done" /\ catalog = s /\ rivals[s] = {} =>
        \A i \in Numbers : alias[i] \in Times /\ Holds(i, alias[i]) = {s}
=============================================================================
