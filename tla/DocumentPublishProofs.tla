-------------------------- MODULE DocumentPublishProofs --------------------------
(***************************************************************************)
(* For any number of synchronisations, indexes and deaths, however the     *)
(* synchronisations overlap: what an alias serves, what takes it down,     *)
(* what is left behind, and when the indexes match the catalogue.          *)
(***************************************************************************)
EXTENDS DocumentPublish, TLAPS

(* Numbers and seconds are naturals.                                        *)
LEMMA Ranges ==
    /\ Len(Indexes) \in Nat \ {0} /\ Numbers = 1..Len(Indexes) /\ 1 \in Numbers
    /\ MaxTime \in Nat \ {0} /\ Times = 1..MaxTime /\ Legacy = MaxTime + 1
    /\ NoTarget = 0 /\ NoTarget \notin Times /\ Legacy \notin Times
    /\ Missing \notin SUBSET Syncs /\ Seed \notin Syncs
BY PublishAssumption DEF Numbers, Times, Legacy, Missing, Seed, NoTarget

-----------------------------------------------------------------------------
(* Types *)

LEMMA InitType == Init => TypeOK
BY Ranges DEF Init, TypeOK

(* Deleting a collection leaves the others and the aliases to them.         *)
LEMMA DeleteFacts ==
    ASSUME TypeOK, NEW k \in Numbers, NEW u \in 0..Legacy,
           Delete(k, u) \/ UNCHANGED <<collections, alias>>
    PROVE  /\ collections' \in [Numbers -> [Times -> (SUBSET Syncs) \cup {Missing}]]
           /\ alias' \in [Numbers -> 0..Legacy]
           /\ \A i \in Numbers, t \in Times :
                 /\ Holds(i, t)' # Holds(i, t) => i = k /\ t = u /\ Holds(i, t)' = Missing
                 /\ alias'[i] = t => alias[i] = t
                 /\ alias[i] = t /\ alias'[i] # t =>
                       i = k /\ t = u /\ alias'[i] = NoTarget /\ Holds(i, t)' = Missing
           /\ Delete(k, u) => \A t \in Times : t = u => Holds(k, t)' = Missing /\ alias'[k] # t
<1>1. /\ collections \in [Numbers -> [Times -> (SUBSET Syncs) \cup {Missing}]]
      /\ alias \in [Numbers -> 0..Legacy]
  BY DEF TypeOK
<1>2. CASE Delete(k, u)
  <2>1. /\ \A i \in Numbers : alias'[i] = IF i = k /\ alias[i] = u THEN NoTarget ELSE alias[i]
        /\ alias' \in [Numbers -> 0..Legacy]
    BY <1>1, <1>2, Ranges DEF Delete
  <2>2. /\ \A i \in Numbers, t \in Times : Holds(i, t)' = IF i = k /\ t = u THEN Missing ELSE Holds(i, t)
        /\ collections' \in [Numbers -> [Times -> (SUBSET Syncs) \cup {Missing}]]
    <3>1. [collections[k] EXCEPT ![u] = Missing] \in [Times -> (SUBSET Syncs) \cup {Missing}]
      BY <1>1
    <3> QED
      BY <1>1, <1>2, <3>1 DEF Delete, Holds
  <2> QED
    BY <2>1, <2>2, Ranges
<1>3. CASE UNCHANGED <<collections, alias>>
  <2>1. ~Delete(k, u) \/ \A t \in Times : t = u => Holds(k, t)' = Missing /\ alias'[k] # t
    <3>1. Delete(k, u) /\ u \in Times => collections'[k][u] = Missing /\ alias'[k] # u
      BY <1>1, Ranges DEF Delete
    <3> QED
      BY <3>1 DEF Holds
  <2> QED
    BY <1>1, <1>3, <2>1 DEF Holds
<1> QED
  BY <1>2, <1>3

(* What a sync deletes is in the range of the lemma.                        *)
LEMMA Deletes ==
    ASSUME TypeOK, NEW s \in Syncs
    PROVE  /\ at[s] \in Numbers /\ Built(s) \in 0..MaxTime /\ current[s] \in 0..MaxTime
           /\ Built(s) \in 0..Legacy /\ alias[at[s]] \in 0..Legacy /\ Superseded(s) \in 0..Legacy
BY Ranges DEF TypeOK, Built, Superseded

(* Writing to one collection.                                               *)
LEMMA WriteFacts ==
    ASSUME TypeOK, NEW k \in Numbers, NEW u \in Times, NEW points \in SUBSET Syncs,
           collections' = [collections EXCEPT ![k][u] = points]
    PROVE  /\ collections' \in [Numbers -> [Times -> (SUBSET Syncs) \cup {Missing}]]
           /\ Holds(k, u)' = points
           /\ \A i \in Numbers, t \in Times : i # k \/ t # u => Holds(i, t)' = Holds(i, t)
<1>1. collections \in [Numbers -> [Times -> (SUBSET Syncs) \cup {Missing}]]
  BY DEF TypeOK
<1>2. [collections[k] EXCEPT ![u] = points] \in [Times -> (SUBSET Syncs) \cup {Missing}]
  BY <1>1
<1> QED
  BY <1>1, <1>2 DEF Holds

(* The steps that write to a collection.                                    *)
LEMMA CreateFacts ==
    ASSUME TypeOK, NEW s \in Syncs, CreateCollection(s), NEW k \in Numbers, NEW u \in Times, k = at[s], u = Built(s)
    PROVE  /\ collections' \in [Numbers -> [Times -> (SUBSET Syncs) \cup {Missing}]]
           /\ Holds(k, u) = Missing /\ Holds(k, u)' = {}
           /\ \A i \in Numbers, t \in Times : i # k \/ t # u => Holds(i, t)' = Holds(i, t)
<1>1. {} \in SUBSET Syncs /\ Holds(k, u) = Missing /\ collections' = [collections EXCEPT ![k][u] = {}]
  BY DEF CreateCollection, Exists
<1> QED
  BY <1>1, WriteFacts

LEMMA UpsertFacts ==
    ASSUME TypeOK, NEW s \in Syncs, UpsertPoints(s), NEW k \in Numbers, NEW u \in 0..Legacy, k = at[s], u = Built(s)
    PROVE  /\ collections' \in [Numbers -> [Times -> (SUBSET Syncs) \cup {Missing}]]
           /\ u \in Times /\ Holds(k, u) # Missing
           /\ Holds(k, u)' = Holds(k, u) \cup {s} /\ Holds(k, u)' # Missing
           /\ \A i \in Numbers, t \in Times : i # k \/ t # u => Holds(i, t)' = Holds(i, t)
<1>1. u \in Times /\ Holds(k, u) # Missing
  BY DEF UpsertPoints, Exists
<1>2. PICK points : points = Holds(k, u) \cup {s}
  OBVIOUS
<1>3. points \in SUBSET Syncs
  BY <1>1, <1>2 DEF TypeOK, Holds
<1>4. collections' = [collections EXCEPT ![k][u] = points]
  BY <1>2 DEF UpsertPoints, Holds
<1>5. points # Missing
  BY <1>3, Ranges
<1>6. /\ collections' \in [Numbers -> [Times -> (SUBSET Syncs) \cup {Missing}]]
      /\ Holds(k, u)' = points
      /\ \A i \in Numbers, t \in Times : i # k \/ t # u => Holds(i, t)' = Holds(i, t)
  BY <1>1, <1>3, <1>4, WriteFacts
<1> QED
  BY <1>1, <1>2, <1>5, <1>6

(* A step keeps the types.                                                  *)
LEMMA StepType == ASSUME TypeOK, NEW s \in Syncs, Step(s) PROVE TypeOK'
<1> USE DEF To, locals, history
<1>0. PICK k \in Numbers, b \in 0..Legacy, v \in 0..Legacy, w \in 0..Legacy :
         k = at[s] /\ b = Built(s) /\ v = alias[at[s]] /\ w = Superseded(s)
  BY Deletes
<1>1. CASE LoadCorpus(s) \/ ReplaceCatalog(s)
  <2>1. CASE LoadCorpus(s)
    BY <2>1 DEF LoadCorpus, TypeOK
  <2>2. CASE ReplaceCatalog(s)
    <3>1. {r \in Syncs : IsPublishing(r)} \in SUBSET Syncs
      OBVIOUS
    <3>2. rivals' \in [Syncs -> SUBSET Syncs]
      BY <2>2, <3>1 DEF ReplaceCatalog, TypeOK
    <3> QED
      BY <2>2, <3>2 DEF ReplaceCatalog, TypeOK, Publishing
  <2> QED
    BY <1>1, <2>1, <2>2
<1>2. CASE NameCollection(s)
  <2>1. [target[s] EXCEPT ![at[s]] = time] \in [Numbers -> 0..MaxTime]
    BY Ranges DEF TypeOK
  <2> QED
    BY <1>2, <2>1 DEF NameCollection, TypeOK, Publishing
<1>3. CASE ClearCollection(s)
  <2>1. /\ collections' \in [Numbers -> [Times -> (SUBSET Syncs) \cup {Missing}]]
        /\ alias' \in [Numbers -> 0..Legacy]
    BY <1>0, <1>3, DeleteFacts DEF ClearCollection
  <2> QED
    BY <1>3, <2>1 DEF ClearCollection, TypeOK, Publishing
<1>4. CASE CreateCollection(s)
  <2>1. collections' \in [Numbers -> [Times -> (SUBSET Syncs) \cup {Missing}]]
    <3>1. [collections[at[s]] EXCEPT ![Built(s)] = {}] \in [Times -> (SUBSET Syncs) \cup {Missing}]
      BY DEF TypeOK
    <3> QED
      BY <1>4, <3>1 DEF CreateCollection, TypeOK
  <2> QED
    BY <1>4, <2>1 DEF CreateCollection, TypeOK, Publishing, Building
<1>5. CASE UpsertPoints(s)
  <2>1. collections' \in [Numbers -> [Times -> (SUBSET Syncs) \cup {Missing}]]
    BY <1>0, <1>5, UpsertFacts
  <2> QED
    BY <1>5, <2>1 DEF UpsertPoints, TypeOK, Publishing, Building
<1>6. CASE ResolveAlias(s)
  <2>1. \E x \in 0..MaxTime : current' = [current EXCEPT ![s] = x]
    BY <1>6, Ranges DEF ResolveAlias
  <2>2. current' \in [Syncs -> 0..MaxTime]
    BY <2>1 DEF TypeOK
  <2>3. \E stage \in {"resolved", "exposed"} : pc' = [pc EXCEPT ![s] = stage]
    BY <1>6 DEF ResolveAlias
  <2> QED
    BY <1>6, <2>2, <2>3 DEF ResolveAlias, TypeOK, Publishing, Building
<1>7. CASE DeleteByName(s)
  <2>1. /\ collections' \in [Numbers -> [Times -> (SUBSET Syncs) \cup {Missing}]]
        /\ alias' \in [Numbers -> 0..Legacy]
    BY <1>0, <1>7, DeleteFacts DEF DeleteByName
  <2> QED
    BY <1>7, <2>1 DEF DeleteByName, TypeOK, Publishing, Building
<1>8. CASE SwitchAlias(s)
  <2>1. at[s] \in Numbers /\ alias[at[s]] \in 0..Legacy /\ alias[at[s]] # Legacy /\ Built(s) \in 0..Legacy
    BY <1>8, Deletes DEF SwitchAlias
  <2>2. {alias[at[s]]} \ {current[s], Built(s), NoTarget} \subseteq Times
    BY <2>1, Ranges
  <2>3. unseen' \subseteq Numbers \X Times
    BY <1>8, <2>1, <2>2 DEF SwitchAlias, TypeOK
  <2> QED
    BY <1>8, <2>1, <2>3 DEF SwitchAlias, TypeOK, Publishing
<1>9. CASE DeleteSuperseded(s)
  <2>1. /\ collections' \in [Numbers -> [Times -> (SUBSET Syncs) \cup {Missing}]]
        /\ alias' \in [Numbers -> 0..Legacy]
    BY <1>0, <1>9, DeleteFacts DEF DeleteSuperseded
  <2>2. at' \in [Syncs -> Numbers] /\ current' \in [Syncs -> 0..MaxTime]
    <3>1. at[s] < Len(Indexes) => at[s] + 1 \in Numbers
      BY <1>0, Ranges
    <3>2. NoTarget \in 0..MaxTime
      BY Ranges
    <3> QED
      BY <1>9, <3>1, <3>2 DEF DeleteSuperseded, MoreToPublish, TypeOK
  <2> QED
    BY <1>9, <2>1, <2>2 DEF DeleteSuperseded, TypeOK, Publishing
<1> QED
  BY <1>1, <1>2, <1>3, <1>4, <1>5, <1>6, <1>7, <1>8, <1>9 DEF Step

LEMMA NextType == TypeOK /\ [Next]_vars => TypeOK'
<1> SUFFICES ASSUME TypeOK, [Next]_vars PROVE TypeOK'
  OBVIOUS
<1>1. CASE Tick
  BY <1>1, Ranges DEF Tick, TypeOK, locals, history
<1>2. ASSUME NEW s \in Syncs, Crash(s) PROVE TypeOK'
  BY <1>2 DEF Crash, TypeOK, locals, history
<1>3. CASE UNCHANGED vars
  BY <1>3 DEF vars, TypeOK, locals, history
<1> QED
  BY <1>1, <1>2, <1>3, StepType DEF Next

(* Every alias, collection and clock is well formed.                        *)
THEOREM TypeCorrect == Spec => []TypeOK
BY InitType, NextType, PTL DEF Spec

-----------------------------------------------------------------------------
(* What is left behind *)

(* A step is of one synchronisation.                                        *)
LEMMA Others ==
    ASSUME TypeOK, NEW s \in Syncs, Step(s)
    PROVE  /\ \A r \in Syncs \ {s} : /\ pc'[r] = pc[r] /\ at'[r] = at[r]
                                     /\ target'[r] = target[r] /\ current'[r] = current[r]
           /\ UNCHANGED <<time, dead>> /\ unseen \subseteq unseen' /\ s \notin dead
<1> USE DEF To, locals, history, Is
<1>1. /\ \E x : pc' = [pc EXCEPT ![s] = x]
      /\ at' = at \/ \E x : at' = [at EXCEPT ![s] = x]
      /\ target' = target \/ \E x : target' = [target EXCEPT ![s] = x]
      /\ current' = current \/ \E x : current' = [current EXCEPT ![s] = x]
      /\ UNCHANGED <<time, dead>> /\ unseen \subseteq unseen' /\ s \notin dead
  <2>1. CASE LoadCorpus(s) \/ ReplaceCatalog(s) \/ ClearCollection(s) \/ CreateCollection(s)
             \/ UpsertPoints(s) \/ DeleteByName(s)
    BY <2>1 DEF LoadCorpus, ReplaceCatalog, ClearCollection, CreateCollection, UpsertPoints, DeleteByName
  <2>2. CASE NameCollection(s)
    <3>1. target' = [target EXCEPT ![s] = [@ EXCEPT ![at[s]] = time]]
      BY <2>2 DEF NameCollection
    <3> QED
      BY <2>2, <3>1 DEF NameCollection
  <2>3. CASE ResolveAlias(s)
    BY <2>3 DEF ResolveAlias, Ready
  <2>4. CASE SwitchAlias(s)
    BY <2>4 DEF SwitchAlias
  <2>5. CASE DeleteSuperseded(s)
    BY <2>5 DEF DeleteSuperseded
  <2> QED
    BY <2>1, <2>2, <2>3, <2>4, <2>5 DEF Step
<1> QED
  BY <1>1 DEF TypeOK

(* A collection, of no alias, that a synchronisation will still deal with.  *)
Work(s, i, t) ==
    /\ at[s] = i
    /\ \/ pc[s] \in Building /\ target[s][i] = t
       \/ pc[s] = "switched" /\ current[s] = t /\ target[s][i] # t

Left(i, t) == Holds(i, t) # Missing /\ alias[i] # t
Explained(i, t) == (\E s \in Syncs : Work(s, i, t)) \/ <<i, t>> \in unseen

LEMMA LeftExplained == NothingLeftBehind <=> \A i \in Numbers, t \in Times : Left(i, t) => Explained(i, t)
BY DEF NothingLeftBehind, Left, Explained, Work, Exists

(* What was left and explained before a step is so after it if the one      *)
(* synchronisation that made the step had nothing to do with it, or still   *)
(* has.                                                                     *)
LEMMA StillExplained ==
    ASSUME TypeOK, NEW s \in Syncs, Step(s), NEW i \in Numbers, NEW t \in Times, Explained(i, t),
           Work(s, i, t) => Work(s, i, t)'
    PROVE  Explained(i, t)'
<1>1. \A r \in Syncs \ {s} : Work(r, i, t) => Work(r, i, t)'
  BY Others DEF Work
<1> QED
  BY <1>1, Others DEF Explained

LEMMA StepExplains ==
    ASSUME TypeOK, NEW s \in Syncs, Step(s), \A i \in Numbers, t \in Times : Left(i, t) => Explained(i, t),
           NEW i \in Numbers, NEW t \in Times, Left(i, t)'
    PROVE  Explained(i, t)'
<1> USE DEF To, locals, Is
<1>0. PICK k \in Numbers, b \in 0..Legacy, v \in 0..Legacy, w \in 0..Legacy :
         k = at[s] /\ b = Built(s) /\ v = alias[at[s]] /\ w = Superseded(s)
  BY Deletes
<1>1. Left(i, t) /\ (Work(s, i, t) => Work(s, i, t)') => Explained(i, t)'
  BY StillExplained
<1>2. CASE LoadCorpus(s) \/ ReplaceCatalog(s) \/ NameCollection(s)
  <2>1. Left(i, t)
    BY <1>2 DEF LoadCorpus, ReplaceCatalog, NameCollection, Left, Holds
  <2>2. ~Work(s, i, t)
    BY <1>2 DEF LoadCorpus, ReplaceCatalog, NameCollection, Work, Building
  <2> QED
    BY <1>1, <2>1, <2>2
<1>3. CASE ClearCollection(s) \/ DeleteByName(s)
  <2>1. \E u \in 0..Legacy : Delete(k, u) \/ UNCHANGED <<collections, alias>>
    BY <1>0, <1>3 DEF ClearCollection, DeleteByName
  <2>2. Left(i, t)
    BY <2>1, DeleteFacts DEF Left
  <2>3. Work(s, i, t) => Work(s, i, t)'
    BY <1>3 DEF ClearCollection, DeleteByName, Work, Building, TypeOK
  <2> QED
    BY <1>1, <2>2, <2>3
<1>4. CASE CreateCollection(s) \/ UpsertPoints(s)
  <2>1. /\ UNCHANGED <<alias, at, target>> /\ pc'[s] \in Building
        /\ Work(s, i, t) => Work(s, i, t)'
    BY <1>4 DEF CreateCollection, UpsertPoints, Work, Building, TypeOK
  <2>2. CASE i = k /\ t = b
    BY <1>0, <2>1, <2>2 DEF Explained, Work, Built
  <2>3. CASE ~(i = k /\ t = b)
    <3>1. Holds(i, t)' = Holds(i, t)
      <4>1. CASE UpsertPoints(s)
        BY <1>0, <2>3, <4>1, UpsertFacts
      <4>2. CASE CreateCollection(s)
        <5>1. collections' = [collections EXCEPT ![k][b] = {}]
          BY <1>0, <4>2 DEF CreateCollection
        <5> QED
          BY <2>3, <5>1 DEF Holds, TypeOK
      <4> QED
        BY <1>4, <4>1, <4>2
    <3> QED
      BY <1>1, <2>1, <3>1 DEF Left
  <2> QED
    BY <2>2, <2>3
<1>5. CASE ResolveAlias(s)
  <2>1. Left(i, t)
    BY <1>5 DEF ResolveAlias, Left, Holds
  <2>2. UNCHANGED <<at, target>> /\ \E stage \in Building : pc' = [pc EXCEPT ![s] = stage]
    BY <1>5 DEF ResolveAlias, Building
  <2>3. pc[s] = "filled"
    BY <1>5 DEF ResolveAlias, Ready
  <2>4. Work(s, i, t) => Work(s, i, t)'
    BY <2>2, <2>3 DEF Work, TypeOK
  <2> QED
    BY <1>1, <2>1, <2>4
<1>6. CASE SwitchAlias(s)
  <2>1. /\ alias'[k] = b /\ \A j \in Numbers \ {k} : alias'[j] = alias[j]
        /\ UNCHANGED <<collections, at, target, current>> /\ pc[s] = "resolved" /\ pc'[s] = "switched"
        /\ unseen' = unseen \cup {<<k, x>> : x \in {alias[k]} \ {current[s], b, NoTarget}}
    BY <1>0, <1>6 DEF SwitchAlias, TypeOK
  <2>2. CASE Left(i, t)
    <3>1. i = k => t # b
      BY <2>1 DEF Left
    <3>2. ~Work(s, i, t)
      BY <1>0, <2>1, <3>1 DEF Work, Built, Building
    <3> QED
      BY <1>1, <2>2, <3>2
  <2>3. CASE ~Left(i, t)
    <3>1. i = k /\ alias[k] = t /\ t # b /\ t # NoTarget
      BY <2>1, <2>3, Ranges DEF Left, Holds
    <3>2. CASE t = current[s]
      <4>1. Work(s, k, t)'
        BY <1>0, <2>1, <3>1, <3>2 DEF Work, Built
      <4> QED
        BY <3>1, <4>1 DEF Explained
    <3>3. CASE t # current[s]
      BY <2>1, <3>1, <3>3 DEF Explained
    <3> QED
      BY <3>2, <3>3
  <2> QED
    BY <2>2, <2>3
<1>7. CASE DeleteSuperseded(s)
  <2>1. Delete(k, w) /\ pc[s] = "switched"
    BY <1>0, <1>7 DEF DeleteSuperseded
  <2>2. Left(i, t)
    BY <2>1, DeleteFacts DEF Left
  <2>3. ~Work(s, i, t)
    <3>1. Work(s, i, t) => i = k /\ t = w
      BY <1>0, <2>1 DEF Work, Superseded, Built, Building
    <3> QED
      BY <2>1, <3>1, DeleteFacts DEF Left
  <2> QED
    BY <1>1, <2>2, <2>3
<1> QED
  BY <1>2, <1>3, <1>4, <1>5, <1>6, <1>7 DEF Step

LEMMA NextExplains == TypeOK /\ NothingLeftBehind /\ [Next]_vars => NothingLeftBehind'
<1> SUFFICES ASSUME TypeOK, NothingLeftBehind, [Next]_vars PROVE NothingLeftBehind'
  OBVIOUS
<1>1. ASSUME NEW s \in Syncs, Step(s) PROVE NothingLeftBehind'
  <2>1. \A i \in Numbers, t \in Times : Left(i, t)' => Explained(i, t)'
    BY <1>1, LeftExplained, StepExplains
  <2> QED
    BY <2>1 DEF NothingLeftBehind, Left, Explained, Work, Exists
<1>2. ASSUME NEW s \in Syncs, Tick \/ Crash(s) \/ UNCHANGED vars PROVE NothingLeftBehind'
  <2>1. UNCHANGED <<collections, alias, pc, at, target, current, unseen>>
    BY <1>2 DEF Tick, Crash, vars, locals, history
  <2> QED
    BY <2>1 DEF NothingLeftBehind, Exists, Holds
<1>3. CASE Tick \/ UNCHANGED vars
  <2>1. UNCHANGED <<collections, alias, pc, at, target, current, unseen>>
    BY <1>3 DEF Tick, vars, locals, history
  <2> QED
    BY <2>1 DEF NothingLeftBehind, Exists, Holds
<1> QED
  BY <1>1, <1>2, <1>3 DEF Next

(* A collection that is not served is the one a synchronisation, at work or *)
(* dead, has built or has yet to delete, or one that was replaced by a      *)
(* synchronisation that had not found it.                                   *)
THEOREM LeftoversExplained == Spec => []NothingLeftBehind
<1>1. Init => NothingLeftBehind
  BY DEF Init, NothingLeftBehind, Exists, Holds
<1> QED
  BY <1>1, NextExplains, TypeCorrect, PTL DEF Spec

-----------------------------------------------------------------------------
(* What an alias serves *)

Switched(s, i) == i < at[s] \/ (i = at[s] /\ pc[s] \in {"switched", "done"})
Unnamed(s, i) == i > at[s] \/ (i = at[s] /\ pc[s] \in {"idle", "loaded", "publishing"})

(* A name is chosen once, and before it is used.                            *)
Named ==
    \A s \in Syncs :
        /\ \A i \in Numbers : Unnamed(s, i) => target[s][i] = NoTarget
        /\ pc[s] \in Publishing \ {"publishing"} => Built(s) \in Times

AliasExists == \A i \in Numbers, t \in Times : alias[i] = t => Holds(i, t) # Missing

(* A collection is promoted once, by the synchronisation that built it; it  *)
(* is found and deleted only after that, and no longer served when it is.   *)
Uses(i, t) == alias[i] = t \/ \E r \in Syncs : at[r] = i /\ current[r] = t
Site(i, t) ==
    /\ \A s \in Syncs : target[s][i] = t =>
          /\ at[s] = i /\ pc[s] = "created" => Holds(i, t) = {}
          /\ at[s] = i /\ pc[s] \in {"filled", "resolved", "exposed"} => Holds(i, t) = {s}
          /\ alias[i] = t => Holds(i, t) = {s}
    /\ Uses(i, t) => \E s \in Syncs : target[s][i] = t /\ Switched(s, i)
    /\ \A r \in Syncs : pc[r] = "switched" /\ at[r] = i /\ current[r] = t /\ target[r][i] # t => alias[i] # t

SInv == TypeOK /\ Named /\ AliasExists /\ \A i \in Numbers, t \in Times : Clash(i, t) \/ Site(i, t)

LEMMA InitSites == Init => SInv
<1> SUFFICES ASSUME Init PROVE SInv
  OBVIOUS
<1>1. TypeOK
  BY InitType
<1>2. Named /\ AliasExists
  BY Ranges DEF Init, Named, AliasExists, Publishing, Building
<1>3. ASSUME NEW i \in Numbers, NEW t \in Times PROVE Site(i, t)
  BY <1>3, Ranges DEF Init, Site, Uses
<1> QED
  BY <1>1, <1>2, <1>3 DEF SInv

(* Names and promotions are for good.                                       *)
LEMMA NamesStay ==
    ASSUME SInv, NEW s \in Syncs, Step(s)
    PROVE  /\ Named'
           /\ \A r \in Syncs, i \in Numbers, t \in Times :
                 /\ target[r][i] = t => target'[r][i] = t
                 /\ Switched(r, i) => Switched(r, i)'
                 /\ Clash(i, t) => Clash(i, t)'
<1> USE DEF To, locals, Is
<1>0. PICK k \in Numbers : k = at[s] /\ Built(s) = target[s][k]
  BY Deletes DEF SInv, Built
<1>1. /\ TypeOK /\ Named
      /\ \A r \in Syncs \ {s} : /\ pc'[r] = pc[r] /\ at'[r] = at[r] /\ target'[r] = target[r]
  BY Others DEF SInv
<1>2. /\ \A i \in Numbers, t \in Times : target[s][i] = t => target'[s][i] = t
      /\ \A i \in Numbers : Switched(s, i) => Switched(s, i)'
      /\ \A i \in Numbers : Unnamed(s, i)' => target'[s][i] = NoTarget
      /\ pc'[s] \in Publishing \ {"publishing"} => target'[s][at'[s]] \in Times
  <2>1. CASE NameCollection(s)
    <3>1. /\ at'[s] = k /\ pc[s] = "publishing" /\ pc'[s] = "named" /\ time \in Times
          /\ \A i \in Numbers : target'[s][i] = IF i = k THEN time ELSE target[s][i]
      BY <1>0, <1>1, <2>1 DEF NameCollection, TypeOK
    <3>2. target[s][k] = NoTarget
      BY <1>0, <1>1, <3>1 DEF Named, Unnamed
    <3>3. k \in Nat /\ \A i \in Numbers : i \in Nat
      BY Ranges
    <3> QED
      BY <1>0, <1>1, <3>1, <3>2, <3>3, Ranges DEF Named, Unnamed, Switched
  <2>2. CASE DeleteSuperseded(s)
    <3>1. /\ target' = target /\ pc[s] = "switched"
          /\ \/ at'[s] = k + 1 /\ pc'[s] = "publishing"
             \/ at'[s] = k /\ pc'[s] = "done"
      BY <1>0, <1>1, <2>2 DEF DeleteSuperseded, TypeOK
    <3>2. k \in Nat /\ \A i \in Numbers : i \in Nat
      BY Ranges
    <3> QED
      BY <1>0, <1>1, <3>1, <3>2 DEF Named, Unnamed, Switched, Publishing, Building
  <2>3. ASSUME ~NameCollection(s), ~DeleteSuperseded(s)
        PROVE  /\ UNCHANGED <<at, target>>
               /\ \/ pc[s] = "idle" /\ pc'[s] = "loaded"
                  \/ pc[s] = "loaded" /\ pc'[s] = "publishing"
                  \/ pc[s] \in {"named", "cleared"} \cup Building
                     /\ pc'[s] \in {"cleared", "switched"} \cup Building
    <3>1. CASE LoadCorpus(s) \/ ReplaceCatalog(s)
      BY <1>1, <3>1 DEF LoadCorpus, ReplaceCatalog, TypeOK
    <3>2. CASE ClearCollection(s) \/ CreateCollection(s) \/ UpsertPoints(s) \/ DeleteByName(s) \/ SwitchAlias(s)
      BY <1>1, <3>2 DEF ClearCollection, CreateCollection, UpsertPoints, DeleteByName, SwitchAlias, TypeOK, Building
    <3>3. CASE ResolveAlias(s)
      <4>1. UNCHANGED <<at, target>> /\ pc[s] = "filled" /\ \E stage \in Building : pc' = [pc EXCEPT ![s] = stage]
        BY <3>3 DEF ResolveAlias, Ready, Building
      <4> QED
        BY <1>1, <4>1 DEF TypeOK, Building
    <3> QED
      BY <2>3, <3>1, <3>2, <3>3 DEF Step
  <2>4. ASSUME ~NameCollection(s), ~DeleteSuperseded(s)
        PROVE  /\ \A i \in Numbers : Switched(s, i) => Switched(s, i)'
               /\ \A i \in Numbers : Unnamed(s, i)' => Unnamed(s, i)
               /\ pc'[s] \in Publishing \ {"publishing"} => pc[s] \in Publishing \ {"publishing"}
    BY <2>3, <2>4 DEF Switched, Unnamed, Publishing, Building
  <2>5. ASSUME ~NameCollection(s), ~DeleteSuperseded(s)
        PROVE  UNCHANGED <<at, target>>
    BY <2>3, <2>5
  <2> QED
    BY <1>0, <1>1, <2>1, <2>2, <2>4, <2>5 DEF Named
<1>3. Named'
  BY <1>1, <1>2 DEF Named, Unnamed, Built
<1>4. \A r \in Syncs, i \in Numbers, t \in Times : target[r][i] = t => target'[r][i] = t
  BY <1>1, <1>2
<1>5. \A r \in Syncs, i \in Numbers : Switched(r, i) => Switched(r, i)'
  BY <1>1, <1>2 DEF Switched
<1> QED
  BY <1>3, <1>4, <1>5 DEF Clash

(* The served collection exists, whatever two synchronisations called alike. *)
LEMMA StepAliasExists == ASSUME SInv, NEW s \in Syncs, Step(s) PROVE AliasExists'
<1>0. PICK k \in Numbers, b \in 0..Legacy, v \in 0..Legacy, w \in 0..Legacy :
         k = at[s] /\ b = Built(s) /\ v = alias[at[s]] /\ w = Superseded(s)
  BY Deletes DEF SInv
<1>1. TypeOK /\ AliasExists
  BY DEF SInv
<1> SUFFICES ASSUME NEW i \in Numbers, NEW t \in Times, alias'[i] = t PROVE Holds(i, t)' # Missing
  BY DEF AliasExists
<1>2. CASE LoadCorpus(s) \/ ReplaceCatalog(s) \/ NameCollection(s) \/ ResolveAlias(s)
  BY <1>1, <1>2 DEF LoadCorpus, ReplaceCatalog, NameCollection, ResolveAlias, AliasExists, Holds
<1>3. CASE ClearCollection(s) \/ DeleteByName(s) \/ DeleteSuperseded(s)
  <2>1. PICK u \in 0..Legacy : Delete(k, u) \/ UNCHANGED <<collections, alias>>
    BY <1>0, <1>3 DEF ClearCollection, DeleteByName, DeleteSuperseded
  <2>2. alias[i] = t
    BY <1>1, <2>1, DeleteFacts
  <2>3. CASE UNCHANGED <<collections, alias>>
    BY <1>1, <2>2, <2>3 DEF AliasExists, Holds
  <2>4. CASE Delete(k, u)
    BY <1>1, <2>2, <2>4, DeleteFacts DEF AliasExists
  <2> QED
    BY <2>1, <2>3, <2>4
<1>4. CASE CreateCollection(s) \/ UpsertPoints(s)
  <2>1. alias[i] = t /\ Holds(i, t) # Missing
    BY <1>1, <1>4 DEF CreateCollection, UpsertPoints, AliasExists
  <2>2. CASE CreateCollection(s)
    <3>1. collections' = [collections EXCEPT ![k][b] = {}] /\ {} # Missing
      BY <1>0, <2>2, Ranges DEF CreateCollection
    <3> QED
      BY <1>1, <2>1, <3>1 DEF Holds, TypeOK
  <2>3. CASE UpsertPoints(s)
    BY <1>0, <1>1, <2>1, <2>3, UpsertFacts
  <2> QED
    BY <1>4, <2>2, <2>3
<1>5. CASE SwitchAlias(s)
  BY <1>1, <1>5 DEF SwitchAlias, AliasExists, Exists, Holds, TypeOK
<1> QED
  BY <1>2, <1>3, <1>4, <1>5 DEF Step

(* What two synchronisations did not call alike is of one of them only.     *)
LEMMA OneOwner ==
    ASSUME NEW i, NEW t, ~Clash(i, t), NEW s \in Syncs, NEW r \in Syncs, target[s][i] = t, target[r][i] = t
    PROVE  s = r
BY DEF Clash

(* A synchronisation that has not promoted its collection finds nobody      *)
(* served by it, and nobody that found it.                                  *)
LEMMA NotUsed ==
    ASSUME SInv, NEW i \in Numbers, NEW t \in Times, ~Clash(i, t), NEW s \in Syncs, target[s][i] = t, ~Switched(s, i)
    PROVE  ~Uses(i, t)
BY OneOwner DEF SInv, Site

(* What a step does not touch it leaves as it was.                          *)
LEMMA SiteUntouched ==
    ASSUME SInv, NEW s \in Syncs, Step(s), NEW i \in Numbers, NEW t \in Times, Site(i, t),
           Holds(i, t)' = Holds(i, t), alias'[i] = t => alias[i] = t,
           \A r \in Syncs : target'[r][i] = t => target[r][i] = t,
           at'[s] = i /\ current'[s] = t => Uses(i, t),
           target[s][i] = t /\ at'[s] = i =>
              /\ pc'[s] = "created" => Holds(i, t) = {}
              /\ pc'[s] \in {"filled", "resolved", "exposed"} => Holds(i, t) = {s},
           pc'[s] = "switched" /\ at'[s] = i /\ current'[s] = t /\ target[s][i] # t => alias'[i] # t
    PROVE  Site(i, t)'
<1>1. \A r \in Syncs \ {s} : /\ pc'[r] = pc[r] /\ at'[r] = at[r]
                             /\ target'[r] = target[r] /\ current'[r] = current[r]
  BY Others DEF SInv
<1>2. \A r \in Syncs : (target[r][i] = t <=> target'[r][i] = t) /\ (Switched(r, i) => Switched(r, i)')
  BY NamesStay
<1>3. Uses(i, t)' => Uses(i, t)
  BY <1>1 DEF Uses
<1>4. Uses(i, t)' => \E r \in Syncs : target'[r][i] = t /\ Switched(r, i)'
  BY <1>2, <1>3 DEF Site
<1>5. \A r \in Syncs : target'[r][i] = t =>
          /\ at'[r] = i /\ pc'[r] = "created" => Holds(i, t)' = {}
          /\ at'[r] = i /\ pc'[r] \in {"filled", "resolved", "exposed"} => Holds(i, t)' = {r}
          /\ alias'[i] = t => Holds(i, t)' = {r}
  <2> TAKE r \in Syncs
  <2>1. CASE r = s
    BY <1>2, <2>1 DEF Site
  <2>2. CASE r # s
    BY <1>1, <1>2, <2>2 DEF Site
  <2> QED
    BY <2>1, <2>2
<1>6. \A r \in Syncs : pc'[r] = "switched" /\ at'[r] = i /\ current'[r] = t /\ target'[r][i] # t => alias'[i] # t
  <2> TAKE r \in Syncs
  <2>1. CASE r = s
    BY <1>2, <2>1
  <2>2. CASE r # s
    BY <1>1, <1>2, <2>2 DEF Site
  <2> QED
    BY <2>1, <2>2
<1> QED
  BY <1>4, <1>5, <1>6 DEF Site

(* A collection that goes, once it is not served and all have promoted      *)
(* that could have built it, leaves nothing to say.                         *)
LEMMA SiteGone ==
    ASSUME SInv, NEW s \in Syncs, Step(s), NEW i \in Numbers, NEW t \in Times, Site(i, t), alias'[i] # t,
           target' = target, at'[s] = i /\ current'[s] = t => Uses(i, t),
           \A r \in Syncs : target[r][i] = t => (at'[r] = i => pc'[r] \notin {"created", "filled", "resolved", "exposed"})
    PROVE  Site(i, t)'
<1>1. \A r \in Syncs \ {s} : at'[r] = at[r] /\ current'[r] = current[r]
  BY Others DEF SInv
<1>2. Uses(i, t)' => Uses(i, t)
  BY <1>1 DEF Uses
<1>3. Uses(i, t)' => \E r \in Syncs : target'[r][i] = t /\ Switched(r, i)'
  BY <1>2, NamesStay DEF Site
<1> QED
  BY <1>3 DEF Site

LEMMA StepSites ==
    ASSUME SInv, NEW s \in Syncs, Step(s), NEW i \in Numbers, NEW t \in Times, ~Clash(i, t)'
    PROVE  Site(i, t)'
<1> USE DEF To, locals, Is
<1>0. PICK k \in Numbers, b \in 0..Legacy, v \in 0..Legacy, w \in 0..Legacy :
         k = at[s] /\ b = Built(s) /\ v = alias[k] /\ w = Superseded(s) /\ b = target[s][k]
  BY Deletes DEF SInv, Built
<1>1. TypeOK /\ ~Clash(i, t) /\ Site(i, t) /\ k \in Nat /\ i \in Nat
  BY NamesStay, Ranges DEF SInv
<1>2. \A r \in Syncs \ {s} : /\ pc'[r] = pc[r] /\ at'[r] = at[r]
                             /\ target'[r] = target[r] /\ current'[r] = current[r]
  BY <1>1, Others
<1>3. CASE LoadCorpus(s) \/ ReplaceCatalog(s)
  <2>1. /\ Holds(i, t)' = Holds(i, t) /\ UNCHANGED <<alias, at, target, current>>
        /\ pc'[s] \in {"loaded", "publishing"}
    BY <1>1, <1>3 DEF LoadCorpus, ReplaceCatalog, TypeOK, Holds
  <2>2. at'[s] = i /\ current'[s] = t => Uses(i, t)
    BY <2>1 DEF Uses
  <2> QED
    BY <1>1, <2>1, <2>2, SiteUntouched
<1>4. CASE NameCollection(s)
  <2>1. /\ Holds(i, t)' = Holds(i, t) /\ UNCHANGED <<alias, at, current>> /\ pc[s] = "publishing" /\ pc'[s] = "named"
        /\ \A j \in Numbers : target'[s][j] = IF j = k THEN time ELSE target[s][j]
    BY <1>0, <1>1, <1>4 DEF NameCollection, TypeOK, Holds
  <2>2. at'[s] = i /\ current'[s] = t => Uses(i, t)
    BY <2>1 DEF Uses
  <2>3. CASE i = k /\ t = time
    <3>1. target[s][k] = NoTarget /\ t # NoTarget
      BY <1>0, <2>1, Ranges DEF SInv, Named, Unnamed
    <3>2. \A r \in Syncs : target[r][i] # t
      <4> SUFFICES ASSUME NEW r \in Syncs, target[r][i] = t PROVE FALSE
        OBVIOUS
      <4>1. r # s /\ target'[r][i] = t /\ target'[s][i] = t
        BY <1>2, <2>1, <2>3, <3>1
      <4> QED
        BY <4>1 DEF Clash
    <3>3. ~Uses(i, t)
      BY <1>1, <3>2 DEF Site
    <3>4. ~Uses(i, t)'
      BY <1>2, <2>1, <3>3 DEF Uses
    <3>5. \A r \in Syncs : target'[r][i] = t => r = s
      BY <1>2, <3>2
    <3> QED
      BY <2>1, <3>4, <3>5 DEF Site, Uses
  <2>4. CASE ~(i = k /\ t = time)
    <3>1. \A r \in Syncs : target'[r][i] = t => target[r][i] = t
      BY <1>2, <2>1, <2>4
    <3> QED
      BY <1>1, <2>1, <2>2, <3>1, SiteUntouched
  <2> QED
    BY <2>3, <2>4
<1>5. CASE ResolveAlias(s)
  <2>1. /\ Holds(i, t)' = Holds(i, t) /\ UNCHANGED <<alias, at, target>> /\ pc[s] = "filled"
        /\ \E x \in {alias[k], NoTarget} : current' = [current EXCEPT ![s] = x]
        /\ \E stage \in {"resolved", "exposed"} : pc' = [pc EXCEPT ![s] = stage]
    BY <1>0, <1>5 DEF ResolveAlias, Ready, Holds
  <2>2. current'[s] \in {alias[k], NoTarget} /\ pc'[s] \in {"resolved", "exposed"}
    BY <1>1, <2>1 DEF TypeOK
  <2>3. at'[s] = i /\ current'[s] = t => Uses(i, t)
    BY <1>0, <2>1, <2>2, Ranges DEF Uses
  <2>4. target[s][i] = t /\ at'[s] = i => Holds(i, t) = {s}
    BY <1>1, <2>1 DEF Site
  <2> QED
    BY <1>1, <2>1, <2>2, <2>3, <2>4, SiteUntouched
<1>6. CASE ClearCollection(s)
  <2>1. /\ Delete(k, b) \/ UNCHANGED <<collections, alias>>
        /\ UNCHANGED <<at, target, current>> /\ pc[s] = "named" /\ pc'[s] = "cleared"
    BY <1>0, <1>1, <1>6 DEF ClearCollection, TypeOK
  <2>2. at'[s] = i /\ current'[s] = t => Uses(i, t)
    BY <2>1 DEF Uses
  <2>3. alias'[i] = t => alias[i] = t
    BY <1>1, <2>1, DeleteFacts
  <2>4. CASE Holds(i, t)' = Holds(i, t)
    BY <1>1, <2>1, <2>2, <2>3, <2>4, SiteUntouched
  <2>5. CASE Holds(i, t)' # Holds(i, t)
    <3>1. i = k /\ t = b
      BY <1>1, <2>1, <2>5, DeleteFacts
    <3>2. ~Switched(s, i)
      BY <1>0, <1>1, <2>1, <3>1 DEF Switched
    <3>3. alias[i] # t
      BY <1>0, <1>1, <3>1, <3>2, NotUsed DEF Uses
    <3>4. \A r \in Syncs : target[r][i] = t => r = s
      BY <1>0, <1>1, <3>1, OneOwner
    <3> QED
      BY <1>1, <2>1, <2>2, <2>3, <3>3, <3>4, SiteGone
  <2> QED
    BY <2>4, <2>5
<1>7. CASE DeleteByName(s)
  <2>1. /\ Delete(k, v) \/ UNCHANGED <<collections, alias>>
        /\ UNCHANGED <<at, target, current>> /\ pc[s] = "exposed" /\ pc'[s] = "resolved"
    BY <1>0, <1>1, <1>7 DEF DeleteByName, TypeOK
  <2>2. at'[s] = i /\ current'[s] = t => Uses(i, t)
    BY <2>1 DEF Uses
  <2>3. alias'[i] = t => alias[i] = t
    BY <1>1, <2>1, DeleteFacts
  <2>4. CASE Holds(i, t)' = Holds(i, t)
    <3>1. target[s][i] = t /\ at'[s] = i => Holds(i, t) = {s}
      BY <1>1, <2>1 DEF Site
    <3> QED
      BY <1>1, <2>1, <2>2, <2>3, <2>4, <3>1, SiteUntouched
  <2>5. CASE Holds(i, t)' # Holds(i, t)
    <3>1. i = k /\ t = v /\ Delete(k, v)
      <4>1. collections' # collections
        BY <2>5 DEF Holds
      <4> QED
        BY <1>1, <2>1, <2>5, <4>1, DeleteFacts
    <3>2. alias[i] = t /\ alias'[i] # t
      BY <1>0, <1>1, <3>1, DeleteFacts
    <3>3. \A r \in Syncs : target[r][i] = t => Switched(r, i)
      BY <1>1, <3>2, NotUsed DEF Uses
    <3>4. \A r \in Syncs : at[r] \in Nat
      BY <1>1, Ranges DEF TypeOK
    <3>5. \A r \in Syncs : target[r][i] = t /\ at[r] = i => pc[r] \in {"switched", "done"}
      BY <1>1, <3>3, <3>4 DEF Switched
    <3>6. \A r \in Syncs : target[r][i] = t => (at'[r] = i => pc'[r] \notin {"created", "filled", "resolved", "exposed"})
      BY <1>2, <2>1, <3>5
    <3> QED
      BY <1>1, <2>1, <2>2, <3>2, <3>6, SiteGone
  <2> QED
    BY <2>4, <2>5
<1>8. CASE CreateCollection(s) \/ UpsertPoints(s)
  <2>0. TypeOK /\ k = at[s] /\ b = Built(s)
    BY <1>0, <1>1
  <2>1. /\ UNCHANGED <<alias, at, target, current>>
        /\ \/ pc[s] = "cleared" /\ pc'[s] = "created" /\ CreateCollection(s)
           \/ pc[s] = "created" /\ pc'[s] = "filled" /\ UpsertPoints(s)
    BY <1>1, <1>8 DEF CreateCollection, UpsertPoints, TypeOK
  <2>2. at'[s] = i /\ current'[s] = t => Uses(i, t)
    BY <2>1 DEF Uses
  <2>3. b \in Times
    BY <1>0, <2>1 DEF SInv, Named, Publishing, Building
  <2>4. CASE i = k /\ t = b
    <3>1. ~Switched(s, i) /\ ~Uses(i, t)
      <4>1. ~Switched(s, i)
        BY <1>0, <1>1, <2>1, <2>4 DEF Switched
      <4> QED
        BY <1>0, <1>1, <2>4, <4>1, NotUsed
    <3>2. \A r \in Syncs : target[r][i] = t => r = s
      BY <1>0, <1>1, <2>4, OneOwner
    <3>3. ~Uses(i, t)'
      BY <1>2, <2>1, <3>1 DEF Uses
    <3>4. \/ pc'[s] = "created" /\ Holds(i, t)' = {}
          \/ pc'[s] = "filled" /\ Holds(i, t)' = {s}
      <4>1. CASE CreateCollection(s) /\ pc'[s] = "created"
        BY <1>0, <1>1, <2>3, <2>4, <4>1, CreateFacts
      <4>2. CASE UpsertPoints(s) /\ pc[s] = "created" /\ pc'[s] = "filled"
        <5>1. Holds(i, t) = {}
          BY <1>0, <1>1, <2>4, <4>2 DEF Site
        <5>2. Holds(k, b)' = Holds(k, b) \cup {s}
          BY <2>0, <4>2, UpsertFacts
        <5> QED
          BY <2>4, <4>2, <5>1, <5>2
      <4> QED
        BY <2>1, <4>1, <4>2
    <3> QED
      BY <2>1, <3>2, <3>3, <3>4 DEF Site, Uses
  <2>5. CASE ~(i = k /\ t = b)
    <3>1. Holds(i, t)' = Holds(i, t)
      <4>1. CASE CreateCollection(s)
        BY <2>0, <2>3, <2>5, <4>1, CreateFacts
      <4>2. CASE UpsertPoints(s)
        BY <2>0, <2>5, <4>2, UpsertFacts
      <4> QED
        BY <1>8, <4>1, <4>2
    <3>2. ~(target[s][i] = t /\ at'[s] = i)
      BY <1>0, <2>1, <2>5
    <3> QED
      BY <1>1, <2>1, <2>2, <3>1, <3>2, SiteUntouched
  <2> QED
    BY <2>4, <2>5
<1>9. CASE SwitchAlias(s)
  <2>1. /\ alias'[k] = b /\ \A j \in Numbers \ {k} : alias'[j] = alias[j]
        /\ UNCHANGED <<at, target, current>> /\ Holds(i, t)' = Holds(i, t)
        /\ pc[s] = "resolved" /\ pc'[s] = "switched"
    BY <1>0, <1>1, <1>9 DEF SwitchAlias, TypeOK, Holds
  <2>2. at'[s] = i /\ current'[s] = t => Uses(i, t)
    BY <2>1 DEF Uses
  <2>3. CASE i = k /\ t = b
    <3>1. ~Switched(s, i) /\ ~Uses(i, t)
      <4>1. ~Switched(s, i)
        BY <1>0, <1>1, <2>1, <2>3 DEF Switched
      <4> QED
        BY <1>0, <1>1, <2>3, <4>1, NotUsed
    <3>2. \A r \in Syncs : target[r][i] = t => r = s
      BY <1>0, <1>1, <2>3, OneOwner
    <3>3. Holds(i, t)' = {s} /\ target'[s][i] = t /\ Switched(s, i)'
      BY <1>0, <1>1, <2>1, <2>3 DEF Site, Switched
    <3>4. \A r \in Syncs : ~(at'[r] = i /\ current'[r] = t)
      BY <1>2, <2>1, <3>1 DEF Uses
    <3> QED
      BY <2>1, <3>2, <3>3, <3>4 DEF Site
  <2>4. CASE ~(i = k /\ t = b)
    <3>1. alias'[i] = t => alias[i] = t /\ i # k
      BY <2>1, <2>4
    <3>2. ~(target[s][i] = t /\ at'[s] = i)
      BY <1>0, <2>1, <2>4
    <3> QED
      BY <1>0, <1>1, <2>1, <2>2, <3>1, <3>2, SiteUntouched
  <2> QED
    BY <2>3, <2>4
<1>10. CASE DeleteSuperseded(s)
  <2>1. /\ Delete(k, w) /\ target' = target /\ current'[s] = NoTarget
        /\ pc[s] = "switched" /\ pc'[s] \in {"publishing", "done"}
    BY <1>0, <1>1, <1>10 DEF DeleteSuperseded, TypeOK
  <2>2. ~(current'[s] = t)
    BY <2>1, Ranges
  <2>3. alias'[i] = t => alias[i] = t
    BY <1>1, <2>1, DeleteFacts
  <2>4. CASE Holds(i, t)' = Holds(i, t)
    BY <1>1, <2>1, <2>2, <2>3, <2>4, SiteUntouched
  <2>5. CASE Holds(i, t)' # Holds(i, t)
    <3>1. i = k /\ t = w
      BY <1>1, <2>1, <2>5, DeleteFacts
    <3>2. current[s] = t /\ at[s] = i /\ Uses(i, t)
      BY <1>0, <3>1, Ranges DEF Superseded, Uses
    <3>3. \A r \in Syncs : target[r][i] = t => Switched(r, i)'
      BY <1>1, <3>2, NotUsed, NamesStay
    <3>4. \A r \in Syncs : at'[r] \in Nat
      <4>1. TypeOK'
        BY <1>1, StepType
      <4> QED
        BY <4>1, Ranges DEF TypeOK
    <3>5. alias'[i] # t
      BY <1>1, <2>1, <3>1, DeleteFacts
    <3>6. \A r \in Syncs : target[r][i] = t => (at'[r] = i => pc'[r] \notin {"created", "filled", "resolved", "exposed"})
      BY <1>1, <3>3, <3>4 DEF Switched
    <3> QED
      BY <1>1, <2>1, <2>2, <3>5, <3>6, SiteGone
  <2> QED
    BY <2>4, <2>5
<1> QED
  BY <1>3, <1>4, <1>5, <1>6, <1>7, <1>8, <1>9, <1>10 DEF Step

LEMMA NextSites == SInv /\ [Next]_vars => SInv'
<1> SUFFICES ASSUME SInv, [Next]_vars PROVE SInv'
  OBVIOUS
<1>1. TypeOK'
  BY NextType DEF SInv
<1>2. ASSUME NEW s \in Syncs, Step(s) PROVE SInv'
  BY <1>1, <1>2, NamesStay, StepAliasExists, StepSites DEF SInv
<1>3. ASSUME UNCHANGED <<collections, alias, pc, at, target, current>> PROVE SInv'
  <2>1. Named' /\ AliasExists'
    BY <1>3 DEF SInv, Named, AliasExists, Unnamed, Built, Holds
  <2>2. \A i \in Numbers, t \in Times : (Clash(i, t)' <=> Clash(i, t)) /\ (Site(i, t)' <=> Site(i, t))
    BY <1>3 DEF Clash, Site, Uses, Switched, Holds
  <2> QED
    BY <1>1, <2>1, <2>2 DEF SInv
<1>4. (Tick \/ (\E s \in Syncs : Crash(s)) \/ UNCHANGED vars) => UNCHANGED <<collections, alias, pc, at, target, current>>
  BY DEF Tick, Crash, vars, locals, history
<1> QED
  BY <1>2, <1>3, <1>4 DEF Next

LEMMA SitesHold == Spec => []SInv
BY InitSites, NextSites, PTL DEF Spec

(* Whoever follows an alias finds the whole corpus of one synchronisation,  *)
(* while others are at work, overtake one another or die, unless two chose  *)
(* the same second.                                                         *)
THEOREM AliasesServe == Spec => []AliasServes
<1>1. SInv => AliasServes
  BY DEF SInv, AliasServes, AliasExists, Exists, Site, Uses
<1> QED
  BY <1>1, SitesHold, PTL

(* A served index is taken down only by a synchronisation that named its    *)
(* collection in the same second, or by one whose lookup of the aliases     *)
(* failed and which deletes by the name of the alias what stands there.     *)
THEOREM ServedStays == Spec => NeverTakenDown
<1> DEFINE Stays == \A i \in Numbers : alias[i] \in Times /\ alias'[i] \notin Times =>
                       \/ Clash(i, alias[i])
                       \/ \E s \in Syncs : at[s] = i /\ pc[s] = "exposed" /\ pc'[s] = "resolved"
<1>1. SInv /\ [Next]_vars => Stays
  <2> SUFFICES ASSUME SInv, [Next]_vars, NEW i \in Numbers, NEW t \in Times, alias[i] = t, alias'[i] \notin Times,
                      ~Clash(i, t)
               PROVE  \E s \in Syncs : at[s] = i /\ pc[s] = "exposed" /\ pc'[s] = "resolved"
    OBVIOUS
  <2>1. PICK s \in Syncs : Step(s)
    BY DEF Next, Tick, Crash, vars
  <2>2. TypeOK /\ Site(i, t) /\ Uses(i, t)
    BY DEF SInv, Uses
  <2>3. PICK k \in Numbers, b \in 0..Legacy, v \in 0..Legacy, w \in 0..Legacy :
           k = at[s] /\ b = Built(s) /\ v = alias[at[s]] /\ w = Superseded(s)
    BY <2>2, Deletes
  <2>4. CASE ClearCollection(s)
    <3>1. pc[s] = "named" /\ (Delete(k, b) \/ UNCHANGED <<collections, alias>>)
      BY <2>3, <2>4 DEF ClearCollection, Is
    <3>2. i = k /\ t = b
      BY <2>2, <3>1, DeleteFacts
    <3>3. target[s][i] = t /\ ~Switched(s, i)
      BY <2>3, <3>1, <3>2, Ranges DEF Built, Switched
    <3> QED
      BY <2>2, <3>3, NotUsed
  <2>5. CASE DeleteByName(s)
    <3>1. pc[s] = "exposed" /\ pc'[s] = "resolved" /\ (Delete(k, v) \/ UNCHANGED <<collections, alias>>)
      BY <2>2, <2>3, <2>5 DEF DeleteByName, Is, To, TypeOK
    <3>2. i = k
      BY <2>2, <3>1, DeleteFacts
    <3> QED
      BY <2>3, <3>1, <3>2
  <2>6. CASE DeleteSuperseded(s)
    <3>1. pc[s] = "switched" /\ Delete(k, w)
      BY <2>3, <2>6 DEF DeleteSuperseded, Is
    <3>2. i = k /\ t = w
      BY <2>2, <3>1, DeleteFacts
    <3>3. current[s] = t /\ target[s][i] # t
      BY <2>3, <3>2, Ranges DEF Superseded, Built
    <3> QED
      BY <2>2, <2>3, <3>1, <3>2, <3>3 DEF Site
  <2>7. CASE SwitchAlias(s)
    BY <2>2, <2>7 DEF SwitchAlias, Exists, TypeOK
  <2>8. CASE LoadCorpus(s) \/ ReplaceCatalog(s) \/ NameCollection(s) \/ CreateCollection(s) \/ UpsertPoints(s)
             \/ ResolveAlias(s)
    BY <2>8 DEF LoadCorpus, ReplaceCatalog, NameCollection, CreateCollection, UpsertPoints, ResolveAlias
  <2> QED
    BY <2>1, <2>4, <2>5, <2>6, <2>7, <2>8 DEF Step
<1> QED
  BY <1>1, SitesHold, PTL DEF Spec, NeverTakenDown

-----------------------------------------------------------------------------
(* The indexes and the catalogue *)

Promoted(i, s) == alias[i] \in Times /\ Holds(i, alias[i]) = {s}

(* The synchronisation whose catalogue it is found nobody publishing when   *)
(* it wrote it, and finds nobody publishing since.                          *)
Lone(s) == catalog = s /\ rivals[s] = {}
Alone(s) ==
    /\ \A r \in Syncs \ {s} : ~IsPublishing(r)
    /\ \A i \in Numbers : i < at[s] \/ pc[s] = "done" => Promoted(i, s)
    /\ \A k \in Numbers, b \in Times : k = at[s] /\ b = target[s][k] =>
          /\ pc[s] = "created" => Holds(k, b) = {} /\ alias[k] # b
          /\ pc[s] \in {"filled", "exposed", "resolved"} => Holds(k, b) = {s} /\ alias[k] # b
          /\ pc[s] = "switched" => Holds(k, b) = {s} /\ alias[k] = b

LInv == \A s \in Syncs : /\ pc[s] \in {"idle", "loaded"} => at[s] = 1
                         /\ Lone(s) => Alone(s)

(* What is promoted stays so if neither the alias nor its collection moves. *)
LEMMA PromotedStays ==
    ASSUME NEW i, NEW s, Promoted(i, s), alias'[i] = alias[i],
           \A t \in Times : alias[i] = t => Holds(i, t)' = Holds(i, t)
    PROVE  Promoted(i, s)'
BY DEF Promoted, Holds

(* The steps of a synchronisation that publishes alone.                     *)
LEMMA OwnStep ==
    ASSUME SInv, LInv, NEW s \in Syncs, Step(s), Lone(s)' PROVE Alone(s)'
<1> USE DEF To, locals, history, Is
<1>0. PICK k \in Numbers, b \in 0..Legacy, v \in 0..Legacy, w \in 0..Legacy :
         k = at[s] /\ b = Built(s) /\ v = alias[k] /\ w = Superseded(s) /\ b = target[s][k]
  BY Deletes DEF SInv, Built
<1>1. TypeOK /\ AliasExists /\ k \in Nat /\ \A i \in Numbers : i \in Nat
  BY Ranges DEF SInv
<1>2. \A r \in Syncs \ {s} : IsPublishing(r)' => IsPublishing(r)
  BY <1>1, Others DEF IsPublishing
<1>3. CASE ReplaceCatalog(s)
  <2>1. /\ {r \in Syncs : IsPublishing(r)} = {} /\ at'[s] = 1 /\ pc'[s] = "publishing"
    BY <1>1, <1>3 DEF ReplaceCatalog, LInv, Lone, TypeOK
  <2>2. \A i \in Numbers : ~(i < 1)
    BY Ranges
  <2> QED
    BY <1>2, <2>1, <2>2 DEF Alone
<1>4. ASSUME ~ReplaceCatalog(s) PROVE Alone(s)'
  <2>1. UNCHANGED <<catalog, rivals>>
    BY <1>4 DEF Step, LoadCorpus, NameCollection, ClearCollection, CreateCollection, UpsertPoints, ResolveAlias,
       DeleteByName, SwitchAlias, DeleteSuperseded
  <2>2. Alone(s)
    BY <2>1 DEF LInv, Lone
  <2>3. \A r \in Syncs \ {s} : ~IsPublishing(r)'
    BY <1>2, <2>2 DEF Alone
  <2>4. CASE LoadCorpus(s) \/ NameCollection(s)
    <3>1. /\ at'[s] = at[s] /\ pc'[s] \in {"loaded", "named"} /\ pc[s] # "done"
          /\ UNCHANGED <<collections, alias>>
      BY <1>1, <2>4 DEF LoadCorpus, NameCollection, TypeOK
    <3>2. \A i \in Numbers : Promoted(i, s) => Promoted(i, s)'
      BY <3>1 DEF Promoted, Holds
    <3> QED
      BY <2>2, <2>3, <3>1, <3>2 DEF Alone
  <2>5. CASE ClearCollection(s) \/ DeleteByName(s)
    <3>1. PICK u \in 0..Legacy : /\ Delete(k, u) \/ UNCHANGED <<collections, alias>>
                                 /\ DeleteByName(s) => u = v
      BY <1>0, <2>5 DEF ClearCollection, DeleteByName
    <3>2. /\ UNCHANGED <<at, target>>
          /\ \/ pc[s] = "named" /\ pc'[s] = "cleared"
             \/ pc[s] = "exposed" /\ pc'[s] = "resolved" /\ u = v
      BY <1>1, <2>5, <3>1 DEF ClearCollection, DeleteByName, TypeOK
    <3>3. \A i \in Numbers : i < k => Promoted(i, s)'
      <4> SUFFICES ASSUME NEW i \in Numbers, i < k PROVE Promoted(i, s)'
        OBVIOUS
      <4>1. i # k /\ Promoted(i, s)
        BY <1>0, <1>1, <2>2 DEF Alone
      <4>2. \A t \in Times : Holds(i, t)' = Holds(i, t) /\ (alias[i] = t => alias'[i] = t)
        BY <1>1, <3>1, <4>1, DeleteFacts
      <4> QED
        BY <4>1, <4>2, PromotedStays DEF Promoted
    <3>4. pc[s] = "exposed" /\ b \in Times => Holds(k, b)' = {s} /\ alias'[k] # b
      <4> SUFFICES ASSUME pc[s] = "exposed", b \in Times PROVE Holds(k, b)' = {s} /\ alias'[k] # b
        OBVIOUS
      <4>1. Holds(k, b) = {s} /\ alias[k] # b /\ u # b
        BY <1>0, <2>2, <3>2 DEF Alone
      <4> QED
        BY <1>1, <3>1, <4>1, DeleteFacts
    <3> QED
      BY <1>0, <2>3, <3>2, <3>3, <3>4 DEF Alone
  <2>6. CASE CreateCollection(s) \/ UpsertPoints(s)
    <3>0. TypeOK /\ k = at[s] /\ b = Built(s)
      BY <1>0, <1>1
    <3>1. /\ UNCHANGED <<alias, at, target>>
          /\ \/ pc[s] = "cleared" /\ pc'[s] = "created" /\ CreateCollection(s)
             \/ pc[s] = "created" /\ pc'[s] = "filled" /\ UpsertPoints(s)
      BY <1>1, <2>6 DEF CreateCollection, UpsertPoints, TypeOK
    <3>2. b \in Times
      BY <1>0, <3>1 DEF SInv, Named, Publishing, Building
    <3>3. /\ alias[k] # b
          /\ \/ pc'[s] = "created" /\ Holds(k, b)' = {}
             \/ pc'[s] = "filled" /\ Holds(k, b)' = {s}
          /\ \A i \in Numbers, t \in Times : i # k \/ t # b => Holds(i, t)' = Holds(i, t)
      <4>1. CASE CreateCollection(s)
        <5>1. /\ Holds(k, b) = Missing /\ Holds(k, b)' = {}
              /\ \A i \in Numbers, t \in Times : i # k \/ t # b => Holds(i, t)' = Holds(i, t)
          BY <3>0, <3>2, <4>1, CreateFacts
        <5>2. pc'[s] = "created"
          BY <1>1, <4>1 DEF CreateCollection, TypeOK
        <5> QED
          BY <1>1, <3>2, <5>1, <5>2 DEF AliasExists
      <4>2. CASE UpsertPoints(s)
        <5>1. /\ Holds(k, b)' = Holds(k, b) \cup {s}
              /\ \A i \in Numbers, t \in Times : i # k \/ t # b => Holds(i, t)' = Holds(i, t)
          BY <3>0, <4>2, UpsertFacts
        <5>2. pc[s] = "created" /\ pc'[s] = "filled"
          BY <1>1, <4>2 DEF UpsertPoints, TypeOK
        <5>3. Holds(k, b) = {} /\ alias[k] # b
          BY <1>0, <2>2, <3>2, <5>2 DEF Alone
        <5> QED
          BY <5>1, <5>2, <5>3
      <4> QED
        BY <2>6, <4>1, <4>2
    <3>4. \A i \in Numbers : i < k => Promoted(i, s)'
      <4> SUFFICES ASSUME NEW i \in Numbers, i < k PROVE Promoted(i, s)'
        OBVIOUS
      <4>1. i # k /\ Promoted(i, s)
        BY <1>0, <1>1, <2>2 DEF Alone
      <4> QED
        BY <3>1, <3>3, <4>1, PromotedStays
    <3> QED
      BY <1>0, <2>3, <3>1, <3>3, <3>4 DEF Alone
  <2>7. CASE ResolveAlias(s)
    <3>1. /\ UNCHANGED <<collections, alias, at, target>> /\ pc[s] = "filled"
          /\ \E stage \in {"resolved", "exposed"} : pc' = [pc EXCEPT ![s] = stage]
      BY <2>7 DEF ResolveAlias, Ready
    <3>2. pc'[s] \in {"resolved", "exposed"}
      BY <1>1, <3>1 DEF TypeOK
    <3>3. \A i \in Numbers, t \in Times : Holds(i, t)' = Holds(i, t)
      BY <3>1 DEF Holds
    <3>4. \A i \in Numbers : Promoted(i, s) => Promoted(i, s)'
      BY <3>1 DEF Promoted, Holds
    <3> QED
      BY <2>2, <2>3, <3>1, <3>2, <3>3, <3>4 DEF Alone
  <2>8. CASE SwitchAlias(s)
    <3>1. /\ alias'[k] = b /\ \A j \in Numbers \ {k} : alias'[j] = alias[j]
          /\ UNCHANGED <<collections, at, target>> /\ pc[s] = "resolved" /\ pc'[s] = "switched" /\ b \in Times
      BY <1>0, <1>1, <2>8 DEF SwitchAlias, Exists, TypeOK
    <3>2. \A i \in Numbers, t \in Times : Holds(i, t)' = Holds(i, t)
      BY <3>1 DEF Holds
    <3>3. Holds(k, b) = {s}
      BY <1>0, <2>2, <3>1 DEF Alone
    <3>4. \A i \in Numbers : i < k => Promoted(i, s)'
      <4> SUFFICES ASSUME NEW i \in Numbers, i < k PROVE Promoted(i, s)'
        OBVIOUS
      <4>1. i # k /\ Promoted(i, s)
        BY <1>0, <1>1, <2>2 DEF Alone
      <4> QED
        BY <3>1, <3>2, <4>1, PromotedStays
    <3> QED
      BY <1>0, <2>3, <3>1, <3>2, <3>3, <3>4 DEF Alone
  <2>9. CASE DeleteSuperseded(s)
    <3>1. /\ Delete(k, w) /\ target' = target /\ pc[s] = "switched"
          /\ \/ at'[s] = k + 1 /\ pc'[s] = "publishing"
             \/ at'[s] = k /\ pc'[s] = "done" /\ ~(k < Len(Indexes))
      BY <1>0, <1>1, <2>9 DEF DeleteSuperseded, MoreToPublish, TypeOK
    <3>2. b \in Times
      BY <1>0, <3>1 DEF SInv, Named, Publishing, Building
    <3>3. Holds(k, b) = {s} /\ alias[k] = b /\ w # b
      BY <1>0, <2>2, <3>1, <3>2, Ranges DEF Alone, Superseded
    <3>4. \A i \in Numbers : i < k \/ i = k => Promoted(i, s)'
      <4> SUFFICES ASSUME NEW i \in Numbers, i < k \/ i = k PROVE Promoted(i, s)'
        OBVIOUS
      <4>1. Promoted(i, s) /\ (i = k => alias[i] # w)
        BY <1>0, <2>2, <3>2, <3>3 DEF Alone, Promoted
      <4>2. (i < k => i # k) /\ \A t \in Times : alias[i] = t => Holds(i, t)' = Holds(i, t) /\ alias'[i] = t
        BY <1>1, <3>1, <4>1, DeleteFacts
      <4> QED
        BY <4>1, <4>2, PromotedStays DEF Promoted
    <3>5. \A i \in Numbers : (i < k + 1 => i < k \/ i = k) /\ (~(k < Len(Indexes)) => i < k \/ i = k)
      BY <1>1, Ranges
    <3>6. \A i \in Numbers : i < at'[s] \/ pc'[s] = "done" => Promoted(i, s)'
      BY <3>1, <3>4, <3>5
    <3> QED
      BY <2>3, <3>1, <3>6 DEF Alone
  <2> QED
    BY <1>4, <2>4, <2>5, <2>6, <2>7, <2>8, <2>9 DEF Step
<1> QED
  BY <1>3, <1>4

(* The steps of the others, while one publishes alone.                      *)
LEMMA OthersStep ==
    ASSUME SInv, LInv, NEW s \in Syncs, NEW r \in Syncs \ {s}, Step(r), Lone(s)' PROVE Alone(s)'
<1>1. TypeOK /\ r \in Syncs
  BY DEF SInv
<1>2. ~ReplaceCatalog(r)
  BY <1>1 DEF ReplaceCatalog, Lone
<1>3. UNCHANGED <<catalog, rivals>>
  BY <1>2 DEF Step, LoadCorpus, NameCollection, ClearCollection, CreateCollection, UpsertPoints, ResolveAlias,
     DeleteByName, SwitchAlias, DeleteSuperseded, history
<1>4. Alone(s)
  BY <1>3 DEF LInv, Lone
<1>5. LoadCorpus(r)
  <2>1. ~IsPublishing(r)
    BY <1>4 DEF Alone
  <2> QED
    BY <1>2, <2>1 DEF Step, NameCollection, ClearCollection, CreateCollection, UpsertPoints, ResolveAlias, Ready,
       DeleteByName, SwitchAlias, DeleteSuperseded, Is, IsPublishing, Publishing, Building
<1>6. /\ UNCHANGED <<collections, alias, at, target, dead>> /\ pc'[r] = "loaded"
      /\ \A q \in Syncs \ {r} : pc'[q] = pc[q]
  BY <1>1, <1>5 DEF LoadCorpus, TypeOK, To, locals
<1>7. \A q \in Syncs \ {s} : ~IsPublishing(q)'
  BY <1>4, <1>6 DEF Alone, IsPublishing, Publishing, Building
<1> QED
  BY <1>4, <1>6, <1>7 DEF Alone, Promoted, Holds

LEMMA NextAlone == SInv /\ LInv /\ [Next]_vars => LInv'
<1> SUFFICES ASSUME SInv, LInv, [Next]_vars PROVE LInv'
  OBVIOUS
<1>1. ASSUME NEW r \in Syncs, Step(r) PROVE LInv'
  <2>1. \A s \in Syncs : pc'[s] \in {"idle", "loaded"} => at'[s] = 1
    <3> TAKE s \in Syncs
    <3>1. CASE s # r
      BY <1>1, <3>1, Others DEF LInv, SInv
    <3>2. CASE s = r
      <4>1. LoadCorpus(s) => pc[s] = "idle" /\ at' = at
        BY DEF LoadCorpus, Is, locals
      <4>2. ~LoadCorpus(s) => pc'[s] \notin {"idle", "loaded"}
        <5>1. ~LoadCorpus(s) => \E x \in Publishing \cup {"done"} : pc' = [pc EXCEPT ![s] = x]
          BY <1>1, <3>2 DEF Step, ReplaceCatalog, NameCollection, ClearCollection, CreateCollection, UpsertPoints,
             ResolveAlias, DeleteByName, SwitchAlias, DeleteSuperseded, To, Publishing, Building
        <5> QED
          BY <5>1 DEF SInv, TypeOK, Publishing, Building
      <4> QED
        BY <4>1, <4>2 DEF LInv
    <3> QED
      BY <3>1, <3>2
  <2>2. \A s \in Syncs : Lone(s)' => Alone(s)'
    BY <1>1, OwnStep, OthersStep
  <2> QED
    BY <2>1, <2>2 DEF LInv
<1>2. ASSUME UNCHANGED <<catalog, collections, alias, pc, at, target, rivals>>, dead \subseteq dead' PROVE LInv'
  <2>1. \A s \in Syncs : (Lone(s)' => Lone(s)) /\ (Alone(s) => Alone(s)')
    BY <1>2 DEF Lone, Alone, Promoted, Holds, IsPublishing
  <2> QED
    BY <1>2, <2>1 DEF LInv
<1>3. (Tick \/ (\E s \in Syncs : Crash(s)) \/ UNCHANGED vars) =>
         UNCHANGED <<catalog, collections, alias, pc, at, target, rivals>> /\ dead \subseteq dead'
  BY DEF Tick, Crash, vars, locals, history
<1> QED
  BY <1>1, <1>2, <1>3 DEF Next

(* When a synchronisation has ended well, and neither another was still     *)
(* publishing when it replaced the catalogue nor one has replaced it since, *)
(* the indexes hold what the catalogue holds.                               *)
THEOREM CatalogMatched == Spec => []IndexesMatchCatalog
<1>1. Init => LInv
  BY Ranges DEF Init, LInv, Lone
<1>2. LInv => IndexesMatchCatalog
  BY DEF LInv, IndexesMatchCatalog, Lone, Alone, Promoted
<1> QED
  BY <1>1, <1>2, NextAlone, SitesHold, PTL DEF Spec
=============================================================================
