------------------------- MODULE RedisStorageProofs -------------------------
(***************************************************************************)
(* RedisStorage keeps its chain index complete for any number of events,   *)
(* chains and seconds, as long as restarts never lower redisTTL and never  *)
(* set it to or from zero, and an id is always sent with the same chainId. *)
(***************************************************************************)
EXTENDS RedisStorage, TLAPS

\* CDEvents ids are unique: an event sent again is the same event.
IdsAreUnique == \A e, f \in Events : e.id = f.id => e.chain = f.chain

LEMMA Expires ==
    ASSUME ttl \in TTLs
    PROVE  /\ ttl \in Nat
           /\ Expiration \in Lives
           /\ IF ttl = 0 THEN Expiration = Forever ELSE Expiration \in 1..ttl
BY StorageAssumption DEF Expiration, Lives, Forever

LEMMA Shape ==
    ASSUME NEW e \in Events
    PROVE  /\ e.id \in Ids /\ e.chain \in Chains \union {None}
           /\ e.slot \in Slots \union {None}
           /\ e # None /\ None \notin Chains
BY StorageAssumption

LEMMA StoreInitOK == StoreInit => StoreInv
<1> SUFFICES ASSUME StoreInit PROVE StoreInv
  OBVIOUS
<1>1. StoreTypeOK
  BY DEF StoreInit, StoreTypeOK, Records, Indexes, Missing, NoIndex, Lives
<1>2. \A i \in Ids : ~Present(events[i])
  BY DEF StoreInit, Missing, Present
<1>3. \A c \in Chains : chains[c].members = {}
  BY DEF StoreInit, NoIndex
<1> QED BY <1>1, <1>2, <1>3 DEF StoreInv, IndexOutlivesEvents

LEMMA SaveEventKeepsStoreInv ==
    ASSUME StoreInv, NEW e \in Events, SaveEvent(e), UNCHANGED <<ttl, deployments>>
    PROVE  StoreInv'
<1> DEFINE index == Indexed(chains[e.chain], e.id)
<1>1. /\ ttl \in Nat /\ ttl \in TTLs /\ StoreTypeOK
      /\ Expiration \in Lives
      /\ IF ttl = 0 THEN Expiration = Forever ELSE Expiration \in 1..ttl
  BY Expires DEF StoreInv, StoreTypeOK
<1>2. Stored(e) \in Records /\ Stored(e).value = e /\ Stored(e).left = Expiration
  BY <1>1 DEF Stored, Records
<1>3. \A i \in Ids : events'[i] = IF i = e.id THEN Stored(e) ELSE events[i]
  BY <1>1, Shape DEF SaveEvent, StoreTypeOK
<1>4. \A c \in Chains : chains'[c] = IF c = e.chain THEN index ELSE chains[c]
  BY <1>1, Shape DEF SaveEvent, StoreTypeOK
<1>5. ASSUME e.chain \in Chains
      PROVE  /\ index \in Indexes
             /\ index.members = chains[e.chain].members \union {e.id}
             /\ IF ttl = 0 THEN index.left = Forever ELSE index.left = ttl
  <2>1. chains[e.chain] \in Indexes
    BY <1>1, <1>5 DEF StoreTypeOK
  <2>2. ttl = 0 /\ chains[e.chain].members # {} => chains[e.chain].left = Forever
    BY <1>5 DEF StoreInv, LivesWithinTTL
  <2> QED BY <1>1, <2>1, <2>2, Shape DEF Indexed, Indexes, Lives, Forever
<1>6. StoreTypeOK'
  <2>1. events' \in [Ids -> Records]
    BY <1>1, <1>2 DEF SaveEvent, StoreTypeOK
  <2>2. chains' \in [Chains -> Indexes]
    BY <1>1, <1>5, Shape DEF SaveEvent, StoreTypeOK
  <2> QED BY <1>1, <2>1, <2>2 DEF StoreTypeOK
<1>7. \A i \in Ids : Present(events'[i]) =>
        events'[i].value.id = i /\ LivesWithinTTL(events'[i])
  BY <1>1, <1>2, <1>3 DEF StoreInv, LivesWithinTTL
<1>8. \A c \in Chains : \A i \in chains'[c].members :
        /\ LivesWithinTTL(chains'[c])
        /\ \E f \in Events : f.id = i /\ f.chain = c
  BY <1>1, <1>4, <1>5 DEF StoreInv, LivesWithinTTL
<1>9. ASSUME NEW i \in Ids, Present(events'[i]), events'[i].value.chain # None
      PROVE  LET c == events'[i].value.chain IN
             /\ i \in chains'[c].members
             /\ Outlives(chains'[c].left, events'[i].left)
  <2> DEFINE c == events'[i].value.chain
  <2>1. events'[i].value \in Events /\ c \in Chains
    BY <1>6, <1>9, Shape DEF StoreTypeOK, Records, Present
  <2>2. CASE i = e.id
    BY <1>1, <1>2, <1>3, <1>4, <1>5, <2>1, <2>2 DEF Outlives, Forever
  <2>3. CASE i # e.id
    <3>1. /\ events'[i] = events[i]
          /\ i \in chains[c].members
          /\ Outlives(chains[c].left, events[i].left)
          /\ LivesWithinTTL(events[i])
      BY <1>3, <1>9, <2>3 DEF StoreInv, IndexOutlivesEvents
    <3>2. c = e.chain => Outlives(index.left, events[i].left)
      BY <1>1, <1>5, <2>1, <3>1 DEF LivesWithinTTL, Outlives, Forever
    <3> QED BY <1>4, <1>5, <2>1, <3>1, <3>2
  <2> QED BY <2>2, <2>3
<1>10. IndexOutlivesEvents'
  BY <1>9 DEF IndexOutlivesEvents, Present, Outlives
<1> QED
  BY <1>1, <1>6, <1>7, <1>8, <1>10 DEF StoreInv, Present, LivesWithinTTL

LEMMA SaveDeploymentKeepsStoreInv ==
    ASSUME StoreInv, NEW e \in Events, e.slot # None, SaveDeployment(e),
           UNCHANGED <<ttl, events, chains>>
    PROVE  StoreInv'
<1>1. e.slot \in Slots /\ Stored(e) \in Records
  BY Expires, Shape DEF StoreInv, StoreTypeOK, Stored, Records
<1>2. StoreTypeOK'
  BY <1>1 DEF StoreInv, StoreTypeOK, SaveDeployment
<1> QED
  BY <1>2 DEF StoreInv, Present, LivesWithinTTL, IndexOutlivesEvents, Outlives

\* One second later a key has gone, or has the same content and lives on.
LEMMA Aging ==
    ASSUME NEW key, key.left \in Lives, ~Lapses(key),
           key \in Records \/ key \in Indexes
    PROVE  /\ key \in Records => Aged(key) \in Records /\ Aged(key).value = key.value
           /\ key \in Indexes => Aged(key) \in Indexes /\ Aged(key).members = key.members
           /\ IF key.left = Forever THEN Aged(key).left = Forever
              ELSE key.left > 1 /\ Aged(key).left = key.left - 1
<1>1. CASE key.left = Forever
  BY <1>1 DEF Aged
<1>2. CASE key.left # Forever
  <2>1. key.left \in Nat /\ key.left > 1 /\ key.left - 1 \in Lives
    BY <1>2 DEF Lapses, Lives, Forever
  <2>2. Aged(key) = [key EXCEPT !.left = @ - 1]
    BY <1>2 DEF Aged
  <2>3. CASE key \in Records
    BY <1>2, <2>1, <2>2, <2>3 DEF Records, Indexes
  <2>4. CASE key \in Indexes
    BY <1>2, <2>1, <2>2, <2>4 DEF Records, Indexes
  <2> QED BY <2>3, <2>4
<1> QED BY <1>1, <1>2

LEMMA SecondKeepsStoreInv ==
    ASSUME StoreInv, SecondPasses
    PROVE  StoreInv'
<1>1. /\ StoreTypeOK /\ ttl' = ttl /\ ttl \in Nat
      /\ Missing \in Records /\ NoIndex \in Indexes
  BY Expires
  DEF StoreInv, StoreTypeOK, SecondPasses, Missing, NoIndex, Records, Indexes,
      Lives
<1>2. ASSUME NEW s \in Slots PROVE deployments'[s] \in Records
  BY <1>1, Aging DEF SecondPasses, StoreTypeOK, Records
<1>3. ASSUME NEW i \in Ids
      PROVE  /\ events'[i] \in Records
             /\ Present(events'[i]) =>
                  /\ Present(events[i]) /\ events'[i].value = events[i].value
                  /\ IF events[i].left = Forever THEN events'[i].left = Forever
                     ELSE events[i].left > 1 /\ events'[i].left = events[i].left - 1
  <2>1. CASE Lapses(events[i])
    BY <1>1, <2>1 DEF SecondPasses, Missing, Present
  <2>2. CASE ~Lapses(events[i])
    <3>1. events[i] \in Records /\ events[i].left \in Lives
      BY <1>1 DEF StoreTypeOK, Records
    <3>2. events'[i] = Aged(events[i])
      BY <2>2 DEF SecondPasses
    <3> QED BY <2>2, <3>1, <3>2, Aging DEF Present
  <2> QED BY <2>1, <2>2
<1>4. ASSUME NEW c \in Chains
      PROVE  /\ chains'[c] \in Indexes
             /\ Lapses(chains[c]) => chains'[c] = NoIndex
             /\ ~Lapses(chains[c]) =>
                  /\ chains'[c].members = chains[c].members
                  /\ IF chains[c].left = Forever THEN chains'[c].left = Forever
                     ELSE chains[c].left > 1 /\ chains'[c].left = chains[c].left - 1
  <2>1. CASE Lapses(chains[c])
    BY <1>1, <2>1 DEF SecondPasses
  <2>2. CASE ~Lapses(chains[c])
    <3>1. chains[c] \in Indexes /\ chains[c].left \in Lives
      BY <1>1 DEF StoreTypeOK, Indexes
    <3>2. chains'[c] = Aged(chains[c])
      BY <2>2 DEF SecondPasses
    <3> QED BY <2>2, <3>1, <3>2, Aging
  <2> QED BY <2>1, <2>2
<1>5. StoreTypeOK'
  BY <1>1, <1>2, <1>3, <1>4 DEF StoreTypeOK, SecondPasses
<1>6. ASSUME NEW i \in Ids, Present(events'[i])
      PROVE  events'[i].value.id = i /\ LivesWithinTTL(events'[i])
  BY <1>1, <1>3, <1>6 DEF StoreInv, LivesWithinTTL, Forever
<1>7. ASSUME NEW c \in Chains, NEW i \in chains'[c].members
      PROVE  /\ LivesWithinTTL(chains'[c])
             /\ \E e \in Events : e.id = i /\ e.chain = c
  <2>1. ~Lapses(chains[c])
    BY <1>4, <1>7 DEF NoIndex
  <2>2. /\ i \in chains[c].members
        /\ LivesWithinTTL(chains[c])
        /\ \E e \in Events : e.id = i /\ e.chain = c
    BY <1>4, <1>7, <2>1 DEF StoreInv
  <2> QED BY <1>1, <1>4, <2>1, <2>2 DEF LivesWithinTTL, Forever
<1>8. ASSUME NEW i \in Ids, Present(events'[i]), events'[i].value.chain # None
      PROVE  LET c == events'[i].value.chain IN
             /\ i \in chains'[c].members
             /\ Outlives(chains'[c].left, events'[i].left)
  <2> DEFINE c == events'[i].value.chain
  <2>1. /\ Present(events[i]) /\ events[i].value \in Events
        /\ c = events[i].value.chain /\ c \in Chains
    BY <1>1, <1>3, <1>8, Shape DEF StoreTypeOK, Records, Present
  <2>2. /\ i \in chains[c].members
        /\ Outlives(chains[c].left, events[i].left)
        /\ LivesWithinTTL(events[i])
        /\ LivesWithinTTL(chains[c])
    BY <1>8, <2>1 DEF StoreInv, IndexOutlivesEvents
  <2>3. ~Lapses(chains[c])
    BY <1>1, <1>3, <1>8, <2>2 DEF Outlives, LivesWithinTTL, Lapses, Forever
  <2> QED
    BY <1>1, <1>3, <1>4, <1>8, <2>1, <2>2, <2>3
    DEF Outlives, LivesWithinTTL, Forever
<1>9. IndexOutlivesEvents'
  BY <1>8 DEF IndexOutlivesEvents, Present, Outlives
<1> QED
  BY <1>1, <1>5, <1>6, <1>7, <1>9 DEF StoreInv, Present, LivesWithinTTL

LEMMA LengtheningKeepsStoreInv ==
    ASSUME StoreInv, LengthenTTL
    PROVE  StoreInv'
<1>1. /\ ttl \in Nat /\ ttl' \in Nat /\ ttl' \in TTLs /\ ttl > 0 /\ ttl' > ttl
      /\ UNCHANGED <<deployments, events, chains>>
  BY StorageAssumption DEF LengthenTTL, Restart, StoreInv, StoreTypeOK
<1>2. StoreTypeOK'
  BY <1>1 DEF StoreInv, StoreTypeOK
<1>3. \A key : LivesWithinTTL(key) => IF ttl' = 0 THEN key.left = Forever
                                     ELSE key.left \in 1..ttl'
  BY <1>1 DEF LivesWithinTTL
<1> QED
  BY <1>1, <1>2, <1>3
  DEF StoreInv, LivesWithinTTL, Present, IndexOutlivesEvents, Outlives

LEMMA NextKeepsStoreInv ==
    ASSUME StoreInv, [StoreStep \/ LengthenTTL]_storeVars
    PROVE  StoreInv'
<1>1. CASE UNCHANGED storeVars
  BY <1>1
  DEF storeVars, StoreInv, StoreTypeOK, LivesWithinTTL, Present,
      IndexOutlivesEvents, Outlives
<1> QED
  BY <1>1, SaveEventKeepsStoreInv, SaveDeploymentKeepsStoreInv,
     SecondKeepsStoreInv, LengtheningKeepsStoreInv DEF StoreStep

LEMMA StoreInvariance == StoreSpec => []StoreInv
BY NextKeepsStoreInv, StoreInitOK, PTL DEF StoreSpec

\* Every key holds a record of its kind with a lifetime Redis can hold.
THEOREM StoreTypeCorrect == StoreSpec => []StoreTypeOK
<1>1. StoreInv => StoreTypeOK
  BY DEF StoreInv
<1> QED BY <1>1, StoreInvariance, PTL

\* No event outlives the index that lets the correlator find it by chainId
\* (RedisStorage.SaveEvent).
THEOREM IndexIsNeverLost == StoreSpec => []IndexOutlivesEvents
<1>1. StoreInv => IndexOutlivesEvents
  BY DEF StoreInv
<1> QED BY <1>1, StoreInvariance, PTL

\* Redis answers a chain query as the memory backend would, if an id is always
\* sent with the same chainId.
THEOREM BackendsAgreeOnChains ==
    ASSUME IdsAreUnique PROVE StoreSpec => []ChainLookupAgrees
<1>1. ASSUME StoreInv PROVE ChainLookupAgrees
  <2> SUFFICES ASSUME NEW c \in Chains, NEW i \in Ids, Present(events[i])
               PROVE  i \in chains[c].members <=> events[i].value.chain = c
    BY <1>1
    DEF ChainLookupAgrees, GetEventsByChain, EventsWithChain, StoreInv,
        StoreTypeOK, Indexes
  <2>1. events[i].value \in Events /\ events[i].value.id = i /\ c # None
    BY <1>1, Shape DEF StoreInv, StoreTypeOK, Records, Present
  <2>2. i \in chains[c].members => events[i].value.chain = c
    BY <1>1, <2>1, IdsAreUnique DEF StoreInv, IdsAreUnique
  <2>3. events[i].value.chain = c => i \in chains[c].members
    BY <1>1, <2>1 DEF StoreInv, IndexOutlivesEvents
  <2> QED BY <2>2, <2>3
<1> QED BY <1>1, StoreInvariance, PTL
-----------------------------------------------------------------------------
\* What Redis answers, as the state of Storage.
StoreStates == StoreInv /\ ChainLookupAgrees

LEMMA FoundIsDerived ==
    ASSUME ChainLookupAgrees
    PROVE  [c \in Chains |-> GetEventsByChain(c)]
             = Promise!ChainsOf([i \in Ids |-> GetEvent(i)])
BY DEF ChainLookupAgrees, EventsWithChain, GetEvent, Present,
       Promise!ChainsOf, Promise!EventsByChain

LEMMA SavedDeploymentIsPromised ==
    ASSUME StoreStates, NEW e \in Events, e.slot # None, SaveDeployment(e),
           UNCHANGED <<ttl, events, chains>>
    PROVE  Promise!Next
<1>1. deployments \in [Slots -> Records] /\ e.slot \in Slots
  BY Shape DEF StoreStates, StoreInv, StoreTypeOK
<1>2. deployments' = [deployments EXCEPT ![e.slot] = Stored(e)]
  BY DEF SaveDeployment
<1>3. [s \in Slots |-> GetDeployment(s)']
        = [[s \in Slots |-> GetDeployment(s)] EXCEPT ![e.slot] = e]
  BY <1>1, <1>2 DEF GetDeployment, Stored
<1>4. Promise!SaveDeployment(e)
  BY <1>3 DEF Promise!SaveDeployment, GetDeployment, GetEvent, GetEventsByChain, Present
<1> QED BY <1>4 DEF Promise!Next

LEMMA SavedEventIsPromised ==
    ASSUME StoreStates, ChainLookupAgrees', NEW e \in Events, SaveEvent(e),
           UNCHANGED <<ttl, deployments>>
    PROVE  Promise!Next
<1>1. events \in [Ids -> Records] /\ e.id \in Ids
  BY Shape DEF StoreStates, StoreInv, StoreTypeOK
<1>2. events' = [events EXCEPT ![e.id] = Stored(e)]
  BY DEF SaveEvent
<1>3. [i \in Ids |-> GetEvent(i)']
        = [[i \in Ids |-> GetEvent(i)] EXCEPT ![e.id] = e]
  BY <1>1, <1>2 DEF GetEvent, Stored
<1>4. [c \in Chains |-> GetEventsByChain(c)']
        = Promise!ChainsOf([i \in Ids |-> GetEvent(i)'])
  BY DEF ChainLookupAgrees, EventsWithChain, GetEvent, GetEventsByChain, Present,
         Promise!ChainsOf, Promise!EventsByChain
<1>5. Promise!SaveEvent(e)
  BY <1>3, <1>4 DEF Promise!SaveEvent, GetDeployment, GetEvent, GetEventsByChain
<1> QED BY <1>5 DEF Promise!Next

LEMMA SecondIsPromised ==
    ASSUME StoreStates, ChainLookupAgrees', SecondPasses
    PROVE  Promise!Next
<1> DEFINE slots == {s \in Slots : Lapses(deployments[s])}
           ids == {i \in Ids : Lapses(events[i])}
<1>1. /\ \A s \in Slots : deployments[s] \in Records /\ deployments[s].left \in Lives
      /\ \A i \in Ids : events[i] \in Records /\ events[i].left \in Lives
  BY DEF StoreStates, StoreInv, StoreTypeOK, Records
<1>2. ASSUME NEW s \in Slots
      PROVE  GetDeployment(s)' = IF s \in slots THEN None ELSE GetDeployment(s)
  <2>1. ~Lapses(deployments[s]) => Aged(deployments[s]).value = deployments[s].value
    BY <1>1, Aging
  <2> QED BY <2>1 DEF SecondPasses, GetDeployment, Missing
<1>3. ASSUME NEW i \in Ids
      PROVE  GetEvent(i)' = IF i \in ids THEN None ELSE GetEvent(i)
  <2>1. ~Lapses(events[i]) => Aged(events[i]).value = events[i].value
    BY <1>1, Aging
  <2> QED BY <2>1 DEF SecondPasses, GetEvent, Missing
<1>4. [c \in Chains |-> GetEventsByChain(c)']
        = Promise!ChainsOf([i \in Ids |-> GetEvent(i)'])
  BY DEF ChainLookupAgrees, EventsWithChain, GetEvent, GetEventsByChain, Present,
         Promise!ChainsOf, Promise!EventsByChain
<1>5. Promise!Forget(slots, ids)
  BY <1>2, <1>3, <1>4
  DEF Promise!Forget, GetDeployment, GetEvent, GetEventsByChain
<1>6. slots \in SUBSET Slots /\ ids \in SUBSET Ids
  OBVIOUS
<1> QED BY <1>5, <1>6 DEF Promise!Next

LEMMA StepIsPromised ==
    ASSUME StoreStates, ChainLookupAgrees', [StoreStep \/ LengthenTTL]_storeVars
    PROVE  [Promise!Next]_<<[s \in Slots |-> GetDeployment(s)],
                            [i \in Ids |-> GetEvent(i)],
                            [c \in Chains |-> GetEventsByChain(c)]>>
<1>1. CASE UNCHANGED <<deployments, events, chains>>
  BY <1>1 DEF GetDeployment, GetEvent, GetEventsByChain, Present
<1>2. LengthenTTL \/ UNCHANGED storeVars => UNCHANGED <<deployments, events, chains>>
  BY DEF LengthenTTL, Restart, storeVars
<1> QED
  BY <1>1, <1>2, SavedDeploymentIsPromised, SavedEventIsPromised, SecondIsPromised
  DEF StoreStep

\* Redis keeps the promise of the Storage interface: every step of RedisStorage
\* is a save or an expiry of Storage, or changes no answer.
THEOREM RedisImplementsStorage ==
    ASSUME IdsAreUnique PROVE StoreSpec => ImplementsStorage
<1>1. ASSUME StoreInit PROVE Promise!Init
  <2>1. /\ \A s \in Slots : GetDeployment(s) = None
        /\ \A i \in Ids : GetEvent(i) = None /\ ~Present(events[i])
        /\ \A c \in Chains : chains[c].members = {}
    BY <1>1 DEF StoreInit, Missing, NoIndex, GetDeployment, GetEvent, Present
  <2>2. ChainLookupAgrees
    BY <2>1 DEF ChainLookupAgrees, GetEventsByChain, EventsWithChain
  <2> QED BY <2>1, <2>2, FoundIsDerived DEF Promise!Init
<1>2. StoreStates /\ ChainLookupAgrees' /\ [StoreStep \/ LengthenTTL]_storeVars
        => [Promise!Next]_<<[s \in Slots |-> GetDeployment(s)],
                            [i \in Ids |-> GetEvent(i)],
                            [c \in Chains |-> GetEventsByChain(c)]>>
  BY StepIsPromised
<1>3. StoreSpec => []StoreStates
  <2>1. StoreSpec => []ChainLookupAgrees
    BY BackendsAgreeOnChains
  <2>2. StoreInv /\ ChainLookupAgrees => StoreStates
    BY DEF StoreStates
  <2> QED BY <2>1, <2>2, StoreInvariance, PTL
<1>4. StoreStates => ChainLookupAgrees
  BY DEF StoreStates
<1> QED BY <1>1, <1>2, <1>3, <1>4, PTL DEF StoreSpec, ImplementsStorage, Promise!Spec
=============================================================================
