----------------------------- MODULE IngestProofs -----------------------------
(***************************************************************************)
(* Ingest, for any number of handlers, events and seconds: its requests    *)
(* use the store only as RedisStorage says, what was acknowledged is kept, *)
(* a deployment has its event unless a request is, or ended, between its   *)
(* two saves, and a slot whose deployments are sent one at a time, in the  *)
(* order of their times, never shows one that is older than one that was   *)
(* acknowledged.                                                           *)
(***************************************************************************)
EXTENDS Ingest, RedisStorageProofs

\* A request in progress holds an event, with a slot once the deployment is
\* recorded.
RequestsInv ==
    \A h \in Handlers :
      /\ Waiting(h, {"accepted", "recorded"}) => request[h].event \in Events
      /\ Waiting(h, {"recorded"}) => request[h].event.slot # None

\* No deployment outlives the redisTTL of its successors.
DeploymentsInv ==
    \A s \in Slots : Present(deployments[s]) => LivesWithinTTL(deployments[s])

IngestInv ==
    /\ IngestTypeOK
    /\ StoreInv
    /\ RequestsInv
    /\ DeploymentsInv
    /\ AcknowledgedSurvives
    /\ DeploymentsHaveTheirEvents
-----------------------------------------------------------------------------
Phases == {"idle", "accepted", "recorded", "201", "400", "500"}

LEMMA Moves ==
    ASSUME request \in [Handlers -> Requests],
           NEW h \in Handlers, NEW p \in Phases, Goto(h, p)
    PROVE  /\ request' \in [Handlers -> Requests]
           /\ request'[h].phase = p
           /\ request'[h].event = request[h].event
           /\ \A g \in Handlers : g # h => request'[g] = request[g]
<1>1. request' = [request EXCEPT ![h] = [request[h] EXCEPT !.phase = p]]
  BY DEF Goto
<1>2. request[h] \in Requests
  OBVIOUS
<1>3. /\ [request[h] EXCEPT !.phase = p] \in Requests
      /\ [request[h] EXCEPT !.phase = p].phase = p
      /\ [request[h] EXCEPT !.phase = p].event = request[h].event
  BY <1>2 DEF Requests, Phases
<1> QED BY <1>1, <1>3

\* What outlives b now still does after a save with the current redisTTL.
LEMMA Renewal ==
    ASSUME ttl \in TTLs, NEW key, LivesWithinTTL(key),
           NEW b \in Lives, Outlives(key.left, b)
    PROVE  Outlives(Expiration, b)
BY Expires DEF LivesWithinTTL, Outlives, Expiration, Forever, Lives

LEMMA SavedEvents ==
    ASSUME StoreInv, NEW e \in Events, SaveEvent(e)
    PROVE  /\ Present(events'[e.id]) /\ events'[e.id].left = Expiration
           /\ \A i \in Ids : i # e.id => events'[i] = events[i]
           /\ \A i \in Ids, b \in Lives :
                Present(events[i]) /\ Outlives(events[i].left, b) =>
                  Present(events'[i]) /\ Outlives(events'[i].left, b)
<1>1. e.id \in Ids /\ e # None
  BY Shape
<1>2. /\ events' = [events EXCEPT ![e.id] = Stored(e)]
      /\ events \in [Ids -> Records] /\ ttl \in TTLs
  BY DEF SaveEvent, StoreInv, StoreTypeOK
<1>3. Present(events'[e.id]) /\ events'[e.id].left = Expiration
  BY <1>1, <1>2 DEF Present, Stored
<1>4. \A i \in Ids : i # e.id => events'[i] = events[i]
  BY <1>2
<1>5. ASSUME NEW i \in Ids, NEW b \in Lives,
             Present(events[i]), Outlives(events[i].left, b)
      PROVE  Present(events'[i]) /\ Outlives(events'[i].left, b)
  <2>1. CASE i = e.id
    <3>1. LivesWithinTTL(events[i])
      BY <1>5 DEF StoreInv
    <3> QED BY <2>1, <3>1, <1>2, <1>3, <1>5, Renewal
  <2>2. CASE i # e.id
    BY <2>2, <1>4, <1>5
  <2> QED BY <2>1, <2>2
<1> QED BY <1>3, <1>4, <1>5
-----------------------------------------------------------------------------
(***************************************************************************)
(* Every step of a request is a step of the store or leaves it as it is.   *)
(***************************************************************************)
LEMMA HandlerUsesStore ==
    ASSUME RequestsInv, NEW h \in Handlers, HandlerNext(h)
    PROVE  StoreStep \/ UNCHANGED storeVars
<1> DEFINE e == request[h].event
<1>1. CASE \E f \in Events : Accept(h, f)
  BY <1>1 DEF Accept
<1>2. CASE Refuse(h)
  BY <1>2 DEF Refuse
<1>3. CASE RecordDeployment(h)
  BY <1>3 DEF RecordDeployment, StoreStep, RequestsInv, Waiting
<1>4. ASSUME NEW executed \in BOOLEAN, DeploymentFails(h, executed)
      PROVE  StoreStep \/ UNCHANGED storeVars
  BY <1>4 DEF DeploymentFails, StoreStep, RequestsInv, Waiting, storeVars
<1>5. ReadyForEvent(h) => e \in Events
  BY DEF ReadyForEvent, RequestsInv, Waiting
<1>6. CASE RecordEvent(h)
  BY <1>5, <1>6 DEF RecordEvent, StoreStep
<1>7. ASSUME NEW executed \in BOOLEAN, EventFails(h, executed)
      PROVE  StoreStep \/ UNCHANGED storeVars
  BY <1>5, <1>7 DEF EventFails, StoreStep, storeVars
<1>8. CASE Respond(h) \/ Killed(h)
  BY <1>8 DEF Respond, Killed
<1> QED
  BY <1>1, <1>2, <1>3, <1>4, <1>6, <1>7, <1>8 DEF HandlerNext

LEMMA StepsUseStore ==
    ASSUME RequestsInv, [IngestNext]_ingestVars
    PROVE  [StoreStep \/ LengthenTTL]_storeVars
<1>1. CASE Second
  BY <1>1 DEF Second, StoreStep
<1>2. CASE Restarted
  BY <1>2 DEF Restarted
<1>3. CASE UNCHANGED ingestVars
  BY <1>3 DEF ingestVars
<1> QED BY <1>1, <1>2, <1>3, HandlerUsesStore DEF IngestNext
-----------------------------------------------------------------------------
LEMMA InitEstablishesIngestInv == IngestInit => IngestInv
<1> SUFFICES ASSUME IngestInit PROVE IngestInv
  OBVIOUS
<1> USE DEF IngestInit
<1>1. StoreInv /\ StoreTypeOK
  BY StoreInitOK DEF StoreInv
<1>2. IngestTypeOK
  BY <1>1 DEF IngestTypeOK, Requests, Idle, NotPromised, Lives
<1>3. RequestsInv
  BY DEF RequestsInv, Waiting, Idle
<1>4. \A t \in Slots : ~Present(deployments[t])
  BY DEF StoreInit, Missing, Present
<1>5. DeploymentsInv /\ DeploymentsHaveTheirEvents
  BY <1>4 DEF DeploymentsInv, DeploymentsHaveTheirEvents
<1>6. AcknowledgedSurvives
  BY DEF AcknowledgedSurvives
<1> QED BY <1>1, <1>2, <1>3, <1>5, <1>6 DEF IngestInv

LEMMA StoreStaysOK ==
    ASSUME IngestInv, [IngestNext]_ingestVars
    PROVE  StoreInv' /\ StoreTypeOK'
<1>1. StoreInv'
  BY StepsUseStore, NextKeepsStoreInv DEF IngestInv
<1> QED BY <1>1 DEF StoreInv

\* The handler moves on; the store and the histories stay.
LEMMA MovesKeepInv ==
    ASSUME IngestInv, StoreInv', NEW h \in Handlers,
           UNCHANGED <<storeVars, promised>>,
           request' \in [Handlers -> Requests],
           \A g \in Handlers : g # h => request'[g] = request[g],
           ~Waiting(h, {"recorded"})', overtaken' \subseteq Slots,
           Waiting(h, {"accepted"})' => request'[h].event \in Events,
           broken \subseteq broken', broken' \subseteq Ids,
           Waiting(h, {"recorded"}) => request[h].event.id \in broken'
    PROVE  IngestInv'
<1>1. IngestTypeOK'
  BY DEF IngestInv, IngestTypeOK, StoreInv
<1>2. RequestsInv'
  BY DEF IngestInv, RequestsInv, Waiting
<1>3. DeploymentsInv' /\ AcknowledgedSurvives'
  BY DEF IngestInv, DeploymentsInv, AcknowledgedSurvives, storeVars, Present,
         LivesWithinTTL, Outlives
<1>4. ASSUME NEW s \in Slots, Present(deployments[s]),
             NEW g \in Handlers, Waiting(g, {"recorded"}),
             request[g].event.id = deployments[s].value.id
      PROVE  \/ Waiting(g, {"recorded"})' /\ request'[g].event = request[g].event
             \/ deployments[s].value.id \in broken'
  BY <1>4 DEF Waiting
<1>5. DeploymentsHaveTheirEvents'
  BY <1>4 DEF IngestInv, DeploymentsHaveTheirEvents, storeVars, Present, Outlives
<1> QED BY <1>1, <1>2, <1>3, <1>5 DEF IngestInv

LEMMA RecordingKeepsInv ==
    ASSUME IngestInv, StoreInv', NEW h \in Handlers,
           LET e == request[h].event IN
           /\ ReadyForEvent(h)
           /\ SaveEvent(e)
           /\ broken' = broken \ {e.id}
           /\ promised' = promised \/ promised' = [promised EXCEPT ![e.id] = Expiration],
           NEW p \in {"201", "500"}, Goto(h, p),
           UNCHANGED <<ttl, deployments, overtaken>>
    PROVE  IngestInv'
<1> DEFINE e == request[h].event
<1>1. /\ e \in Events /\ e.id \in Ids /\ ttl \in TTLs
      /\ promised \in [Ids -> Lives] /\ Expiration \in Lives
      /\ \A s \in Slots : deployments[s] \in Records
      /\ StoreInv /\ SaveEvent(e)
  BY Shape, Expires
  DEF IngestInv, RequestsInv, ReadyForEvent, Waiting, StoreInv, StoreTypeOK, IngestTypeOK
<1>2. /\ Present(events'[e.id]) /\ events'[e.id].left = Expiration
      /\ \A i \in Ids, b \in Lives :
           Present(events[i]) /\ Outlives(events[i].left, b) =>
             Present(events'[i]) /\ Outlives(events'[i].left, b)
  BY <1>1, SavedEvents
<1>3. /\ request' \in [Handlers -> Requests]
      /\ request'[h].phase = p
      /\ \A g \in Handlers : g # h => request'[g] = request[g]
  BY Moves DEF IngestInv, IngestTypeOK, Phases
<1>4. promised' \in [Ids -> Lives]
  BY <1>1
<1>5. IngestTypeOK'
  BY <1>3, <1>4 DEF IngestInv, IngestTypeOK, StoreInv
<1>6. RequestsInv'
  BY <1>3 DEF IngestInv, RequestsInv, Waiting
<1>7. DeploymentsInv'
  BY DEF IngestInv, DeploymentsInv, Present, LivesWithinTTL
<1>8. ASSUME NEW i \in Ids, promised'[i] # NotPromised
      PROVE  Present(events'[i]) /\ Outlives(events'[i].left, promised'[i])
  <2>1. CASE promised'[i] = promised[i]
    BY <1>1, <1>2, <1>8, <2>1 DEF IngestInv, AcknowledgedSurvives
  <2>2. CASE promised'[i] # promised[i]
    <3>1. i = e.id /\ promised'[i] = Expiration
      BY <1>1, <2>2
    <3>2. Outlives(Expiration, Expiration)
      BY <1>1, Expires DEF Outlives, Lives, Forever
    <3> QED BY <1>2, <3>1, <3>2
  <2> QED BY <2>1, <2>2
<1>9. AcknowledgedSurvives'
  BY <1>8 DEF AcknowledgedSurvives, Present, Outlives
<1>10. ASSUME NEW s \in Slots, Present(deployments[s])
       PROVE  LET d == deployments[s] IN
              \/ /\ Present(events'[d.value.id])
                 /\ Outlives(events'[d.value.id].left, d.left)
              \/ \E g \in Handlers : /\ Waiting(g, {"recorded"})'
                                     /\ request'[g].event.id = d.value.id
              \/ d.value.id \in broken'
  <2> DEFINE d == deployments[s]
  <2>1. d.value \in Events /\ d.value.id \in Ids /\ d.left \in Lives
    BY <1>1, <1>10, Shape DEF Present, Records
  <2>2. CASE d.value.id = e.id
    <3>1. Outlives(Expiration, d.left)
      <4>1. LivesWithinTTL(d)
        BY <1>10 DEF IngestInv, DeploymentsInv
      <4>2. Outlives(d.left, d.left)
        BY <2>1 DEF Outlives, Lives, Forever
      <4> QED BY <1>1, <2>1, <4>1, <4>2, Renewal
    <3> QED BY <1>2, <2>2, <3>1
  <2>3. CASE d.value.id # e.id
    <3>1. CASE Present(events[d.value.id]) /\ Outlives(events[d.value.id].left, d.left)
      BY <1>2, <2>1, <3>1
    <3>2. ASSUME NEW g \in Handlers, Waiting(g, {"recorded"}),
                 request[g].event.id = d.value.id
          PROVE  Waiting(g, {"recorded"})' /\ request'[g].event.id = d.value.id
      BY <1>3, <2>3, <3>2 DEF Waiting
    <3>3. CASE d.value.id \in broken
      BY <2>3, <3>3
    <3> QED
      BY <1>10, <3>1, <3>2, <3>3 DEF IngestInv, DeploymentsHaveTheirEvents
  <2> QED BY <2>2, <2>3
<1>11. DeploymentsHaveTheirEvents'
  BY <1>10 DEF DeploymentsHaveTheirEvents, Present, Outlives, Waiting
<1> QED BY <1>5, <1>6, <1>7, <1>9, <1>11 DEF IngestInv

LEMMA DeployingKeepsInv ==
    ASSUME IngestInv, StoreInv', NEW h \in Handlers,
           LET e == request[h].event IN
           /\ Waiting(h, {"accepted"})
           /\ e.slot # None
           /\ SaveDeployment(e),
           NEW p \in {"recorded", "500"}, Goto(h, p),
           broken' = IF p = "500" THEN broken \union {request[h].event.id} ELSE broken,
           UNCHANGED <<ttl, events, chains, promised, overtaken>>
    PROVE  IngestInv'
<1> DEFINE e == request[h].event
<1>1. /\ e \in Events /\ e.id \in Ids /\ e.slot \in Slots /\ ttl \in TTLs
      /\ deployments \in [Slots -> Records]
  BY Shape DEF IngestInv, RequestsInv, Waiting, StoreInv, StoreTypeOK
<1>2. /\ deployments'[e.slot] = Stored(e)
      /\ \A s \in Slots : s # e.slot => deployments'[s] = deployments[s]
  BY <1>1 DEF SaveDeployment
<1>3. /\ request' \in [Handlers -> Requests]
      /\ request'[h].phase = p /\ request'[h].event = e
      /\ \A g \in Handlers : g # h => request'[g] = request[g]
  BY Moves DEF IngestInv, IngestTypeOK, Phases
<1>4. IngestTypeOK'
  BY <1>1, <1>3 DEF IngestInv, IngestTypeOK, StoreInv
<1>5. RequestsInv'
  BY <1>1, <1>3 DEF IngestInv, RequestsInv, Waiting
<1>6. ASSUME NEW s \in Slots, Present(deployments'[s])
      PROVE  LivesWithinTTL(deployments'[s])
  <2>1. CASE s = e.slot
    BY <1>1, <1>2, <2>1, Expires DEF Stored, LivesWithinTTL
  <2>2. CASE s # e.slot
    BY <1>2, <1>6, <2>2 DEF IngestInv, DeploymentsInv, LivesWithinTTL
  <2> QED BY <2>1, <2>2
<1>7. DeploymentsInv'
  BY <1>6 DEF DeploymentsInv, Present, LivesWithinTTL
<1>8. AcknowledgedSurvives'
  BY DEF IngestInv, AcknowledgedSurvives, Present, Outlives
<1>9. ASSUME NEW s \in Slots, Present(deployments'[s])
      PROVE  LET d == deployments'[s] IN
             \/ /\ Present(events[d.value.id])
                /\ Outlives(events[d.value.id].left, d.left)
             \/ \E g \in Handlers : /\ Waiting(g, {"recorded"})'
                                    /\ request'[g].event.id = d.value.id
             \/ d.value.id \in broken'
  <2>1. CASE s = e.slot
    <3>1. deployments'[s].value.id = e.id
      BY <1>2, <2>1 DEF Stored
    <3> QED BY <1>3, <3>1 DEF Waiting
  <2>2. CASE s # e.slot
    <3>1. Present(deployments[s]) /\ deployments'[s] = deployments[s]
      BY <1>2, <1>9, <2>2
    <3>2. ASSUME NEW g \in Handlers, Waiting(g, {"recorded"})
          PROVE  Waiting(g, {"recorded"})' /\ request'[g] = request[g]
      BY <1>3, <3>2 DEF Waiting
    <3>3. broken \subseteq broken'
      OBVIOUS
    <3> QED
      BY <3>1, <3>2, <3>3 DEF IngestInv, DeploymentsHaveTheirEvents
  <2> QED BY <2>1, <2>2
<1>10. DeploymentsHaveTheirEvents'
  BY <1>9 DEF DeploymentsHaveTheirEvents, Present, Outlives, Waiting
<1> QED BY <1>4, <1>5, <1>7, <1>8, <1>10 DEF IngestInv

\* One second on, whatever outlived a life still outlives what is left of it.
LEMMA SecondKeepsInv ==
    ASSUME IngestInv, StoreInv', Second
    PROVE  IngestInv'
<1>1. /\ \A i \in Ids : events[i] \in Records
      /\ \A s \in Slots : deployments[s] \in Records
      /\ promised \in [Ids -> Lives] /\ ttl \in TTLs /\ ttl \in Nat
      /\ \A e \in Events : e.id \in Ids
  BY Expires, Shape
  DEF IngestInv, IngestTypeOK, StoreInv, StoreTypeOK
<1>2. /\ \A i \in Ids : events'[i] = IF Lapses(events[i]) THEN Missing ELSE Aged(events[i])
      /\ \A s \in Slots : deployments'[s] =
           IF Lapses(deployments[s]) THEN Missing ELSE Aged(deployments[s])
      /\ \A i \in Ids : promised'[i] = IF promised[i] \in {Forever, 0}
                                       THEN promised[i] ELSE promised[i] - 1
      /\ promised' = [i \in Ids |-> IF promised[i] \in {Forever, 0}
                                     THEN promised[i] ELSE promised[i] - 1]
      /\ UNCHANGED <<ttl, request, broken, overtaken>>
  BY DEF Second, SecondPasses
<1>3. ASSUME NEW key \in Records, ~Lapses(key)
      PROVE  /\ Aged(key).value = key.value
             /\ IF key.left = Forever THEN Aged(key).left = Forever
                ELSE key.left > 1 /\ Aged(key).left = key.left - 1
  <2>1. key.left \in Lives
    BY DEF Records
  <2> QED BY <1>3, <2>1, Aging
<1>4. promised' \in [Ids -> Lives]
  BY <1>1, <1>2 DEF Lives, Forever
<1>5. IngestTypeOK'
  BY <1>2, <1>4 DEF IngestInv, IngestTypeOK, StoreInv
<1>6. RequestsInv'
  BY <1>2 DEF IngestInv, RequestsInv, Waiting
<1>7. ASSUME NEW s \in Slots, Present(deployments'[s])
      PROVE  /\ Present(deployments[s]) /\ ~Lapses(deployments[s])
             /\ deployments'[s] = Aged(deployments[s])
             /\ deployments'[s].value = deployments[s].value
  <2>1. ~Lapses(deployments[s])
    BY <1>2, <1>7 DEF Present, Missing
  <2> QED BY <1>1, <1>2, <1>3, <1>7, <2>1 DEF Present
<1>8. ASSUME NEW s \in Slots, Present(deployments'[s])
      PROVE  LivesWithinTTL(deployments'[s])
  <2>1. LivesWithinTTL(deployments[s])
    BY <1>7, <1>8 DEF IngestInv, DeploymentsInv
  <2> QED BY <1>1, <1>2, <1>3, <1>7, <1>8, <2>1 DEF LivesWithinTTL, Forever
<1>9. DeploymentsInv'
  BY <1>2, <1>8 DEF DeploymentsInv, Present, LivesWithinTTL
<1>10. ASSUME NEW i \in Ids, Present(events[i]), NEW b \in Lives,
              b = Forever \/ b > 1, Outlives(events[i].left, b)
       PROVE  /\ Present(events'[i])
              /\ Outlives(events'[i].left, IF b = Forever THEN Forever ELSE b - 1)
  <2>1. events[i].left \in Lives
    BY <1>1 DEF Records
  <2>2. ~Lapses(events[i])
    BY <1>10, <2>1 DEF Outlives, Lapses, Lives, Forever
  <2>3. events'[i].value = events[i].value
    BY <1>1, <1>2, <1>3, <2>2
  <2>4. Outlives(events'[i].left, IF b = Forever THEN Forever ELSE b - 1)
    BY <1>1, <1>2, <1>3, <1>10, <2>1, <2>2 DEF Outlives, Lives, Forever
  <2> QED BY <1>10, <2>3, <2>4 DEF Present
<1>11. ASSUME NEW i \in Ids, promised'[i] # NotPromised
       PROVE  Present(events'[i]) /\ Outlives(events'[i].left, promised'[i])
  <2>1. /\ promised[i] \in Lives /\ promised[i] # NotPromised
        /\ promised[i] = Forever \/ promised[i] > 1
        /\ promised'[i] = IF promised[i] = Forever THEN Forever ELSE promised[i] - 1
    BY <1>1, <1>2, <1>11 DEF NotPromised, Lives, Forever
  <2>2. Present(events[i]) /\ Outlives(events[i].left, promised[i])
    BY <2>1 DEF IngestInv, AcknowledgedSurvives
  <2> QED BY <1>10, <2>1, <2>2
<1>12. AcknowledgedSurvives'
  BY <1>11 DEF AcknowledgedSurvives, Present, Outlives
<1>13. ASSUME NEW s \in Slots, Present(deployments'[s])
       PROVE  LET d == deployments'[s] IN
              \/ /\ Present(events'[d.value.id])
                 /\ Outlives(events'[d.value.id].left, d.left)
              \/ \E g \in Handlers : /\ Waiting(g, {"recorded"})
                                     /\ request[g].event.id = d.value.id
              \/ d.value.id \in broken
  <2> DEFINE d == deployments[s]
  <2>1. /\ Present(d) /\ ~Lapses(d) /\ d \in Records /\ d.left \in Lives
        /\ d.value.id \in Ids /\ deployments'[s].value = d.value
    BY <1>1, <1>7, <1>13 DEF Records, Present
  <2>2. /\ d.left = Forever \/ d.left > 1
        /\ deployments'[s].left = IF d.left = Forever THEN Forever ELSE d.left - 1
    BY <1>3, <1>7, <1>13, <2>1
  <2>3. CASE /\ Present(events[d.value.id])
             /\ Outlives(events[d.value.id].left, d.left)
    BY <1>10, <2>1, <2>2, <2>3
  <2> QED
    BY <2>1, <2>3 DEF IngestInv, DeploymentsHaveTheirEvents
<1>14. DeploymentsHaveTheirEvents'
  BY <1>2, <1>13 DEF DeploymentsHaveTheirEvents, Present, Outlives, Waiting
<1> QED BY <1>5, <1>6, <1>9, <1>12, <1>14 DEF IngestInv

LEMMA HandlerKeepsInv ==
    ASSUME IngestInv, StoreInv', NEW h \in Handlers, HandlerNext(h)
    PROVE  IngestInv'
<1> DEFINE e == request[h].event
<1>1. /\ request \in [Handlers -> Requests] /\ overtaken \subseteq Slots
      /\ broken \subseteq Ids /\ promised \in [Ids -> Lives]
      /\ Waiting(h, {"accepted", "recorded"}) => e \in Events /\ e.id \in Ids
  BY Shape DEF IngestInv, IngestTypeOK, RequestsInv
<1>2. ASSUME NEW f \in Events, Accept(h, f) PROVE IngestInv'
  <2>1. /\ request' = [request EXCEPT ![h] = [phase |-> "accepted", event |-> f]]
        /\ [phase |-> "accepted", event |-> f] \in Requests
        /\ Waiting(h, {"idle"}) /\ UNCHANGED <<storeVars, promised, broken>>
        /\ overtaken' \subseteq Slots
    BY <1>1, <1>2, Shape DEF Accept, Requests
  <2>2. /\ request' \in [Handlers -> Requests]
        /\ \A g \in Handlers : g # h => request'[g] = request[g]
        /\ request'[h].phase = "accepted" /\ request'[h].event = f
    BY <1>1, <2>1
  <2>3. ~Waiting(h, {"recorded"})' /\ ~Waiting(h, {"recorded"})
    BY <2>1, <2>2 DEF Waiting
  <2>4. broken' = broken
    BY <2>1
  <2> QED BY <1>1, <2>1, <2>2, <2>3, <2>4, MovesKeepInv
<1>3. ASSUME NEW p \in {"400", "500"}, Goto(h, p),
             UNCHANGED <<storeVars, promised, overtaken>>,
             broken \subseteq broken', broken' \subseteq Ids,
             Waiting(h, {"recorded"}) => e.id \in broken'
      PROVE  IngestInv'
  <2>1. /\ request' \in [Handlers -> Requests] /\ request'[h].phase = p
        /\ \A g \in Handlers : g # h => request'[g] = request[g]
    BY <1>1, <1>3, Moves DEF Phases
  <2>2. ~Waiting(h, {"recorded"})' /\ ~Waiting(h, {"accepted"})'
    BY <2>1 DEF Waiting
  <2> QED BY <1>1, <1>3, <2>1, <2>2, MovesKeepInv
<1>4. CASE Refuse(h)
  BY <1>1, <1>3, <1>4 DEF Refuse, Waiting
<1>5. CASE RecordDeployment(h)
  <2>1. broken' = IF "recorded" = "500" THEN broken \union {e.id} ELSE broken
    BY <1>5 DEF RecordDeployment
  <2> QED BY <1>5, <2>1, DeployingKeepsInv DEF RecordDeployment
<1>6. ASSUME NEW executed \in BOOLEAN, DeploymentFails(h, executed)
      PROVE  IngestInv'
  <2>1. CASE executed
    BY <1>6, <2>1, DeployingKeepsInv DEF DeploymentFails
  <2>2. CASE ~executed
    BY <1>1, <1>3, <1>6, <2>2 DEF DeploymentFails, Waiting, storeVars
  <2> QED BY <2>1, <2>2
<1>7. CASE RecordEvent(h)
  BY <1>7, RecordingKeepsInv DEF RecordEvent
<1>8. ASSUME NEW executed \in BOOLEAN, EventFails(h, executed)
      PROVE  IngestInv'
  <2>1. CASE executed
    BY <1>8, <2>1, RecordingKeepsInv DEF EventFails
  <2>2. CASE ~executed
    <3>1. e \in Events /\ e.id \in Ids
      BY <1>1, <1>8 DEF EventFails, ReadyForEvent, Waiting
    <3>2. Waiting(h, {"recorded"}) => e.slot # None
      BY DEF IngestInv, RequestsInv
    <3> QED BY <1>1, <1>3, <1>8, <2>2, <3>1, <3>2 DEF EventFails, storeVars
  <2> QED BY <2>1, <2>2
<1>9. ASSUME request' = [request EXCEPT ![h] = Idle],
             UNCHANGED <<storeVars, promised, overtaken>>,
             broken' = IF Waiting(h, {"recorded"}) THEN broken \union {e.id} ELSE broken
      PROVE  IngestInv'
  <2>1. Idle \in Requests /\ Idle.phase = "idle"
    BY DEF Idle, Requests
  <2>2. /\ request' \in [Handlers -> Requests] /\ request'[h].phase = "idle"
        /\ \A g \in Handlers : g # h => request'[g] = request[g]
    BY <1>1, <1>9, <2>1
  <2>3. ~Waiting(h, {"recorded"})' /\ ~Waiting(h, {"accepted"})'
    BY <2>2 DEF Waiting
  <2>4. /\ broken \subseteq broken' /\ broken' \subseteq Ids
        /\ Waiting(h, {"recorded"}) => e.id \in broken'
    BY <1>1, <1>9 DEF Waiting
  <2> QED BY <1>1, <1>9, <2>2, <2>3, <2>4, MovesKeepInv
<1>10. CASE Respond(h)
  BY <1>9, <1>10 DEF Respond, Waiting
<1>11. CASE Killed(h)
  BY <1>9, <1>11 DEF Killed
<1> QED
  BY <1>2, <1>4, <1>5, <1>6, <1>7, <1>8, <1>10, <1>11 DEF HandlerNext

LEMMA RestartKeepsInv ==
    ASSUME IngestInv, StoreInv', Restarted
    PROVE  IngestInv'
<1>1. /\ ttl \in Nat /\ ttl' \in Nat /\ ttl > 0 /\ ttl' > ttl
      /\ UNCHANGED <<deployments, events, chains, request, promised, broken, overtaken>>
  BY StorageAssumption
  DEF Restarted, LengthenTTL, Restart, IngestInv, StoreInv, StoreTypeOK
<1>2. IngestTypeOK' /\ RequestsInv'
  BY <1>1 DEF IngestInv, IngestTypeOK, StoreInv, RequestsInv, Waiting
<1>3. DeploymentsInv'
  BY <1>1 DEF IngestInv, DeploymentsInv, LivesWithinTTL, Present
<1>4. AcknowledgedSurvives' /\ DeploymentsHaveTheirEvents'
  BY <1>1
  DEF IngestInv, AcknowledgedSurvives, DeploymentsHaveTheirEvents, Present,
      Outlives, Waiting
<1> QED BY <1>2, <1>3, <1>4 DEF IngestInv

LEMMA NextKeepsIngestInv == IngestInv /\ [IngestNext]_ingestVars => IngestInv'
<1> SUFFICES ASSUME IngestInv, [IngestNext]_ingestVars PROVE IngestInv'
  OBVIOUS
<1>1. StoreInv'
  BY StoreStaysOK
<1>2. CASE UNCHANGED ingestVars
  BY <1>2
  DEF ingestVars, storeVars, IngestInv, IngestTypeOK, StoreTypeOK, StoreInv,
      LivesWithinTTL, Present, IndexOutlivesEvents, Outlives, RequestsInv,
      Waiting, DeploymentsInv, AcknowledgedSurvives, DeploymentsHaveTheirEvents
<1> QED
  BY <1>1, <1>2, SecondKeepsInv, RestartKeepsInv, HandlerKeepsInv DEF IngestNext

LEMMA IngestInvariance == IngestSpec => []IngestInv
BY InitEstablishesIngestInv, NextKeepsIngestInv, PTL DEF IngestSpec
-----------------------------------------------------------------------------
\* The variables of requests, store and histories keep their types.
THEOREM IngestTypeCorrect == IngestSpec => []IngestTypeOK
<1>1. IngestInv => IngestTypeOK
  BY DEF IngestInv
<1> QED BY <1>1, IngestInvariance, PTL

\* An event that was answered 201 is kept for its TTL (handlers.go:140).
THEOREM AcknowledgementsHold == IngestSpec => []AcknowledgedSurvives
<1>1. IngestInv => AcknowledgedSurvives
  BY DEF IngestInv
<1> QED BY <1>1, IngestInvariance, PTL

\* A deployment has its event for as long as it lives itself, unless a request
\* is or ended between its two saves (handlers.go:120-145).
THEOREM EventsFollowDeployments == IngestSpec => []DeploymentsHaveTheirEvents
<1>1. IngestInv => DeploymentsHaveTheirEvents
  BY DEF IngestInv
<1> QED BY <1>1, IngestInvariance, PTL

\* Concurrent requests, failures and crashes use the store as RedisStorage
\* says, so what is proved of StoreSpec holds of the bridge.
THEOREM IngestUsesStore == IngestSpec => StoreSpec
<1>1. IngestInit => StoreInit
  BY DEF IngestInit
<1>2. IngestInv /\ [IngestNext]_ingestVars => [StoreStep \/ LengthenTTL]_storeVars
  BY StepsUseStore DEF IngestInv
<1> QED BY <1>1, <1>2, IngestInvariance, PTL DEF IngestSpec, StoreSpec

\* Under concurrent requests, lost replies and killed replicas the readers of
\* the bridge still see what the Storage interface promises.
THEOREM IngestImplementsStorage ==
    ASSUME IdsAreUnique PROVE IngestSpec => ImplementsStorage
<1>1. IngestSpec => StoreSpec
  BY IngestUsesStore
<1>2. StoreSpec => ImplementsStorage
  BY RedisImplementsStorage
<1> QED BY <1>1, <1>2
-----------------------------------------------------------------------------
Serves(h, s) ==
    Waiting(h, {"accepted", "recorded"}) /\ request[h].event.slot = s

Kept(f) == deployments[f.slot].value = f \/ events[f.id].value = f

\* Of a slot in order, one request at a time is served; nothing that is kept
\* is newer than its deployment, which is the one found once it is recorded.
OneAtATime(s) ==
    \A g, h \in Handlers : Serves(g, s) /\ Serves(h, s) => g = h

NothingNewer(s) ==
    \A h \in Handlers : Serves(h, s) =>
      \A f \in Events : (f.slot = s /\ Kept(f)) => ~(f.time > request[h].event.time)

RecordedIsFound(s) ==
    \A h \in Handlers :
      /\ Serves(h, s) /\ Waiting(h, {"recorded"}) /\ Present(deployments[s])
      => deployments[s].value.time >= request[h].event.time

AcknowledgedIsFound(s) ==
    \A e \in Events :
      /\ e.slot = s /\ promised[e.id] # NotPromised /\ events[e.id].value = e
      /\ Present(deployments[s])
      => deployments[s].value.time >= e.time

InOrder(s) ==
    OneAtATime(s) /\ NothingNewer(s) /\ RecordedIsFound(s) /\ AcknowledgedIsFound(s)

OrderInv == \A s \in Slots \ overtaken : InOrder(s)

LEMMA Times == \A e \in Events : e.time \in Nat
BY Shape, StorageAssumption

\* Store and histories stay; no request is served that was not, or whose event
\* is another.
LEMMA LeavingKeepsOrder ==
    ASSUME NEW s, InOrder(s), UNCHANGED <<deployments, events, promised>>,
           \A h \in Handlers : Serves(h, s)' =>
             /\ Serves(h, s) /\ request'[h].event = request[h].event
             /\ Waiting(h, {"recorded"})' => Waiting(h, {"recorded"})
    PROVE  InOrder(s)'
<1>1. OneAtATime(s)'
  BY DEF InOrder, OneAtATime
<1>2. NothingNewer(s)'
  BY DEF InOrder, NothingNewer, Kept
<1>3. RecordedIsFound(s)'
  BY DEF InOrder, RecordedIsFound, Present
<1>4. AcknowledgedIsFound(s)'
  BY DEF InOrder, AcknowledgedIsFound, Present
<1> QED BY <1>1, <1>2, <1>3, <1>4 DEF InOrder

LEMMA AcceptKeepsOrder ==
    ASSUME IngestInv, OrderInv, NEW h \in Handlers, NEW e \in Events, Accept(h, e),
           NEW s \in Slots \ overtaken'
    PROVE  InOrder(s)'
<1>1. /\ request \in [Handlers -> Requests] /\ s \in Slots \ overtaken
      /\ s = e.slot => ~Overtakes(e)
      /\ UNCHANGED <<deployments, events, promised>>
  BY StorageAssumption DEF Accept, IngestInv, IngestTypeOK, storeVars
<1>2. /\ request'[h].phase = "accepted" /\ request'[h].event = e
      /\ \A g \in Handlers : g # h => request'[g] = request[g]
  BY <1>1 DEF Accept
<1>3. InOrder(s)
  BY <1>1 DEF OrderInv
<1>4. CASE s # e.slot
  <2>1. \A g \in Handlers : Serves(g, s)' =>
             /\ Serves(g, s) /\ request'[g].event = request[g].event
             /\ Waiting(g, {"recorded"})' => Waiting(g, {"recorded"})
    BY <1>2, <1>4 DEF Serves, Waiting
  <2> QED BY <1>1, <1>3, <2>1, LeavingKeepsOrder
<1>5. CASE s = e.slot
  <2>1. \A g \in Handlers : ~Serves(g, s)
    BY <1>1, <1>5 DEF Overtakes, Serves
  <2>2. \A f \in Events : f.slot = s /\ Kept(f) => ~(f.time > e.time)
    BY <1>1, <1>5 DEF Overtakes, Kept
  <2>3. \A g \in Handlers : Serves(g, s)' => g = h
    BY <1>2, <2>1 DEF Serves, Waiting
  <2>4. OneAtATime(s)'
    BY <2>3 DEF OneAtATime
  <2>5. NothingNewer(s)'
    BY <1>1, <1>2, <2>2, <2>3 DEF NothingNewer, Kept
  <2>6. RecordedIsFound(s)'
    BY <1>2, <2>3 DEF RecordedIsFound, Waiting
  <2>7. AcknowledgedIsFound(s)'
    BY <1>1, <1>3 DEF InOrder, AcknowledgedIsFound, Present
  <2> QED BY <2>4, <2>5, <2>6, <2>7 DEF InOrder
<1> QED BY <1>4, <1>5

LEMMA DeployingKeepsOrder ==
    ASSUME IngestInv, NEW h \in Handlers,
           LET e == request[h].event IN
           /\ Waiting(h, {"accepted"})
           /\ e.slot # None
           /\ SaveDeployment(e),
           NEW p \in {"recorded", "500"}, Goto(h, p),
           UNCHANGED <<events, promised>>,
           NEW s \in Slots, InOrder(s)
    PROVE  InOrder(s)'
<1> DEFINE e == request[h].event
<1>1. /\ e \in Events /\ e.slot \in Slots /\ e # None /\ e.time \in Nat
      /\ deployments \in [Slots -> Records]
  BY Shape, Times DEF IngestInv, RequestsInv, Waiting, StoreInv, StoreTypeOK
<1>2. /\ deployments'[e.slot].value = e
      /\ \A t \in Slots : t # e.slot => deployments'[t] = deployments[t]
  BY <1>1 DEF SaveDeployment, Stored
<1>3. /\ request'[h].phase = p /\ request'[h].event = e
      /\ \A g \in Handlers : g # h => request'[g] = request[g]
  BY Moves DEF IngestInv, IngestTypeOK, Phases
<1>4. \A g \in Handlers : Serves(g, s)' => Serves(g, s) /\ request'[g].event = request[g].event
  BY <1>3 DEF Serves, Waiting
<1>5. OneAtATime(s)'
  BY <1>4 DEF InOrder, OneAtATime
<1>6. CASE s # e.slot
  <2>1. deployments'[s] = deployments[s]
    BY <1>2, <1>6
  <2>2. \A g \in Handlers : Serves(g, s)' => g # h
    BY <1>4, <1>6 DEF Serves
  <2>3. NothingNewer(s)'
    BY <1>4, <2>1 DEF InOrder, NothingNewer, Kept
  <2>4. RecordedIsFound(s)'
    BY <1>3, <1>4, <2>1, <2>2 DEF InOrder, RecordedIsFound, Present, Waiting
  <2>5. AcknowledgedIsFound(s)'
    BY <2>1 DEF InOrder, AcknowledgedIsFound, Present
  <2> QED BY <1>5, <2>3, <2>4, <2>5 DEF InOrder
<1>7. CASE s = e.slot
  <2>1. Serves(h, s)
    BY <1>7 DEF Serves, Waiting
  <2>2. \A g \in Handlers : Serves(g, s)' => g = h /\ request'[g].event = e
    BY <1>3, <1>4, <2>1 DEF InOrder, OneAtATime
  <2>3. NothingNewer(s)'
    <3>1. ASSUME NEW f \in Events, f.slot = s, Kept(f)' PROVE ~(f.time > e.time)
      <4>1. CASE f = e
        BY <1>1, <4>1
      <4>2. CASE events[f.id].value = f
        BY <2>1, <3>1, <4>2 DEF InOrder, NothingNewer, Kept
      <4> QED BY <1>2, <1>7, <3>1, <4>1, <4>2 DEF Kept
    <3> QED BY <2>2, <3>1 DEF NothingNewer
  <2>4. e.time >= e.time
    BY <1>1
  <2>5. RecordedIsFound(s)'
    BY <1>2, <1>7, <2>2, <2>4 DEF RecordedIsFound
  <2>6. AcknowledgedIsFound(s)'
    <3>1. ASSUME NEW f \in Events, f.slot = s, events[f.id].value = f
          PROVE  e.time >= f.time
      <4>1. ~(f.time > e.time)
        BY <2>1, <3>1 DEF InOrder, NothingNewer, Kept
      <4> QED BY <1>1, <4>1, Times
    <3> QED BY <1>2, <1>7, <3>1 DEF AcknowledgedIsFound
  <2> QED BY <1>5, <2>3, <2>5, <2>6 DEF InOrder
<1> QED BY <1>6, <1>7

LEMMA RecordingKeepsOrder ==
    ASSUME IngestInv, NEW h \in Handlers,
           LET e == request[h].event IN
           /\ ReadyForEvent(h)
           /\ SaveEvent(e)
           /\ promised' = promised \/ promised' = [promised EXCEPT ![e.id] = Expiration],
           NEW p \in {"201", "500"}, Goto(h, p),
           UNCHANGED deployments,
           NEW s \in Slots, InOrder(s)
    PROVE  InOrder(s)'
<1> DEFINE e == request[h].event
<1>1. /\ e \in Events /\ e.id \in Ids /\ e # None
      /\ events \in [Ids -> Records] /\ promised \in [Ids -> Lives]
      /\ \A f \in Events : f.id \in Ids
  BY Shape
  DEF IngestInv, RequestsInv, ReadyForEvent, Waiting, StoreInv, StoreTypeOK, IngestTypeOK
<1>2. /\ events'[e.id].value = e
      /\ \A i \in Ids : i # e.id => events'[i] = events[i] /\ promised'[i] = promised[i]
  BY <1>1 DEF SaveEvent, Stored
<1>3. /\ request'[h].phase = p /\ request'[h].event = e
      /\ \A g \in Handlers : g # h => request'[g] = request[g]
  BY Moves DEF IngestInv, IngestTypeOK, Phases
<1>4. \A g \in Handlers : Serves(g, s)' => g # h /\ Serves(g, s) /\ request'[g] = request[g]
  BY <1>3 DEF Serves, Waiting
<1>5. s = e.slot => Serves(h, s) /\ Waiting(h, {"recorded"})
  BY StorageAssumption DEF ReadyForEvent, Serves, Waiting
<1>6. \A f \in Events : events'[f.id].value = f =>
        f = e \/ (f.id # e.id /\ events[f.id].value = f)
  BY <1>1, <1>2
<1>7. OneAtATime(s)'
  BY <1>4 DEF InOrder, OneAtATime
<1>8. NothingNewer(s)'
  <2>1. ASSUME NEW g \in Handlers, Serves(g, s)' PROVE s # e.slot
    BY <1>4, <1>5, <2>1 DEF InOrder, OneAtATime
  <2>2. \A f \in Events : f.slot = s /\ Kept(f)' => f = e \/ Kept(f)
    BY <1>6 DEF Kept
  <2> QED BY <1>4, <2>1, <2>2 DEF InOrder, NothingNewer
<1>9. RecordedIsFound(s)'
  BY <1>4 DEF InOrder, RecordedIsFound, Present, Waiting
<1>10. AcknowledgedIsFound(s)'
  <2>1. ASSUME NEW f \in Events, f.slot = s, promised'[f.id] # NotPromised,
               events'[f.id].value = f, Present(deployments[s])
        PROVE  deployments[s].value.time >= f.time
    <3>1. CASE f = e
      BY <1>5, <2>1, <3>1 DEF InOrder, RecordedIsFound
    <3>2. CASE f.id # e.id /\ events[f.id].value = f
      BY <1>1, <1>2, <2>1, <3>2 DEF InOrder, AcknowledgedIsFound
    <3> QED BY <1>6, <2>1, <3>1, <3>2
  <2> QED BY <2>1 DEF AcknowledgedIsFound, Present
<1> QED BY <1>7, <1>8, <1>9, <1>10 DEF InOrder

LEMMA SecondKeepsOrder ==
    ASSUME IngestInv, Second, NEW s \in Slots, InOrder(s)
    PROVE  InOrder(s)'
<1>1. /\ \A i \in Ids : events[i] \in Records
      /\ \A t \in Slots : deployments[t] \in Records
      /\ promised \in [Ids -> Lives]
      /\ \A f \in Events : f.id \in Ids /\ f # None
  BY Shape DEF IngestInv, IngestTypeOK, StoreInv, StoreTypeOK
<1>2. /\ \A i \in Ids : events'[i] = IF Lapses(events[i]) THEN Missing ELSE Aged(events[i])
      /\ \A t \in Slots : deployments'[t] =
           IF Lapses(deployments[t]) THEN Missing ELSE Aged(deployments[t])
      /\ \A i \in Ids : promised'[i] = IF promised[i] \in {Forever, 0}
                                       THEN promised[i] ELSE promised[i] - 1
      /\ UNCHANGED request
  BY DEF Second, SecondPasses
<1>3. \A key \in Records : Aged(key).value = key.value
  BY DEF Aged, Records
<1>4. \A f \in Events : events'[f.id].value = f => events[f.id].value = f
  BY <1>1, <1>2, <1>3 DEF Missing
<1>5. /\ Present(deployments[s])' => Present(deployments[s])
      /\ Present(deployments[s])' => deployments'[s].value = deployments[s].value
  BY <1>1, <1>2, <1>3 DEF Present, Missing
<1>6. \A f \in Events : deployments'[s].value = f => deployments[s].value = f
  BY <1>1, <1>2, <1>3 DEF Missing
<1>7. \A i \in Ids : promised'[i] # NotPromised => promised[i] # NotPromised
  BY <1>2 DEF NotPromised, Forever
<1>8. OneAtATime(s)'
  BY <1>2 DEF InOrder, OneAtATime, Serves, Waiting
<1>9. NothingNewer(s)'
  BY <1>2, <1>4, <1>6 DEF InOrder, NothingNewer, Kept, Serves, Waiting
<1>10. RecordedIsFound(s)'
  BY <1>2, <1>5 DEF InOrder, RecordedIsFound, Serves, Waiting
<1>11. AcknowledgedIsFound(s)'
  BY <1>1, <1>4, <1>5, <1>7 DEF InOrder, AcknowledgedIsFound
<1> QED BY <1>8, <1>9, <1>10, <1>11 DEF InOrder

LEMMA HandlerKeepsOrder ==
    ASSUME IngestInv, OrderInv, NEW h \in Handlers, HandlerNext(h),
           NEW s \in Slots \ overtaken'
    PROVE  InOrder(s)'
<1>1. request \in [Handlers -> Requests]
  BY DEF IngestInv, IngestTypeOK
<1>2. CASE \E e \in Events : Accept(h, e)
  BY <1>2, AcceptKeepsOrder
<1>3. ASSUME UNCHANGED overtaken PROVE InOrder(s)
  BY <1>3 DEF OrderInv
\* The handler ends its request, or its reply, and touches nothing.
<1>4. ASSUME UNCHANGED <<deployments, events, promised, overtaken>>,
             \A g \in Handlers : g # h => request'[g] = request[g],
             ~Waiting(h, {"accepted", "recorded"})'
      PROVE  InOrder(s)'
  <2>1. \A g \in Handlers : Serves(g, s)' =>
             /\ Serves(g, s) /\ request'[g].event = request[g].event
             /\ Waiting(g, {"recorded"})' => Waiting(g, {"recorded"})
    BY <1>4 DEF Serves, Waiting
  <2> QED BY <1>3, <1>4, <2>1, LeavingKeepsOrder
<1>5. ASSUME NEW p \in {"400", "500"}, Goto(h, p),
             UNCHANGED <<deployments, events, promised, overtaken>>
      PROVE  InOrder(s)'
  <2>1. /\ request'[h].phase = p
        /\ \A g \in Handlers : g # h => request'[g] = request[g]
    BY <1>1, <1>5, Moves DEF Phases
  <2> QED BY <1>4, <1>5, <2>1 DEF Waiting
<1>6. ASSUME request' = [request EXCEPT ![h] = Idle],
             UNCHANGED <<deployments, events, promised, overtaken>>
      PROVE  InOrder(s)'
  <2>1. /\ request'[h].phase = "idle"
        /\ \A g \in Handlers : g # h => request'[g] = request[g]
    BY <1>1, <1>6 DEF Idle
  <2> QED BY <1>4, <1>6, <2>1 DEF Waiting
<1>7. CASE Refuse(h)
  BY <1>5, <1>7 DEF Refuse, storeVars
<1>8. CASE RecordDeployment(h)
  BY <1>3, <1>8, DeployingKeepsOrder DEF RecordDeployment
<1>9. ASSUME NEW executed \in BOOLEAN, DeploymentFails(h, executed)
      PROVE  InOrder(s)'
  <2>1. CASE executed
    BY <1>3, <1>9, <2>1, DeployingKeepsOrder DEF DeploymentFails
  <2>2. CASE ~executed
    BY <1>5, <1>9, <2>2 DEF DeploymentFails
  <2> QED BY <2>1, <2>2
<1>10. CASE RecordEvent(h)
  BY <1>3, <1>10, RecordingKeepsOrder DEF RecordEvent
<1>11. ASSUME NEW executed \in BOOLEAN, EventFails(h, executed)
       PROVE  InOrder(s)'
  <2>1. CASE executed
    BY <1>3, <1>11, <2>1, RecordingKeepsOrder DEF EventFails
  <2>2. CASE ~executed
    BY <1>5, <1>11, <2>2 DEF EventFails
  <2> QED BY <2>1, <2>2
<1>12. CASE Respond(h) \/ Killed(h)
  BY <1>6, <1>12 DEF Respond, Killed, storeVars
<1> QED BY <1>2, <1>7, <1>8, <1>9, <1>10, <1>11, <1>12 DEF HandlerNext

LEMMA OrderInvHolds == IngestSpec => []OrderInv
<1>1. IngestInit => OrderInv
  <2> SUFFICES ASSUME IngestInit, NEW s \in Slots PROVE InOrder(s)
    BY DEF OrderInv
  <2>1. \A h \in Handlers : ~Waiting(h, {"accepted", "recorded"})
    BY DEF IngestInit, Waiting, Idle
  <2>2. \A e \in Events : promised[e.id] = NotPromised
    BY Shape DEF IngestInit
  <2> QED
    BY <2>1, <2>2
    DEF InOrder, OneAtATime, NothingNewer, RecordedIsFound, AcknowledgedIsFound, Serves
<1>2. ASSUME IngestInv, OrderInv, [IngestNext]_ingestVars PROVE OrderInv'
  <2> SUFFICES ASSUME NEW s \in Slots \ overtaken' PROVE InOrder(s)'
    BY DEF OrderInv
  <2>1. CASE Second
    <3>1. InOrder(s)
      BY <1>2, <2>1 DEF OrderInv, Second
    <3> QED BY <1>2, <2>1, <3>1, SecondKeepsOrder
  <2>2. CASE Restarted \/ UNCHANGED ingestVars
    <3>1. /\ UNCHANGED <<deployments, events, request, promised, overtaken>>
      BY <2>2 DEF Restarted, LengthenTTL, Restart, ingestVars, storeVars
    <3>2. InOrder(s)
      BY <1>2, <3>1 DEF OrderInv
    <3> QED BY <3>1, <3>2, LeavingKeepsOrder DEF Serves, Waiting
  <2>3. CASE \E h \in Handlers : HandlerNext(h)
    BY <1>2, <2>3, HandlerKeepsOrder
  <2> QED BY <1>2, <2>1, <2>2, <2>3 DEF IngestNext
<1> QED BY <1>1, <1>2, IngestInvariance, PTL DEF IngestSpec
-----------------------------------------------------------------------------
\* A pipeline that sends the deployments of a slot one at a time and in order
\* finds the newest it was acknowledged, through retries, lost replies, killed
\* replicas and restarts (redis.go:83).
THEOREM InOrderStaysCurrent == IngestSpec => []InOrderIsCurrent
<1>1. IngestInv /\ OrderInv => InOrderIsCurrent
  <2> SUFFICES ASSUME IngestInv, OrderInv, NEW e \in Events,
                      e.slot # None, e.slot \notin overtaken,
                      promised[e.id] # NotPromised, events[e.id].value = e,
                      Present(deployments[e.slot])
               PROVE  deployments[e.slot].value.time >= e.time
    BY DEF InOrderIsCurrent
  <2>1. e.slot \in Slots \ overtaken
    BY Shape
  <2> QED BY <2>1 DEF OrderInv, InOrder, AcknowledgedIsFound
<1> QED BY <1>1, OrderInvHolds, IngestInvariance, PTL
=============================================================================
