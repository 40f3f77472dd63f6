------------------------------- MODULE Ingest -------------------------------
(***************************************************************************)
(* internal/api, POST /api/v1/events: concurrent requests, on any number   *)
(* of replicas, that record deployments and events in one Redis.           *)
(*                                                                         *)
(* HandlePostEvent saves the deployment first and the event second, as two *)
(* commands.  Either may fail, with or without having been executed; the   *)
(* replica may be killed, or the client may go away, between them; keys    *)
(* expire meanwhile, and the bridge may be restarted.                      *)
(***************************************************************************)
EXTENDS RedisStorage

CONSTANTS Handlers  \* goroutines serving requests

VARIABLES request,   \* handler -> the request it serves
          promised,  \* id -> life an acknowledged event still has (history)
          broken,    \* ids whose deployment was recorded, then the event was
                     \* not, in some request since the last success (history)
          overtaken  \* slots whose deployments were not sent one at a time
                     \* and in the order of their times (history)

ingestVars == <<storeVars, request, promised, broken, overtaken>>

Idle == [phase |-> "idle", event |-> None]
Requests == [phase : {"idle", "accepted", "recorded", "201", "400", "500"},
             event : Events \union {None}]

NotPromised == 0

IngestTypeOK ==
    /\ StoreTypeOK
    /\ request \in [Handlers -> Requests]
    /\ promised \in [Ids -> Lives]
    /\ broken \subseteq Ids
    /\ overtaken \subseteq Slots

IngestInit ==
    /\ StoreInit
    /\ request = [h \in Handlers |-> Idle]
    /\ promised = [i \in Ids |-> NotPromised]
    /\ broken = {}
    /\ overtaken = {}
-----------------------------------------------------------------------------
Goto(h, phase) == request' = [request EXCEPT ![h].phase = phase]

Waiting(h, phases) == request[h].phase \in phases

\* A deployment sent now would overtake, or be older than, another of its slot.
Overtakes(e) ==
    \/ \E h \in Handlers : /\ Waiting(h, {"accepted", "recorded"})
                           /\ request[h].event.slot = e.slot
    \/ \E f \in Events : /\ f.slot = e.slot /\ f.time > e.time
                         /\ deployments[e.slot].value = f \/ events[f.id].value = f

\* The body is read, parsed and valid; a retry is a new request.
Accept(h, e) ==
    /\ Waiting(h, {"idle"})
    /\ request' = [request EXCEPT ![h] = [phase |-> "accepted", event |-> e]]
    /\ overtaken' = IF e.slot # None /\ Overtakes(e)
                    THEN overtaken \union {e.slot} ELSE overtaken
    /\ UNCHANGED <<storeVars, promised, broken>>

\* Too large, unreadable, malformed or missing a required field: nothing is
\* stored.
Refuse(h) ==
    /\ Waiting(h, {"idle"})
    /\ Goto(h, "400")
    /\ UNCHANGED <<storeVars, promised, broken, overtaken>>

RecordDeployment(h) ==
    LET e == request[h].event IN
    /\ Waiting(h, {"accepted"})
    /\ e.slot # None
    /\ SaveDeployment(e)
    /\ Goto(h, "recorded")
    /\ UNCHANGED <<ttl, events, chains, promised, broken, overtaken>>

\* SaveDeployment returns an error: the command did not reach Redis, or its
\* reply was lost after Redis executed it.
DeploymentFails(h, executed) ==
    LET e == request[h].event IN
    /\ Waiting(h, {"accepted"})
    /\ e.slot # None
    /\ IF executed
       THEN SaveDeployment(e) /\ broken' = broken \union {e.id}
       ELSE UNCHANGED <<deployments, broken>>
    /\ Goto(h, "500")
    /\ UNCHANGED <<ttl, events, chains, promised, overtaken>>

ReadyForEvent(h) ==
    \/ Waiting(h, {"recorded"})
    \/ Waiting(h, {"accepted"}) /\ request[h].event.slot = None

\* SaveEvent succeeds and the client is told 201.
RecordEvent(h) ==
    LET e == request[h].event IN
    /\ ReadyForEvent(h)
    /\ SaveEvent(e)
    /\ promised' = [promised EXCEPT ![e.id] = Expiration]
    /\ broken' = broken \ {e.id}
    /\ Goto(h, "201")
    /\ UNCHANGED <<ttl, deployments, overtaken>>

\* Mutant: a failed save is undone by deleting the event.
EventFailsAndUndoes(h, executed) ==
    LET e == request[h].event IN
    /\ ReadyForEvent(h)
    /\ events' = [events EXCEPT ![e.id] = Missing]
    /\ broken' = broken \union {e.id}
    /\ Goto(h, "500")
    /\ UNCHANGED <<ttl, deployments, chains, promised, overtaken>>

\* SaveEvent returns an error, with the transaction executed or not.
EventFails(h, executed) ==
    LET e == request[h].event IN
    /\ ReadyForEvent(h)
    /\ IF executed
       THEN SaveEvent(e) /\ broken' = broken \ {e.id}
       ELSE /\ UNCHANGED <<events, chains>>
            /\ broken' = IF e.slot = None THEN broken
                         ELSE broken \union {e.id}
    /\ Goto(h, "500")
    /\ UNCHANGED <<ttl, deployments, promised, overtaken>>

\* The response is written and the handler is free again.
Respond(h) ==
    /\ Waiting(h, {"201", "400", "500"})
    /\ request' = [request EXCEPT ![h] = Idle]
    /\ UNCHANGED <<storeVars, promised, broken, overtaken>>

\* The replica is killed in the middle of a request; Redis keeps what it has.
Killed(h) ==
    LET e == request[h].event IN
    /\ Waiting(h, {"accepted", "recorded"})
    /\ request' = [request EXCEPT ![h] = Idle]
    /\ broken' = IF Waiting(h, {"recorded"}) THEN broken \union {e.id} ELSE broken
    /\ UNCHANGED <<storeVars, promised, overtaken>>

Second ==
    /\ SecondPasses
    /\ promised' = [i \in Ids |-> IF promised[i] \in {Forever, 0}
                                  THEN promised[i] ELSE promised[i] - 1]
    /\ UNCHANGED <<request, broken, overtaken>>

\* The replicas are stopped when they are idle and started with a longer
\* redisTTL.
Restarted ==
    /\ \A h \in Handlers : Waiting(h, {"idle"})
    /\ LengthenTTL
    /\ UNCHANGED <<request, promised, broken, overtaken>>

HandlerNext(h) ==
    \/ \E e \in Events : Accept(h, e)
    \/ Refuse(h)
    \/ RecordDeployment(h)
    \/ \E executed \in BOOLEAN : DeploymentFails(h, executed)
    \/ RecordEvent(h)
    \/ \E executed \in BOOLEAN : EventFails(h, executed)
    \/ Respond(h)
    \/ Killed(h)

IngestNext == Second \/ Restarted \/ \E h \in Handlers : HandlerNext(h)

IngestSpec == IngestInit /\ [][IngestNext]_ingestVars
-----------------------------------------------------------------------------
\* An event the client was told is stored can be fetched for its whole TTL,
\* whatever other requests, retries of it that fail, and crashes do.
AcknowledgedSurvives ==
    \A i \in Ids : promised[i] # NotPromised =>
      Present(events[i]) /\ Outlives(events[i].left, promised[i])

\* GET /deployments/{service} links to the deployment's event and chain: the
\* event is stored at least as long as the deployment, unless a request for it
\* is between its two saves or ended there.
DeploymentsHaveTheirEvents ==
    \A s \in Slots : LET d == deployments[s] IN
      Present(d) =>
        \/ /\ Present(events[d.value.id])
           /\ Outlives(events[d.value.id].left, d.left)
        \/ \E h \in Handlers : /\ Waiting(h, {"recorded"})
                               /\ request[h].event.id = d.value.id
        \/ d.value.id \in broken

\* A pipeline that sends the deployments of a slot one at a time and in order,
\* retrying as it likes, always finds its newest acknowledged one (redis.go:83).
InOrderIsCurrent ==
    \A e \in Events :
      /\ e.slot # None /\ e.slot \notin overtaken
      /\ promised[e.id] # NotPromised /\ events[e.id].value = e
      => ~Present(deployments[e.slot]) \/ deployments[e.slot].value.time >= e.time

\* interface.go:9-11: "a lookup always returns what is currently running
\* there": no acknowledged deployment of the slot is newer than the one found.
CurrentlyRunning ==
    \A e \in Events :
      e.slot # None /\ promised[e.id] # NotPromised /\ events[e.id].value = e =>
        ~Present(deployments[e.slot]) \/ deployments[e.slot].value.time >= e.time
=============================================================================
