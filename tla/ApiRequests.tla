------------------------------ MODULE ApiRequests ------------------------------
(***************************************************************************)
(* One request of each side of the bridge, side by side: a producer posts  *)
(* an event, and an application asks what is running, over HTTP with the   *)
(* client of pkg/otelbridge or, in the bridge itself, directly with        *)
(* StorageResolver.  Bodies are refused, names are escaped and routed,     *)
(* storage fails before or after it executed a save, handlers panic,       *)
(* answers are lost and counters are incremented.                          *)
(*                                                                         *)
(* Storage is the Redis backend: a deployment replaces what its key held,  *)
(* two pairs of names may have one key, keys expire, and the latest of a   *)
(* service is found by a SCAN and one GET after another, between which     *)
(* all of this goes on.  A lookup of the memory backend, under its lock,   *)
(* is the scan that nothing interrupts.                                    *)
(***************************************************************************)
EXTENDS EventModel

CONSTANTS Inputs,       \* CDEvents that producers send
          Recorded,     \* deployments that may be there before
          Lookups,      \* the service and environment of an application's call
          Watched,      \* bound: inputs while applications call and keys expire
          KeyOf(_, _),  \* the Redis key of a service and an environment
          Escaped       \* names with "/", ";" or ",", as they stand in a URL

NotFound == [error |-> "not found"]  \* storage.ErrNotFound, otelbridge.ErrNotFound
Failure == [error |-> "other"]
NoReply == [error |-> "none"]        \* the call has not ended

ASSUME ApiAssumption ==
    /\ Watched \subseteq Inputs
    /\ Lookups \subseteq [service : STRING, environment : STRING]
    \* A kind, with or without the dev.cdevents prefix and a version after it.
    /\ \A e \in Inputs :
         /\ e.prefix \in {<<>>, <<"dev", "cdevents">>}
         /\ e.kind \in STRING \X STRING /\ e.kind # <<"dev", "cdevents">>
         /\ e.version \in Seq(VersionSegments)
         /\ e.timestamp \in Nat
         /\ e.contextLinks \in Seq(ToSet(e.contextLinks))
         /\ e.topLinks \in Seq(ToSet(e.topLinks))
    \* Recorded from events that were valid, and that are not sent again: an
    \* event sent again is the matter of Ingest.
    /\ \A ds \in Recorded : \A d \in ds :
         /\ d.service # NoText /\ d.eventId # NoText /\ d.deployedAt \in Nat \ {0}
         /\ \A e \in Inputs : d.eventId # e.id
    \* They are stored, one under each key, and none is an error.
    /\ \A ds \in Recorded : NotFound \notin ds
    /\ \A ds \in Recorded : \A d, o \in ds :
         KeyOf(d.service, d.environment) = KeyOf(o.service, o.environment) => d = o

VARIABLES event,        \* what was posted
          phase,        \* how far HandlePostEvent has come with it
          status,       \* its HTTP status
          links,        \* context.links, once parsed
          record,       \* the event saved by SaveEvent
          deployments,  \* what is stored, one deployment under each key
          counted,      \* the metrics incremented
          call,         \* the application's call
          owed,         \* keys that its SCAN must still return
          found,        \* deployments of its service that it has read
          present,      \* in place at some instant of the call (history)
          steady,       \* in place all through it (history)
          held          \* slots with a deployment all through it (history)

postVars == <<event, phase, status, links, record, counted>>
scanVars == <<owed, found>>
historyVars == <<present, steady, held>>
storeVars == <<deployments, call, scanVars, historyVars>>
vars == <<postVars, storeVars>>

Key(d) == KeyOf(d.service, d.environment)
Slot(d) == <<d.service, d.environment>>
Keys(ds) == {Key(d) : d \in ds}
Slots(ds) == {Slot(d) : d \in ds}

Idle == [phase |-> "idle", via |-> "http", service |-> "", environment |-> "",
         status |-> 0, reply |-> NoReply]

Init ==
    /\ event \in Inputs
    /\ phase = "posted" /\ status = 0
    /\ links = <<>> /\ record = None /\ counted = <<>>
    /\ deployments \in Recorded
    /\ call = Idle /\ owed = {} /\ found = {}
    /\ present = {} /\ steady = {} /\ held = {}
-----------------------------------------------------------------------------
Answered(code, counter) ==
    /\ phase' = "answered" /\ status' = code /\ counted' = counted \o counter

\* io.ReadAll fails, and Parse of JSON that does not decode.
RefuseBody ==
    /\ phase = "posted"
    /\ \/ Answered(413, <<"payload_too_large">>)
       \/ Answered(400, <<"unreadable_body">>)
       \/ Answered(400, <<"parse">>)
    /\ UNCHANGED <<event, links, record, storeVars>>

Parse ==
    /\ phase = "posted"
    /\ links' = NormalizeLinks(event.contextLinks \o event.topLinks)
    /\ phase' = "parsed"
    /\ UNCHANGED <<event, status, record, counted, storeVars>>

Refuse ==
    /\ phase = "parsed" /\ ~Validate(event)
    /\ Answered(400, <<"validation">>)
    /\ UNCHANGED <<event, links, record, storeVars>>

\* What a call that is under way could have observed of the store it meets.
Observe ==
    IF call.phase \in {"sent", "looking", "served"}
    THEN /\ owed' = owed \cap Keys(deployments')
         /\ present' = present \cup deployments'
         /\ steady' = steady \cap deployments'
         /\ held' = held \cap Slots(deployments')
    ELSE UNCHANGED <<owed, historyVars>>

\* SET, whatever the key held before.
Saved(d) ==
    /\ deployments' = {o \in deployments : Key(o) # Key(d)} \cup {d}
    /\ Observe
    /\ UNCHANGED <<call, found>>

\* The TTL of a key runs out: the deployment of an event that is being handled
\* outlives its request, which is the one bound on the order they expire in.
Expire(d) ==
    /\ event \in Watched
    /\ d \in deployments /\ d.eventId # event.id
    /\ deployments' = deployments \ {d}
    /\ Observe
    /\ UNCHANGED <<postVars, call, found>>

RecordDeployment ==
    /\ phase = "parsed" /\ Validate(event) /\ IsDeployment(event)
    /\ Saved(ToDeployment(event, links))
    /\ phase' = "saved"
    /\ UNCHANGED <<event, status, links, record, counted>>

\* Mutant: the error is answered, and the handler goes on.
DeploymentFailsOnly ==
    /\ phase = "parsed" /\ Validate(event) /\ IsDeployment(event)
    /\ phase' = "saved" /\ counted' = <<"storage">>
    /\ UNCHANGED <<event, status, links, record, storeVars>>

\* Storage answers with an error, but may have saved it.
DeploymentFails ==
    /\ phase = "parsed" /\ Validate(event) /\ IsDeployment(event)
    /\ Answered(500, <<"storage">>)
    /\ \/ Saved(ToDeployment(event, links))
       \/ UNCHANGED storeVars
    /\ UNCHANGED <<event, links, record>>

ReadyForEvent ==
    \/ phase = "saved"
    \/ phase = "parsed" /\ Validate(event) /\ ~IsDeployment(event)

RecordEvent ==
    /\ ReadyForEvent
    /\ record' = ToStoredEvent(event, links)
    /\ Answered(201, <<"received">>)
    /\ UNCHANGED <<event, links, storeVars>>

EventFails ==
    /\ ReadyForEvent
    /\ record' \in {record, ToStoredEvent(event, links)}
    /\ Answered(500, <<"storage">>)
    /\ UNCHANGED <<event, links, storeVars>>

\* RecoveryMiddleware answers for a handler that panics, and counts nothing.
PostPanics ==
    /\ phase \in {"posted", "parsed", "saved"}
    /\ Answered(500, <<>>)
    /\ UNCHANGED <<event, links, record, storeVars>>
-----------------------------------------------------------------------------
\* {service} as the router hands it over: it matches the path as it was sent
\* when that is not how net/url would write the path.
Routed(service) ==
    IF service \in DOMAIN Escaped THEN Escaped[service] ELSE service

\* GetDeployment of the client, which asks for no service without a name, and
\* ResolveDeployment of StorageResolver, which asks for the latest only.
Begin(l, via) ==
    /\ call.phase = "idle" /\ event \in Watched
    /\ via = "direct" => l.environment = ""
    /\ call' = IF via = "http" /\ l.service = ""
               THEN [call EXCEPT !.phase = "done", !.reply = Failure]
               ELSE [call EXCEPT !.phase = "sent", !.via = via, !.service = l.service,
                                 !.environment = l.environment]
    /\ present' = deployments /\ steady' = deployments /\ held' = Slots(deployments)
    /\ UNCHANGED <<postVars, deployments, scanVars>>

\* The service that storage is asked for.
Target == IF call.via = "http" THEN Routed(call.service) ELSE call.service

\* GetLatestDeployment begins its SCAN, which must return every key that is
\* there all along.  A key that the pattern matches for another service is read
\* and passed over, as one that is gone is.
StartScan ==
    /\ call.phase = "sent" /\ call.environment = ""
    /\ call' = [call EXCEPT !.phase = "looking"]
    /\ owed' = Keys({d \in deployments : d.service = Target})
    /\ UNCHANGED <<postVars, deployments, found, historyVars>>

\* The SCAN returns a key, which is read: one that it owes, or another, or one
\* it has returned already.
ReadKey(k) ==
    /\ call.phase = "looking"
    /\ owed' = owed \ {k}
    /\ found' = found \cup {d \in deployments : Key(d) = k /\ d.service = Target}
    /\ UNCHANGED <<postVars, deployments, call, historyVars>>

\* What storage answers: the newest of a scan that has ended, any of them at
\* equal times, or the record of a key.
Looked(d) ==
    \/ /\ call.phase = "looking" /\ owed = {}
       /\ \/ found = {} /\ d = NotFound
          \/ d \in found /\ \A o \in found : o.deployedAt <= d.deployedAt
    \/ /\ call.phase = "sent" /\ call.environment # ""
       /\ LET key == KeyOf(Target, call.environment)
          IN  \/ key \notin Keys(deployments) /\ d = NotFound
              \/ d \in deployments /\ Key(d) = key

\* The handler or the resolver returns with c.
LookupEnds(c) ==
    /\ call' = c /\ owed' = {} /\ found' = {}
    /\ UNCHANGED <<postVars, deployments, historyVars>>

\* HandleGetDeployment: 404 for storage.ErrNotFound.
HandleGetDeployment(d) ==
    /\ call.via = "http" /\ Looked(d)
    /\ LookupEnds([call EXCEPT !.phase = "served", !.reply = d,
                               !.status = IF d = NotFound THEN 404 ELSE 200])

\* Mutant: an error of storage is taken for the absence of a deployment.
GetDeploymentAbsent ==
    /\ call.phase \in {"sent", "looking"} /\ call.via = "http"
    /\ LookupEnds([call EXCEPT !.phase = "served", !.status = 404])

\* Storage fails, or the handler panics.
GetDeploymentFails ==
    /\ call.phase \in {"sent", "looking"} /\ call.via = "http"
    /\ LookupEnds([call EXCEPT !.phase = "served", !.status = 500])

\* The client reads the answer: 200, 404, or a status that is an error.
Receive ==
    /\ call.phase = "served"
    /\ LookupEnds([call EXCEPT !.phase = "done",
                               !.reply = IF call.status = 200 THEN call.reply
                                         ELSE IF call.status = 404 THEN NotFound
                                         ELSE Failure])

\* A timeout, a connection that breaks, a body that is cut off.
Lose ==
    /\ call.phase \in {"sent", "looking", "served"} /\ call.via = "http"
    /\ LookupEnds([call EXCEPT !.phase = "done", !.reply = Failure])

\* StorageResolver: no URL, no client; an error is passed on.
ResolveFromStore(d) ==
    /\ call.via = "direct" /\ Looked(d)
    /\ LookupEnds([call EXCEPT !.phase = "done", !.reply = d])

ResolveFails ==
    /\ call.phase \in {"sent", "looking"} /\ call.via = "direct"
    /\ LookupEnds([call EXCEPT !.phase = "done", !.reply = Failure])

Next ==
    \/ RefuseBody \/ Parse \/ Refuse
    \/ RecordDeployment \/ DeploymentFails
    \/ RecordEvent \/ EventFails \/ PostPanics
    \/ \E l \in Lookups, via \in {"http", "direct"} : Begin(l, via)
    \/ StartScan
    \/ \E k \in owed \cup Keys(deployments) : ReadKey(k)
    \/ \E d \in deployments \cup found \cup {NotFound} :
         HandleGetDeployment(d) \/ ResolveFromStore(d)
    \/ GetDeploymentFails \/ ResolveFails \/ Receive \/ Lose
    \/ \E d \in deployments : Expire(d)

Spec == Init /\ [][Next]_vars
-----------------------------------------------------------------------------
\* types.go: callers dispatch "without caring about the schema version".  The
\* events recorded as deployments are the service.deployed, .upgraded and
\* .rolledback ones, in every version, with or without the dev.cdevents prefix.
DeploymentsAreRecognised ==
    status = 201 =>
      ((\E d \in deployments : d.eventId = event.id) <=> event.kind \in DeploymentKinds)

\* Whatever a producer leaves out of a deployment, what is recorded has a
\* service, an event and a time to be found and ordered by.
DeploymentsAreNamed ==
    \A d \in deployments : d.service # NoText /\ d.eventId # NoText /\ d.deployedAt # 0

\* The commit and the repository on the spans of a deployment are those that
\* the chain of the same event gives as its root cause.
CauseReachesSpans ==
    \A d \in deployments :
      (record # None /\ d.eventId = record.id) =>
        LET cause == ExtractChangeInfo(record)
            span == Attributes(d)
        IN  \A key \in {"commit", "repository"} :
              IF cause[key] = NoText THEN key \notin DOMAIN span
              ELSE key \in DOMAIN span /\ span[key] = cause[key]

\* links.go: "one canonical list": every link that has a target, of either
\* place and in any shape, once and in the order of their first appearance.
LinksAreCanonical ==
    phase = "parsed" =>
      LET sent == event.contextLinks \o event.topLinks
          first(l) == Min({i \in 1..Len(sent) : LinkOf(sent[i]) = l})
      IN  /\ IsInjective(links)
          /\ ToSet(links) = {l \in {LinkOf(r) : r \in ToSet(sent)} : l.id # NoText}
          /\ \A i, j \in 1..Len(links) : i < j => first(links[i]) < first(links[j])

\* A line of a chain says what happened and to whom, in every schema version
\* and whatever a producer leaves out.
SummariesNameTheirSubject ==
    record # None =>
      /\ record.summary.form = Form(event.kind)
      /\ record.summary.predicate = event.kind[2]
      /\ record.summary.name # NoText

\* The deployments a call asks for.
Asked(service, environment) ==
    service = call.service /\ call.environment \in {"", environment}

AskedForNone == \A slot \in held : ~Asked(slot[1], slot[2])

\* Two pairs of names with one key: an exact lookup does not tell them apart.
Ambiguous ==
    call.environment # "" /\
      \E d \in present : /\ Key(d) = KeyOf(call.service, call.environment)
                         /\ Slot(d) # <<call.service, call.environment>>

\* What an application is told was so during its call, whatever is recorded
\* and expires meanwhile.  "Not found": no slot it asks for had a deployment
\* all the time.  A deployment: it was in place, it is one that was asked for,
\* and none that was in place all the time is newer.  An outage or a timeout is
\* an error.  Names that the router hands over escaped, and names that share
\* their key with others in place, are excepted.
AnswerWasTrue ==
    call.phase = "done" /\ call.reply # Failure /\ ~Ambiguous
      /\ (call.via = "direct" \/ Routed(call.service) = call.service)
      => IF call.reply = NotFound THEN AskedForNone
         ELSE /\ call.reply \in present
              /\ Asked(call.reply.service, call.reply.environment)
              /\ \A d \in steady : Asked(d.service, d.environment) =>
                   d.deployedAt <= call.reply.deployedAt

\* metrics.go: "accepted and stored" against "rejected, by reason": counted as
\* received, an event and its deployment are stored; rejected for a reason
\* other than storage, neither is; and no request counts twice.
CountersTellWhatIsStored ==
    LET stored == {d \in deployments : d.eventId = event.id}
    IN  /\ Len(counted) <= 1
        /\ ToSet(counted) \cap {"received"} # {} =>
             record # None /\ (IsDeployment(event) => stored # {})
        /\ ToSet(counted) \ {"received", "storage"} # {} =>
             record = None /\ stored = {}

\* api.md:156: 404 "when nothing is recorded for the service".
NotFoundIsTrue ==
    call.phase = "done" /\ call.reply = NotFound => AskedForNone
=============================================================================
