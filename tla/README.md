# TLA+ specifications of the CDEvents-OTel bridge

These modules specify the bridge of this repository: the service that records
CDEvents and answers questions about deployments (`cmd/bridge`, `internal/`),
and the library with which an application puts its deployment on every span
(`pkg/otelbridge`). TLC checks them on small instances; TLAPS proves the most
important properties for every value of the constants. `PROJECT.json` maps each
definition to the lines of source it stands for.

## 1. The system

| Component | State | Operations | Talks to |
|---|---|---|---|
| `pkg/otelbridge/resolver.go`, `processor.go` | cache entries per service, under a mutex; lookups in flight | `ResolveDeployment`, `Invalidate`, `Reset`, `OnStart` with its timeout | the bridge, over HTTP (`client.go`) or in-process (`internal/otel/resolver.go`) |
| `internal/storage/redis.go` | deployment, event and chain-index keys, each with a TTL | saves (pipelined), gets, `SCAN` queries | Redis |
| `internal/storage/memory.go`, `interface.go` | two maps under an RWMutex | the same operations; shared filter, sort and limit | - |
| `internal/api/handlers.go` | requests in progress | POST event: validate, save deployment, save event, answer; the queries | cdevents, storage, correlator, metrics |
| `internal/correlator` | queue, visited set and order of one walk | `BuildChain`, `TraverseChain`, `FindRootCause` | storage, one read per event |
| `internal/cdevents`, `pkg/models`, `pkg/otelbridge/attributes.go` | none | parse, validate, normalise links, convert to deployments, stored events, causes, summaries and span attributes | called by the handlers, the correlator and the span processor |
| `pkg/otelbridge/client.go`, `internal/otel/resolver.go` | none | `GetDeployment` over HTTP; `ResolveDeployment` on the bridge's own store | `HandleGetDeployment`; storage |
| `internal/config` | none after start | file path, defaults, file, environment, validation | main |
| `cmd/bridge`, `api/server.go`, `otel/provider.go` | the process: listener, signal context, tracer provider, store | start, drain, flush, close | all of the above |

What is hard in it:

* **Interleaving without transactions.** A lookup of the resolver runs with no
  lock held; the two saves of one POST are two commands; a chain is read event
  by event and a list key by key, while others write and keys expire.
* **Lifetimes.** Deployments, events, chain indexes and cache entries each expire
  on their own clock. Whether one outlives another is a matter of ordering.
* **Failure and retry.** Redis may execute a command and lose the reply; the
  producer is told 500 and retries; a replica may be killed between its saves; a
  lookup may time out while the answer is on its way.
* **Unforgiving input.** Producers send any schema version, links in several
  shapes, in cycles, in any order, and leave fields out.
* **Names.** Services and environments go into URLs, keys and key patterns, where
  `/`, `:` and prefixes of each other matter.
* **Shutdown** drains, flushes and closes under one deadline shorter than the
  longest request.

Every such point is in `PROJECT.json` under `hazards`, at its line, with the
properties that would catch it.

## 2. Modules

```
BridgeView  <- DeploymentLookup            (the promise, abstract)
            <- CachedResolver              (implements DeploymentLookup)
                 <- LookupTraffic          (how often it asks)
                      <- CachedResolverProofs
Storage                                    (the promise of internal/storage, abstract)
RedisStorage <- Ingest                     (implements Storage; POST /events over it)
             <- RedisStorageProofs
                  <- IngestProofs          (extends Ingest too)
Ordering <- ChainQuery        <- ChainQueryProofs
         <- DeploymentQueries <- DeploymentQueriesProofs
         <- OrderingProofs                 (used by these two and by ApiProofs)
EventModel <- ApiRequests <- ApiProofs     (conversions; a post and a lookup over them)
Configuration <- BridgeProcess <- BridgeProcessProofs
```

Each `MC<module>.tla` gives the constants small values for TLC, with one `.cfg`
per question. Operators whose comment begins with "Mutant" are plausible bugs;
no specification uses them. `PROJECT.json` says which property each one breaks.

**BridgeView, DeploymentLookup, CachedResolver.** `BridgeView` is what an
application can observe: a clock, what the bridge would answer now, whether it is
up; plus history variables that say when an answer was last true and when the
bridge was last down. `DeploymentLookup` is the promise: a span start returns, in
one atomic step, either an answer that was true less than one cache period before
the span began or, only after a failure or a timeout, an error or a deployment the
service once had. `CachedResolver` is the code: `OnStart`, then `Hit` or `Miss`
under the mutex, `BridgeAnswers`/`LookupFails` with no lock, `StoreReply` or
`FallBack` under the mutex, `SpanStarted`, with `Invalidate` and `Reset` at any
time. `now` is captured once, before the lookup, as in the code, and expiry counts
from it.

**LookupTraffic** adds `settled`: per service, the latest lookup that ended with an answer
(in MCOutageTraffic also with a failure: `Noted`) while no other of that service was
under way. What it brought is what later span starts know,
so this says how often the bridge is asked, by any number of goroutines.

**Storage** is what `interface.go` promises and what the memory backend does under
its mutex: a save replaces one record at once, and lookups by slot, by id and by
chainId read the same records. Records may be forgotten.

**RedisStorage.** A key holds a value and the lifetime it has left; `SecondPasses`
ages all keys and drops those at their end. `SaveEvent` is one MULTI
(`TxPipelined`): the record, the `SADD` and, only with a TTL, the `EXPIRE` of the
index. A restart may raise the TTL (`LengthenTTL`). `ImplementsStorage` maps it to
Storage: expiry is forgetting, and what the index finds is the chain.
`EventsWithChain` is the memory backend's chain lookup, the reference for
`GetEventsByChain`.

**Ingest** extends RedisStorage with handlers, on one or many replicas:
`HandlePostEvent` saves the deployment, then the event. Either command may fail
having been executed or not, and a replica may be killed at either point; the
bridge may be restarted with a longer redisTTL (`Restarted`). The history variables
state what is owed: `promised` (life still owed to an acknowledged event), `broken`
(ids whose last request ended between its saves) and `overtaken` (slots for which
deployments did not arrive one at a time and in order).

**Ordering** is what `sort.SliceStable` makes of a finite set when the comparison tells
any two of its members apart: each is at the place that the number of those ahead of it
leaves, so there is one order and the sorting algorithm does not matter.

**ChainQuery.** One chain request over a store that changes while it runs: the
start is read, read again as head of the breadth-first walk, and each event is a
read of its own; then the index is read, then each member. `Saved` and `Expired`
happen between any two reads. `seen` and `steady` record what the store held at
some instant, and at every instant, of the request. The answer is `Ordered`, by time and then
by id; `FindRootCause` is the loop over it, one round per event from the last.

**DeploymentQueries.** GET one, latest and list over both backends. The memory
backend answers under its lock in one step. On Redis, `Scan` returns an arbitrary
set of matching keys, none or some of them again, under the guarantee Redis
documents (a key present from start to end is returned); each key is then read by
its own GET. `Deploy` stores whatever it is given, as the code does: a deployment that
is newer than what is there, as old, older or the same again, and `inOrder` remembers
whether one came late during the request. At equal times the order is that of the names
(`Alphabet`). Names are sequences of the parts between colons, so that the joined
key and the `deployment:{service}:*` pattern are modelled by what they do.
A list is filtered (`Passing`), sorted (`NewestFirst`, over places, as SCAN may give one
deployment twice) and only then truncated.

**EventModel.** Short type, link normalisation, validation, field lookup, the
deployment, the stored event with its summary, the cause and the attributes of a
span, as operators over an abstract JSON document. No state: ApiRequests uses them.

**ApiRequests.** One POST of an event from its body to its answer and counters
(`RefuseBody`, `Parse`, `Refuse`, `RecordDeployment`, `RecordEvent`, their failures
before and after the save, `PostPanics` with the recovering middleware), and one call
of an application that may overlap it: with the client over HTTP (`Begin`,
`HandleGetDeployment`, `Receive`, `Lose`), where the router hands an escaped name over
as it was sent (`Routed`), or in the bridge itself (`ResolveFromStore`). Storage is the
Redis backend: one deployment under each key, keys that two pairs of names may share,
keys that expire. The latest of a service is found by `StartScan`, one `ReadKey` after
another and an end (`Looked`), between which the post, its saves and expiry go on; a
lookup of one environment is one GET. `owed` holds the keys that the SCAN must still
return, `found` what has been read; `present`, `steady` and `held` are histories of what
was in place at some instant and at every instant of the call, and of the slots that
always held something.

**Configuration.** The file's path, the three layers, what Validate refuses, and the
64-bit product that redisTTL becomes.

**BridgeProcess.** `run()` from reading the configuration to exit: the store may not
connect, tracing may not start, the signal may arrive at
any point (before `NotifyContext` and after the deferred `stop()` it kills), the
listener may fail, requests are as slow as they like, the collector comes and
goes. Drain and flush share one deadline. A span waits in the batch processor's queue
of `QueueSize`, and is lost if the queue is full or if its export ends in an error
(`ExportFails`: at once, or after the exporter's own retries and timeout), at any time
and long before a shutdown. `StopTracer` starts the flush, which ends when the queue is
empty (`Flushed`) or at the deadline (`FlushTimesOut`). `troubled` names the requests
whose span met a full queue or waited while the collector took none, `killed` a process
that a signal ended on the spot.

## 3. What is checked

All runs use the full state space of the instance in the `.cfg`. Deadlock is
checked except in MCApiRequests, MCEscapedNames and MCBridgeProcess, which end.

| Run | Shows |
|---|---|
| MCLookupTraffic | `BoundedStaleness`, `FallbackIsJustified` and `Refinement` of DeploymentLookup, with overlapping lookups, invalidations, outages and new deployments. `SettledAnswersLast`: an answer on which the lookups of a service settled, "not found" included, is asked for again only after its period. `SpanStartReturns`: a span start returns even if the bridge never answers |
| MCIngest | Ingestion over the Redis store, with overtaking, retries, lost replies, crashes and restarts that raise redisTTL. Store: `ChainLookupAgrees` with the memory backend, `IndexOutlivesEvents`, every step is one of the store's own (`StoreSpec`), and the store is the abstract one (`ImplementsStorage`). Handlers: `AcknowledgedSurvives` (a 201 is kept for the whole TTL), `DeploymentsHaveTheirEvents` (except where a request ended between its saves), `InOrderIsCurrent` (a slot whose deployments are sent one at a time and in order shows the last one) |
| MCChainQuery | `SteadyChainIsComplete`, `ChainIsJustified`, `EachEventOnce`, `RootCauseIsEarliest`, and `QueryEnds` |
| MCDeploymentQueries | Both backends, with deployments in order, late or at equal times and keys that expire during a SCAN or never: `LatestOutranksSteady`, `ListKeepsSteady`, `ListIsSound`; where nothing expires also `UnknownIsUnknown`, and where nothing of the service is recorded late either `LatestIsCurrent`, although a SCAN is no snapshot |
| MCApiRequests | Conversions: `DeploymentsAreRecognised`, `DeploymentsAreNamed`, `CauseReachesSpans` (the span and the chain name the same commit), `LinksAreCanonical`, `SummariesNameTheirSubject`. `AnswerWasTrue`: an outage, a panic or a lost answer is never told as "no deployment", which applications would cache; "no deployment" is told only if no slot asked for had one all the time, and a deployment told was in place during the call with nothing that stayed newer, however the store changes under the SCAN. `CountersTellWhatIsStored`: each request counts once, and the counter tells what storage holds |
| MCBridgeProcess | `LifetimeAsConfigured`: the store is given the lifetime of the highest layer that sets one. `DrainIsComplete`, `CutOnlyLate`. `TracedToTheEnd`: after a drain and flush in time every span is exported but those of `troubled` requests. `StoreIsReleased`: on every path, drains in time and late ones included, unless a signal killed the process on the spot. `StopsAfterSignal` with clients that never finish and a collector that is down |

### Where code and documentation disagree

Each is a run that TLC ends with a counterexample. `findings` in PROJECT.json
quotes the sentence that is refuted.

| Run | Property | What happens |
|---|---|---|
| MCStampede | `AtMostOncePerPeriod` | Nothing joins lookups under way: goroutines that find an entry cold or expired each ask the bridge within one period |
| MCOutageTraffic | `EveryLookupIsSpaced` | Failures are not remembered: in an outage every span start waits for its own lookup |
| MCOutOfOrder | `CurrentlyRunning` | Concurrent or late requests leave the older deployment as the current one |
| MCChainSize | `ChainIsBounded` | Events added by chainId are not counted against the size limit |
| MCColonNames | `LookupKeepsSlotsApart` | Two service/environment pairs join to one Redis key |
| MCEscapedNames | `NotFoundIsTrue` | The client escapes a name with a slash, the router does not undo it: 404 for a service that is recorded |

Further behaviour that a reader of the documentation may not expect. No run is spent
on it.

* An event id sent again under another chainId is found under both chains on Redis
  (`redis.go:217`), under the last one in memory. `BackendsAgreeOnChains` is proved
  under the assumption that this does not happen.
* After redisTTL is set back to 0 an index would keep the expiry it had, under events that
  have none (`redis.go:180`).
* A deployment is current although its event was refused with 500
  (`handlers.go:138`): this is what `broken` in Ingest stands for.
* The start of a chain is read twice and may expire in between; its chain is then
  answered without it (`correlator.go:46`).
* A SCAN may miss a service that is deployed all the time, if its old key expires and
  its new one is created while it runs (`redis.go:109`). This is why
  `UnknownIsUnknown` is stated where nothing expires, and why `AnswerWasTrue` allows "not
  found" unless one environment of the service had a deployment all the time (`held`).
* A SCAN can answer a deployment that was the service's newest at no instant, if an
  older one is recorded while it runs (`redis.go:83`): it reads stage, then stage gets a
  newer one and prod an older one, then it reads prod. This is why `LatestIsCurrent`
  excepts requests during which a deployment of the service came late;
  `LatestOutranksSteady` does not.
* A span that was answered for may be lost at any time without an error that anyone
  sees, when the collector fails or more spans wait than the queue holds
  (`provider.go:54`); `TracedToTheEnd` names exactly these.
* SCAN may return a key twice, and a list then names that deployment twice
  (`redis.go:144`): nothing removes duplicates.
* `escapeKeyPart` does not escape the percent sign (`redis.go:70`), so a name that
  already holds an escape shares the key of the name it stands for.
* The `self` link of a deployment without an environment ends in an empty
  `environment=`, which asks for the latest (`handlers.go:212`).
* go-redis does not end a command with its context unless told to, so the lookup
  timeout of a span in the bridge itself is that of the sockets
  (`internal/otel/resolver.go:29`).
* The label of the received counter is the type as the producer wrote it
  (`handlers.go:145`): its cardinality is theirs.
* A redisTTL above 2^63 nanoseconds is valid and wraps (`config.go:168`).
  `LifetimeAsConfigured` is stated for the others.
* When the listener fails, `run()` closes the store but neither drains nor flushes
  (`main.go:130`): requests are cut and queued spans lost.

### Bounds

* Resolver: two callers, one service, one deployment that comes and goes, TTLs of 2
  and 1 ticks, a timeout of 1, clock to 3: an entry expires while a lookup that began
  before it is pending, and a late answer meets a newer entry. "Not found" is the second
  answer, with a period of its own. Services do not interact (the map is per service), so
  one is enough. MCOutageTraffic has one caller and a clock to 5.
* Store and ingest: two events in one chain and one outside it, one slot shared by
  two deployments, lifetimes of 0 (for ever), 2 and 3 seconds and restarts that
  raise 2 to 3, two handlers: one overtakes, fails or is killed while the other
  acts. Lifetimes are kept as time left, so the state space is finite without a
  clock.
* Chains: four events over four graphs (cycle, diamond, a line longer than
  MaxDepth = 2, a star wider than MaxEvents = 3): both limits are met exactly and
  exceeded. Each event is saved and expires at will.
* Queries: three slots of two services, one name a prefix of the other; a request
  meets the store in any state and then two changes of it (`MaxChanges`: saves and
  expiries), of deployments with two times (`MaxTime`), so that slots are replaced by a
  newer, an equal or an older one while a scan runs; two SCAN replies (`MaxScans`), a
  limit of 1, which a list of two exceeds and a query may ask to be more. With these
  bounds TLC refutes `LatestIsCurrent` if `inOrder` is left out of it.
* API: posted events vary in one respect at a time (type, required fields, links,
  place of the metadata, summary), links in pairs from all shapes. Calls overlap
  seven of the posts (`Watched`), and keys expire meanwhile, over no deployments, one
  whose key is that of another pair, or two environments of the service. The names are
  plain ones, one with a slash and its escaped twin, and two pairs with one key.
* Process: three requests and a queue of two spans, so that it overflows; two ticks of
  deadline, 256 ways to be configured: each
  layer absent, valid, invalid or unreadable, and lifetimes at both sides of what
  64 bits hold (2^20 in the run).

`MaxClock`, `MaxTime`, `MaxChanges`, `MaxScans`, `Watched`, the TTL sets, the queue and
the deadline are the only bounds; each is a constant, and the theorems hold for every value of it.

### Fairness

* `CachedResolver!Fairness` (in LookupTraffic's `TrafficSpec`): each goroutine that
  starts a span takes its steps (`Proceeds`), which wait for nothing but the cache's
  mutex; time passes; an expired context ends a lookup (`LookupFails`). `BridgeAnswers` has no fairness.
* `ChainQuery!FairSpec`: the request's goroutine steps on, and each read returns
  or fails (go-redis has read timeouts). The store's own changes have none.
* `BridgeProcess!FairSpec`: main's goroutine steps when it can, and time passes.
  No client, handler, collector or listener is owed a step.

## 4. What is proved

Every invariant of every passing run, and its action properties and refinements, are
theorems: they hold for all values of the constants that the named assumptions admit.

| Module | Theorems | From |
|---|---|---|
| CachedResolverProofs | `TypeCorrect`, `StalenessIsBounded`, `FallbacksAreJustified`, `Implementation` (refinement of DeploymentLookup), `SettledAnswersAreKept` | `BridgeAssumption`, `ResolverAssumption` |
| RedisStorageProofs | `StoreTypeCorrect`, `IndexIsNeverLost`, `BackendsAgreeOnChains`, `RedisImplementsStorage` | `StorageAssumption`; the last two also `IdsAreUnique`: an id always comes with the same chainId |
| IngestProofs | `IngestTypeCorrect`, `AcknowledgementsHold`, `EventsFollowDeployments`, `InOrderStaysCurrent`, `IngestUsesStore` (every step of the handlers is a step of RedisStorage or leaves it alone), `IngestImplementsStorage` | `StorageAssumption`; the last also `IdsAreUnique` |
| OrderingProofs | `InOrderSorts` | a finite set and a strict total order on it |
| ChainQueryProofs | `TypeCorrect`, `EventsAreWalkedOnce`, `ChainsAreJustified`, `SteadyChainsAreComplete`, `RootCausesAreEarliest` | `QueryAssumption` |
| DeploymentQueriesProofs | `TypeCorrect`, `LatestIsNotOlder`, `ListsKeepSteady`, `ListsAreSound`, `LatestIsHead`, `LatestWasCurrent`, `UnknownWasUnknown`, `LookupsKeepSlotsApart` | `QueriesAssumption`; the last three also `NamesKeepApart`: no two pairs of names make one key, which MCColonNames shows is needed |
| ApiProofs | `AnswersWereTrue`, `CountersTell`, `DeploymentsRecognised`, `DeploymentsNamed`, `CauseReaches`, `SummariesName`, `LinksCanonical` | `ApiAssumption` |
| BridgeProcessProofs | `TypeCorrect`, `DrainsCompletely`, `OnlyTheDeadlineCuts`, `SpansAreTraced`, `StoreIsAlwaysReleased`, `LifetimeIsExact` | `ProcessAssumption`, `ConfigurationAssumption` |

What the assumptions say of the world: a posted type is a kind of two segments, with or
without the prefix `dev.cdevents` and with version segments after it, and no kind is
called `dev.cdevents` itself; what was recorded before came from other, valid events
(`ApiAssumption`); ids are numbered in the order of their strings (`QueryAssumption`).

*Resolver.* Staleness is not inductive: it says nothing of entries and of replies
in flight. `IInv` adds `HistoryIsCurrent` (what is true now was last true now),
`EntriesBacked` (an entry's answer was true no earlier than its expiry minus its
period, the reason for expiry to be counted from before the lookup) and
`CallBacked` (the entry a call read and the reply it holds are backed likewise). The
refinement maps every phase before "done" to a pending lookup; only the step that
ends a span start is visible.

*Traffic.* The lookup that settles a service's answer is the last one under way, so no
other is there to overwrite the entry it stores. By `TrafficInv` that answer is
`Remembered`: the entry holds an answer, and expires no earlier than a period after the
settling lookup began. A lookup that overlaps later ones may overwrite the entry again,
but it began after the period and only moves the expiry on. A further lookup needs the
entry to have expired, which is the distance claimed, for any number of goroutines. Failures in between change nothing of this. It
says nothing of the lookups that overlap before an answer settles: that they are many is
what MCStampede shows, and MCOutageTraffic that a failure is not remembered.

*Store.* `StoreInv` adds `LivesWithinTTL`: no key outlives the current redisTTL, so
the index that a save refreshes is at least as old as every event it holds. It is
kept because redisTTL is only raised: set back to 0, an index would lapse under events
that do not. Implementation of Storage needs no more: each action maps to one save, to
`Forget` of what expired, or to a stutter.

*Ingestion.* `IngestInv` puts `StoreInv` under the handlers' own state:
`RequestsInv` (a handler in progress holds a posted event, and only one that names a
slot is between its saves), `DeploymentsInv` (no deployment outlives the current
redisTTL) and the two properties themselves. `AcknowledgedSurvives` holds because a save gives the event
the whole TTL and nothing shortens it afterwards; `DeploymentsHaveTheirEvents` because
a deployment is saved first, so its event, saved later with the same TTL, outlives it,
unless the request ended in between. `IngestUsesStore` carries the theorems of
RedisStorage over to the bridge.

*Order of deployments.* A slot that is not `overtaken` satisfies `InOrder`: one request
at a time serves it; nothing kept of it is newer than the deployment being served, so
saving that one loses nothing; once saved it is the one found; and what is acknowledged
is not older than what is found. A retry or a restart keeps all four, as the same event
is served again.

*Chains.* `Distinct` says that queue and walk hold each visited id once.
`JustifiedInv` gives every walked event a path of links through events that were
stored, `SiblingsInv` says the same of the chainId. Completeness is the hard one: the
invariant `LevelsInv` says that a function D of depths exists that agrees with the
queue, never decreases along it and grows by at most one along a link of a walked event,
so that an event is queued at its least depth, as breadth-first search promises, although
the store changes under it. If an event that was there all along were left out, the
first event on a path to it that is not walked would be in the queue
(`NoPathIsLeft`, by least counterexample), but the queue is empty.

*Sorting.* In a strict total order of a finite set a later member has strictly more members
ahead of it than an earlier one (`Ranks`), so no two have the same rank; with as many
ranks as members, every rank is taken (`EveryPlaceIsTaken`, by the pigeonhole principle),
and `InOrder` lists each member once, sorted.

*Root cause.* The loop keeps one fact, `Settled`: after it has come down to some place,
what it holds is the last change.merged with a commit at or after that place, and the last
such deployment if there is no such change. One round keeps it (`ConsiderSettles`), all
rounds therefore do (`LoopSettles`, by the least round that would not), and the last
candidate in a chain that `OrderedChain` says is sorted newest first is the earliest.

*Lists.* `FilterKeeps` is about filter, sort and limit over any sequence: the result is
sorted, within the limit, and lacks a deployment that passes only if it is full of newer
ones: at equal times the names decide, and `NewerIsTotal` says that no two deployments
remain undecided. Only `FiniteInv` is needed of the store. `ListIsGiven` supplies the sequence:
the whole map, or what the scan found, which `ScanInv` says holds all that was steady.

*Deployment queries.* `HistoryInv` ties what a request may observe to the store.
`ScanInv` says that the key of a deployment that was there all along is still to be
returned, or to be read, or its deployment has been found; that the service's pattern matches the keys
of its deployments is the lemma `ServiceKeysMatch`. `LatestIsNotOlder` follows,
with expiry and with any names. Without expiry `CurrentInv` adds that the newest at
each instant was noted, and that while nothing came late (`inOrder`) a deployment that
was never the newest is outranked by something `Ahead`: among what the scan has read of
the service or has yet to read (`Coming`). A save that is not late keeps this, as the
deployment it replaces is not newer than its own, which is then the newest
(`SavingKeepsAhead`, `SavedIsNewest`); a late one would not. It is there too that two
slots with one key would break it: a save could take the key, and what was ahead, from
another service.

*API.* `CallInv`: while a call is under way its histories enclose what is stored
(`HistoryInv`); the key of whatever stayed is still owed by the SCAN, or the deployment
has been read, and for a slot that always held something, something has (`ScanInv`). So
the answer is what `AnswerInv` asks when it is given, and it stays so (`PromiseStays`),
as what stayed only becomes less. `CounterInv`
follows a request: nothing is counted before it is answered, and its own deployment is
stored exactly from its save on. Both take the conversions as given functions.

*Conversions.* `RequestInv` ties storage to the event: what is stored of it is its own
`ToDeployment` and `ToStoredEvent`, and only if it passed `Validate`, through refusals,
failures before and after a save, and panics. The rest is about the operators, for any
document: `ShortType` undoes every version and prefix (`ShortTypeIsKind`), the service
falls back to the subject (`DeploymentHasService`), the correlator's three places and the
deployment's two hold the same first text (`ChangeOfEvent`: the record itself has neither a
commit nor a repository of its own), a summary has a name (`SummaryOf`). The canonical list
is proved round by round: after n links, `NormalizeLinks` holds those of the first n that
have a target, once, in the order of their first places.

*Process.* `IInv` says that the listener is open only while main serves
(`ListenerInv`), the store is closed last (`StoreInv`), and main passes the drain
only if the drain succeeded, the deadline passed or the listener had failed
(`DrainInv`). `TracerInv` follows an answered request's span, if it is not `troubled`,
until it is exported: it is queued, and while the collector fails every queued span is
troubled. `SetupInv` keeps the configuration that was loaded. `LifetimeIsExact` is arithmetic on
`Wrapped` for the seconds that `Valid` admits and a Duration can hold.

Only model-checked: the three liveness properties `SpanStartReturns`, `QueryEnds` and
`StopsAfterSignal`, as liveness under fairness is beyond this prover, and the runs that
end with a counterexample. Induction with an operator as parameter is beyond it too:
loops are written as recursive functions, and what they compute is proved by taking the
least round at which it would fail (`LeastThereIs`).

`Latest` is stated as a newest element, where the code sorts and takes the head:
`LatestIsHead` proves that these are the same, equal times and repetitions included.

## 5. What is not modelled

* GET event is one read of the store, and health one ping: no property of more than
  one step is in them. Refusals of an absent id or a malformed `limit` or `since` end
  before anything is read.
* Middleware other than the recovery from panics, response formats, CORS, logging,
  durations: no state between requests.
* JSON encoding, the text of URLs, version parsing, fields that are only copied (branch,
  author, pipeline, version). go-redis, chi and the OpenTelemetry SDK are modelled from
  how the code uses them and marked external; exporter options and resource attributes
  are wiring.
* Deployments of one slot at one instant are told apart by nothing in
  DeploymentQueries; what else they hold (version, commit) plays no part in a query.
* An id that is sent again under another chainId: `IdsAreUnique`, see the remark above.
* Lowering redisTTL between restarts, beyond the remark above.
* `examples/`, deployment files and scripts.

## 6. Plan

Done, in the order of importance: resolver with its abstract promise; store and
ingestion, the abstract store and both refinements; chain and deployment queries with
their proofs; event conversion; requests through the API and the client; configuration
and process.

Next:

1. The resolver over ApiRequests instead of BridgeView, so that `AnswerWasTrue` and
   `BoundedStaleness` compose to a bound on what spans of an application show.
2. Configurations that lower redisTTL between restarts, in RedisStorage: how long an
   index may lack events that are still stored.
