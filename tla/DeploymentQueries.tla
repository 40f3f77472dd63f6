--------------------------- MODULE DeploymentQueries ---------------------------
(***************************************************************************)
(* GET /deployments/{service} and GET /deployments while deployments are   *)
(* recorded and expire.  The memory backend answers under its lock.  The   *)
(* Redis backend walks the keyspace with SCAN, one cursor step after       *)
(* another, and reads each key it is given with a GET of its own.          *)
(*                                                                         *)
(* A name is a sequence of parts, which stand for the text between colons. *)
(* A deployment has the time its event gives it: one that is recorded      *)
(* later may be older, as old, or the same again.  Keys expire in any      *)
(* order, for redisTTL may have changed with a restart.                    *)
(***************************************************************************)
EXTENDS Integers, Sequences, FiniteSets, SequencesExt, Ordering

CONSTANTS Slots,         \* services, each with an environment it is deployed to
          Requests,      \* queries that clients send
          DefaultLimit,  \* defaultListLimit, 50
          MaxLimit,      \* maxListLimit, 100
          Alphabet(_),   \* the place of a name in the order of strings
          MaxTime,       \* bound: times of deployments
          MaxChanges,      \* bound: saves and expiries during one request
          MaxScans,      \* bound: SCAN replies to one query
          None           \* no deployment, no environment

Services == {s.service : s \in Slots}
Environments == {s.environment : s \in Slots}
\* storage.type, and whether redisTTL makes keys expire.
Setups == [backend : {"memory"}, lapsing : {FALSE}]
          \cup [backend : {"redis"}, lapsing : BOOLEAN]
Deployments == {[service |-> s.service, environment |-> s.environment, at |-> t] :
                  s \in Slots, t \in 1..MaxTime}

ASSUME QueriesAssumption ==
    /\ {MaxTime, MaxChanges, MaxScans, MaxLimit} \subseteq Nat
    /\ DefaultLimit \in 1..MaxLimit
    /\ None \notin Deployments
    /\ Slots \subseteq [service : Seq(STRING) \ {<<>>}, environment : Seq(STRING) \ {<<>>}]
    /\ \A n \in Services \cup Environments : Alphabet(n) \in Nat
    /\ \A n, m \in Services \cup Environments : Alphabet(n) = Alphabet(m) => n = m
    /\ Requests \subseteq [kind : {"exact", "latest", "list"},
                           service : Services \cup {None},
                           environment : Environments \cup {None},
                           since : Nat, limit : Nat]
    /\ \A r \in Requests : r.kind = "exact" =>
         [service |-> r.service, environment |-> r.environment] \in Slots

VARIABLES setup,    \* the configuration of storage
          stored,   \* key -> deployment
          changes,  \* saves and expiries since the request began
          request,
          phase,    \* where the request is
          scans,    \* SCAN replies so far
          unseen,   \* keys there since the request began, not yet returned
          batch,    \* keys of the last SCAN reply, still to be read
          more,     \* its cursor is not zero
          found,    \* deployments read
          answer,
          steady,   \* deployments in place since the request began (history)
          present,  \* deployments in place at some instant since (history)
          newest,   \* the newest of the service at each instant (history)
          inOrder   \* none was recorded late (history)

scanVars == <<scans, unseen, batch, more, found>>
seenVars == <<steady, present, newest>>
historyVars == <<seenVars, inOrder>>
vars == <<setup, stored, changes, request, phase, scanVars, answer, historyVars>>

\* Memory keys join the two names with a NUL, Redis keys with a colon.
Key(service, environment) ==
    IF setup.backend = "memory" THEN <<service, environment>>
    ELSE service \o environment

Keys == {Key(s.service, s.environment) : s \in Slots}
Used(st) == {k \in Keys : st[k] # None}
Kept(st) == {st[k] : k \in Used(st)}

TypeOK ==
    /\ setup \in Setups
    /\ stored \in [Keys -> Deployments \cup {None}]
    /\ changes \in 0..MaxChanges
    /\ request \in Requests \cup {None}
    /\ phase \in {"idle", "get", "lock", "scan", "read", "done", "500"}
    /\ scans \in 0..MaxScans /\ unseen \subseteq Used(stored)
    /\ batch \subseteq Keys /\ more \in BOOLEAN
    /\ ToSet(found) \subseteq present
    /\ steady \subseteq present /\ present \subseteq Deployments
    /\ newest \subseteq present \cup {None} /\ inOrder \in BOOLEAN
-----------------------------------------------------------------------------
\* The order of sortDeploymentsNewestFirst: at equal times by name.
Newer(a, b) ==
    \/ a.at > b.at
    \/ /\ a.at = b.at
       /\ \/ Alphabet(a.service) < Alphabet(b.service)
          \/ /\ a.service = b.service
             /\ Alphabet(a.environment) < Alphabet(b.environment)

\* sortDeploymentsNewestFirst of those at some places of ds, stable for those
\* that are the same.
NewestFirst(ds, places) ==
    LET first(p) == \/ Newer(ds[p[1]], ds[p[2]])
                    \/ ds[p[1]] = ds[p[2]] /\ p[1] < p[2]
        order == InOrder(places, {p \in places \X places : first(p)})
    IN  [n \in DOMAIN order |-> ds[order[n]]]

\* Mutant: the comparison with "since" is turned around.
MatchesBefore(d, r) ==
    /\ r.environment = None \/ d.environment = r.environment
    /\ ~(d.at > r.since)

\* ListFilter.matches; a query without "since" has zero.
Matches(d, r) ==
    /\ r.environment = None \/ d.environment = r.environment
    /\ ~(d.at < r.since)

Truncated(ds, limit) == IF Len(ds) > limit THEN SubSeq(ds, 1, limit) ELSE ds

\* A query without "limit" has zero.
Limit(r) == IF r.limit = 0 THEN DefaultLimit
            ELSE IF r.limit > MaxLimit THEN MaxLimit ELSE r.limit

\* The places of the deployments that pass the filter.
Passing(ds, r) == {i \in 1..Len(ds) : Matches(ds[i], r)}

\* Mutant: the limit is applied while the deployments are collected.
ApplyFilterTruncatesFirst(ds, r) ==
    NewestFirst(ds, {i \in Passing(ds, r) :
                       Cardinality({j \in Passing(ds, r) : j < i}) < Limit(r)})

ApplyFilter(ds, r) == Truncated(NewestFirst(ds, Passing(ds, r)), Limit(r))

\* The head of NewestFirst of ds.
Latest(ds) == IF ds = {} THEN None ELSE CHOOSE d \in ds : \A e \in ds : ~Newer(e, d)

\* Mutant: what the key pattern matched is taken for the service's.
LatestOfAll(ds, r) == Latest(ds)

LatestDeployment(ds, r) == Latest({d \in ds : d.service = r.service})

\* deployment:{service}:* for the latest, deployment:* for a list.
Pattern(r, key) ==
    r.kind = "list" \/ (IsPrefix(r.service, key) /\ Len(key) > Len(r.service))

\* The newest of the service that st holds.
NewestOf(st, r) ==
    {d \in Kept(st) : /\ d.service = r.service
                      /\ \A e \in Kept(st) : e.service = r.service => ~Newer(e, d)}

NewestOrNone(st) ==
    IF NewestOf(st, request) = {} THEN {None} ELSE NewestOf(st, request)
-----------------------------------------------------------------------------
Init ==
    /\ setup \in Setups
    /\ stored = [k \in Keys |-> None]
    /\ changes = 0
    /\ request = None
    /\ phase = "idle"
    /\ scans = 0 /\ unseen = {} /\ batch = {} /\ more = FALSE /\ found = <<>>
    /\ answer = None
    /\ steady = {} /\ present = {} /\ newest = {} /\ inOrder = TRUE

Asking == phase \notin {"idle", "done", "500"}

\* What a request in progress could have observed of the store it meets next.
Observe ==
    IF Asking
    THEN /\ unseen' = unseen \cap Used(stored')
         /\ steady' = steady \cap Kept(stored')
         /\ present' = present \cup Kept(stored')
         /\ newest' = newest \cup NewestOrNone(stored')
    ELSE UNCHANGED <<unseen, seenVars>>

\* SaveDeployment, whatever its key held before and however late it comes.
Deploy(d) ==
    /\ phase \notin {"done", "500"}
    /\ Asking => changes < MaxChanges
    /\ changes' = IF Asking THEN changes + 1 ELSE changes
    /\ stored' = [stored EXCEPT ![Key(d.service, d.environment)] = d]
    /\ Observe
    /\ inOrder' = (inOrder /\ (Asking /\ d.service = request.service =>
                                 \A e \in Kept(stored) : e.service = d.service => ~Newer(e, d)))
    /\ UNCHANGED <<setup, request, phase, scans, batch, more, found, answer>>

\* The TTL of a key runs out.
Expire(k) ==
    /\ setup.lapsing
    /\ k \in Used(stored)
    /\ phase \notin {"done", "500"}
    /\ Asking => changes < MaxChanges
    /\ changes' = IF Asking THEN changes + 1 ELSE changes
    /\ stored' = [stored EXCEPT ![k] = None]
    /\ Observe
    /\ UNCHANGED <<setup, request, phase, scans, batch, more, found, answer, inOrder>>

Ask(r) ==
    /\ phase = "idle"
    /\ request' = r
    /\ phase' = IF r.kind = "exact" THEN "get"
                ELSE IF setup.backend = "memory" THEN "lock" ELSE "scan"
    /\ unseen' = Used(stored)
    /\ steady' = Kept(stored)
    /\ present' = Kept(stored)
    /\ newest' = IF NewestOf(stored, r) = {} THEN {None} ELSE NewestOf(stored, r)
    /\ inOrder' = TRUE
    /\ UNCHANGED <<setup, stored, changes, scans, batch, more, found, answer>>

\* GetDeployment, on either backend.
Get ==
    /\ phase = "get"
    /\ answer' = stored[Key(request.service, request.environment)]
    /\ phase' = "done"
    /\ UNCHANGED <<setup, stored, changes, request, scanVars, historyVars>>

\* memory.go: the whole map is copied under the read lock, in any order.
Collect ==
    /\ phase = "lock"
    /\ answer' = IF request.kind = "latest"
                 THEN LatestDeployment(Kept(stored), request)
                 ELSE ApplyFilter(SetToSeq(Kept(stored)), request)
    /\ phase' = "done"
    /\ UNCHANGED <<setup, stored, changes, request, scanVars, historyVars>>

\* Mutant: a reply without keys is taken for the last one.
ScanEmptyEnds(keys, continues) ==
    /\ phase = "scan"
    /\ scans < MaxScans
    /\ keys \subseteq {k \in Used(stored) : Pattern(request, k)}
    /\ ~continues => {k \in unseen : Pattern(request, k)} \subseteq keys
    /\ scans + 1 = MaxScans => ~continues
    /\ scans' = scans + 1
    /\ batch' = keys
    /\ more' = (continues /\ keys # {})
    /\ unseen' = unseen \ keys
    /\ phase' = "read"
    /\ UNCHANGED <<setup, stored, changes, request, found, answer, historyVars>>

\* A SCAN reply: some of the keys that match, none perhaps, and some of them
\* again.  What was there all along has been returned when the cursor is zero.
Scan(keys, continues) ==
    /\ phase = "scan"
    /\ scans < MaxScans
    /\ keys \subseteq {k \in Used(stored) : Pattern(request, k)}
    /\ ~continues => {k \in unseen : Pattern(request, k)} \subseteq keys
    /\ scans + 1 = MaxScans => ~continues
    /\ scans' = scans + 1
    /\ batch' = keys
    /\ more' = continues
    /\ unseen' = unseen \ keys
    /\ phase' = "read"
    /\ UNCHANGED <<setup, stored, changes, request, found, answer, historyVars>>

\* Mutant: redis.Nil is not told from a record.
ReadKeyUnchecked(k) ==
    /\ phase = "read"
    /\ k \in batch
    /\ batch' = batch \ {k}
    /\ found' = Append(found, stored[k])
    /\ UNCHANGED <<setup, stored, changes, request, phase, scans, unseen, more, answer,
                   historyVars>>

\* readDeployment of one key; a key that has expired since is passed over.
ReadKey(k) ==
    /\ phase = "read"
    /\ k \in batch
    /\ batch' = batch \ {k}
    /\ found' = IF stored[k] = None THEN found ELSE Append(found, stored[k])
    /\ UNCHANGED <<setup, stored, changes, request, phase, scans, unseen, more, answer,
                   historyVars>>

NextCursor ==
    /\ phase = "read"
    /\ batch = {}
    /\ more
    /\ phase' = "scan"
    /\ UNCHANGED <<setup, stored, changes, request, scanVars, answer, historyVars>>

ScanEnds ==
    /\ phase = "read"
    /\ batch = {}
    /\ ~more
    /\ answer' = IF request.kind = "latest"
                 THEN LatestDeployment(ToSet(found), request)
                 ELSE ApplyFilter(found, request)
    /\ phase' = "done"
    /\ UNCHANGED <<setup, stored, changes, request, scanVars, historyVars>>

\* Redis does not answer, or the client has gone.
StoreFails ==
    /\ phase \in {"get", "lock", "scan"} \/ (phase = "read" /\ batch # {})
    /\ phase' = "500"
    /\ UNCHANGED <<setup, stored, changes, request, scanVars, answer, historyVars>>

Respond ==
    /\ phase \in {"done", "500"}
    /\ phase' = "idle"
    /\ request' = None /\ changes' = 0
    /\ scans' = 0 /\ unseen' = {} /\ batch' = {} /\ more' = FALSE /\ found' = <<>>
    /\ answer' = None
    /\ steady' = {} /\ present' = {} /\ newest' = {} /\ inOrder' = TRUE
    /\ UNCHANGED <<setup, stored>>

Next ==
    \/ \E d \in Deployments : Deploy(d)
    \/ \E k \in Keys : Expire(k) \/ ReadKey(k)
    \/ \E r \in Requests : Ask(r)
    \/ \E keys \in SUBSET Keys, continues \in BOOLEAN : Scan(keys, continues)
    \/ Get \/ Collect \/ NextCursor \/ ScanEnds \/ StoreFails \/ Respond

Spec == Init /\ [][Next]_vars
-----------------------------------------------------------------------------
Answered(kind) == phase = "done" /\ request.kind = kind

\* The scan is not a snapshot, yet what it answers as the latest was the
\* service's newest at some instant of the request: if nothing expired, and if
\* what was recorded of the service meanwhile was not older than what was there.
LatestIsCurrent ==
    Answered("latest") /\ answer # None /\ ~setup.lapsing /\ inOrder => answer \in newest

\* Expiring keys or not, in order or late, the latest is a deployment of the
\* service that was in place during the request, and none of them that was in
\* place all through it is newer.
LatestOutranksSteady ==
    Answered("latest") =>
      /\ answer = None \/ (answer \in present /\ answer.service = request.service)
      /\ \A d \in steady : d.service = request.service =>
           answer # None /\ ~Newer(d, answer)

\* "404 when nothing is recorded for the service" (api.md): it was unknown at
\* some instant of the request, if nothing expired.
UnknownIsUnknown ==
    Answered("latest") /\ answer = None /\ ~setup.lapsing => None \in newest

\* A list has every deployment that was in place all through the request and
\* passes the filter, unless it is full of newer ones.
ListKeepsSteady ==
    Answered("list") =>
      \A d \in steady : Matches(d, request) =>
        \/ d \in ToSet(answer)
        \/ /\ Len(answer) = Limit(request)
           /\ \A e \in ToSet(answer) : Newer(e, d)

\* api.md: a list is "newest first", at most "limit" long and "capped", of
\* deployments in the environment, "at or after" since; each was in place at
\* some instant of the request.
ListIsSound ==
    Answered("list") =>
      /\ Len(answer) =< MaxLimit
      /\ request.limit # 0 => Len(answer) =< request.limit
      /\ \A i \in 2..Len(answer) : answer[i].at =< answer[i - 1].at
      /\ \A d \in ToSet(answer) :
           /\ d \in present
           /\ request.environment \in {None, d.environment}
           /\ d.at >= request.since

\* interface.go:9: deployments are "keyed by service and environment"; a
\* lookup answers with a deployment of those it names.
LookupKeepsSlotsApart ==
    Answered("exact") /\ answer # None =>
      /\ answer.service = request.service
      /\ answer.environment = request.environment
=============================================================================
