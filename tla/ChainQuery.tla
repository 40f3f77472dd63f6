----------------------------- MODULE ChainQuery -----------------------------
(***************************************************************************)
(* internal/correlator: one BuildChain request (GET /chain/{eventId}) over *)
(* a store that changes while it runs.  The start event is read, then read *)
(* again as the first of a breadth-first walk over links, one GetEvent per *)
(* event; then the events of the start event's chainId are read, on Redis  *)
(* the ids first and each event after it.  Events may be saved, and may    *)
(* expire, between any two reads.                                          *)
(***************************************************************************)
EXTENDS Integers, Sequences, FiniteSets, SequencesExt, Ordering

CONSTANTS Ids,        \* CDEvent ids, numbers in the order of the strings
          Universes,  \* what pipelines may have sent: id -> event
          MaxDepth,   \* DefaultMaxDepth, 32
          MaxEvents,  \* DefaultMaxEvents, 256
          NoChain

\* An event: its links, in order, its chainId, its time, whether it is a
\* change.merged, a deployment or something else, whether it has a commit.
Kinds == {"change", "deployment", "other"}

ASSUME QueryAssumption ==
    /\ Ids \subseteq Nat
    /\ MaxDepth \in Nat
    /\ MaxEvents \in Nat \ {0}
    /\ \A u \in Universes : \A i \in Ids :
         /\ u[i].links \in Seq(Ids)
         /\ u[i].time \in Nat /\ u[i].kind \in Kinds /\ u[i].commit \in BOOLEAN

VARIABLES universe,  \* the events that can be saved, fixed from the start
          stored,    \* ids of the events in the store
          phase,     \* where BuildChain is
          start,     \* the eventId of the request
          queue,     \* ids and depths still to be walked
          visited,   \* ids the walk has queued
          walked,    \* events of the walk, in order
          members,   \* ids of the chain index still to be read
          siblings,  \* events read for the chainId
          steady,    \* ids stored since the request began (history)
          seen       \* ids stored at some instant since then (history)

walkVars == <<queue, visited, walked>>
storeVars == <<stored, steady, seen>>
vars == <<universe, storeVars, phase, start, walkVars, members, siblings>>

TypeOK ==
    /\ universe \in Universes
    /\ stored \subseteq seen /\ steady \subseteq stored /\ seen \subseteq Ids
    /\ phase \in {"start", "walk", "index", "members", "done", "404", "500"}
    /\ start \in Ids
    /\ \A n \in ToSet(queue) : n.id \in visited /\ n.depth \in 0..MaxDepth
    /\ visited \subseteq Ids
    /\ ToSet(walked) \subseteq visited
    /\ members \subseteq Ids /\ siblings \subseteq Ids

Init ==
    /\ universe \in Universes
    /\ stored \in SUBSET Ids
    /\ steady = stored
    /\ seen = stored
    /\ phase = "start"
    /\ start \in Ids
    /\ queue = <<>>
    /\ visited = {}
    /\ walked = <<>>
    /\ members = {}
    /\ siblings = {}
-----------------------------------------------------------------------------
ChainOf(id) == universe[id].chain

\* An event the bridge had not seen, or had lost, is saved.
Saved(id) ==
    /\ id \notin stored
    /\ stored' = stored \union {id}
    /\ seen' = seen \union {id}
    /\ UNCHANGED <<universe, steady, phase, start, walkVars, members, siblings>>

Expired(id) ==
    /\ id \in stored
    /\ stored' = stored \ {id}
    /\ steady' = steady \ {id}
    /\ UNCHANGED <<universe, seen, phase, start, walkVars, members, siblings>>

StartFound ==
    /\ phase = "start"
    /\ start \in stored
    /\ phase' = "walk"
    /\ queue' = <<[id |-> start, depth |-> 0]>>
    /\ visited' = {start}
    /\ UNCHANGED <<universe, storeVars, start, walked, members, siblings>>

StartUnknown ==
    /\ phase = "start"
    /\ start \notin stored
    /\ phase' = "404"
    /\ UNCHANGED <<universe, storeVars, start, walkVars, members, siblings>>

Walking == phase = "walk" /\ queue # <<>> /\ Len(walked) < MaxEvents

\* Mutant: the visited set is consulted but not kept up to date.
NewLinksOnlyStart(id) == {SelectSeq(universe[id].links, LAMBDA l : l # start)}

\* The links of an event that the walk has not queued, each once, in the order
\* of their first places: the one sequence of this set.
NewLinks(id) ==
    LET links == universe[id].links
        fresh == ToSet(links) \ visited
    IN  {new \in [1..Cardinality(fresh) -> fresh] :
           /\ ToSet(new) = fresh
           /\ \A i, j \in DOMAIN new : i < j =>
                \E k \in DOMAIN links :
                  links[k] = new[i] /\ \A m \in 1..k : links[m] # new[j]}

\* Mutant: links are followed from events at the depth limit too.
WalkTooDeep ==
    LET head == Head(queue) IN
    /\ Walking
    /\ head.id \in stored
    /\ walked' = Append(walked, head.id)
    /\ \E new \in IF head.depth > MaxDepth THEN {<<>>} ELSE NewLinks(head.id) :
         /\ queue' = Tail(queue) \o
              [i \in DOMAIN new |-> [id |-> new[i], depth |-> head.depth + 1]]
         /\ visited' = visited \union ToSet(new)
    /\ UNCHANGED <<universe, storeVars, phase, start, members, siblings>>

\* GetEvent finds the event at the head of the queue.  At the depth limit its
\* links are not followed.
Walk ==
    LET head == Head(queue) IN
    /\ Walking
    /\ head.id \in stored
    /\ walked' = Append(walked, head.id)
    /\ \E new \in IF head.depth >= MaxDepth THEN {<<>>} ELSE NewLinks(head.id) :
         /\ queue' = Tail(queue) \o
              [i \in DOMAIN new |-> [id |-> new[i], depth |-> head.depth + 1]]
         /\ visited' = visited \union ToSet(new)
    /\ UNCHANGED <<universe, storeVars, phase, start, members, siblings>>

\* Mutant: an event that is not there yet is tried again later.
WalkPastRetries ==
    /\ Walking
    /\ Head(queue).id \notin stored
    /\ queue' = Append(Tail(queue), Head(queue))
    /\ UNCHANGED <<universe, storeVars, phase, start, visited, walked,
                   members, siblings>>

\* A link to an event that is not in the store is passed over.
WalkPast ==
    /\ Walking
    /\ Head(queue).id \notin stored
    /\ queue' = Tail(queue)
    /\ UNCHANGED <<universe, storeVars, phase, start, visited, walked,
                   members, siblings>>

\* The union with the chainId's events is skipped if the start event has none.
WalkEnds ==
    /\ phase = "walk"
    /\ ~Walking
    /\ phase' = IF ChainOf(start) = NoChain THEN "done" ELSE "index"
    /\ UNCHANGED <<universe, storeVars, start, walkVars, members, siblings>>

\* SMEMBERS; the index may still hold ids of events that have expired.
ReadIndex ==
    /\ phase = "index"
    /\ \E lapsed \in SUBSET {i \in Ids \ stored : ChainOf(i) = ChainOf(start)} :
         members' = {i \in stored : ChainOf(i) = ChainOf(start)} \union lapsed
    /\ phase' = "members"
    /\ UNCHANGED <<universe, storeVars, start, walkVars, siblings>>

\* Mutant: the index is trusted, an id of it that has expired is kept.
ReadMemberExpired(id) ==
    /\ phase = "members"
    /\ id \in members
    /\ members' = members \ {id}
    /\ siblings' = siblings \union {id}
    /\ UNCHANGED <<universe, storeVars, phase, start, walkVars>>

\* Mutant: siblings are read only while the chain is below its size limit.
ReadMemberBounded(id) ==
    /\ phase = "members"
    /\ id \in members
    /\ members' = members \ {id}
    /\ siblings' = IF id \in stored
                      /\ Cardinality(ToSet(walked) \union siblings) < MaxEvents
                   THEN siblings \union {id} ELSE siblings
    /\ UNCHANGED <<universe, storeVars, phase, start, walkVars>>

\* GetEvent of one id; an event that has expired is passed over.
ReadMember(id) ==
    /\ phase = "members"
    /\ id \in members
    /\ members' = members \ {id}
    /\ siblings' = IF id \in stored THEN siblings \union {id} ELSE siblings
    /\ UNCHANGED <<universe, storeVars, phase, start, walkVars>>

MembersRead ==
    /\ phase = "members"
    /\ members = {}
    /\ phase' = "done"
    /\ UNCHANGED <<universe, storeVars, start, walkVars, members, siblings>>

\* Any read may fail, and BuildChain with it.
StoreFails ==
    /\ phase \in {"start", "index", "members"} \/ Walking
    /\ phase' = "500"
    /\ UNCHANGED <<universe, storeVars, start, walkVars, members, siblings>>

QueryNext ==
    \/ StartFound \/ StartUnknown
    \/ Walk \/ WalkPast \/ WalkEnds
    \/ ReadIndex \/ MembersRead
    \/ \E id \in Ids : ReadMember(id)
    \/ StoreFails

Next == QueryNext \/ \E id \in Ids : Saved(id) \/ Expired(id)

Spec == Init /\ [][Next]_vars

\* The request runs on its own goroutine and every read returns or fails; the
\* store owes the request nothing.
FairSpec == Spec /\ WF_vars(QueryNext)
-----------------------------------------------------------------------------
Chain == ToSet(walked) \union siblings

\* sort.SliceStable: newest first, then by id.
Newer(a, b) == \/ universe[a].time > universe[b].time
               \/ universe[a].time = universe[b].time /\ a < b
Ordered == InOrder(Chain, {p \in Chain \X Chain : Newer(p[1], p[2])})

NoCause == [merged |-> {}, fallback |-> {}]

\* One round of FindRootCause's loop, which returns at the first change.merged
\* with a commit and keeps the first deployment with one.
Consider(id, cause) ==
    LET e == universe[id] IN
    IF cause.merged # {} \/ ~e.commit THEN cause
    ELSE CASE e.kind = "change" -> [cause EXCEPT !.merged = {id}]
           [] e.kind = "deployment" /\ cause.fallback = {} ->
                [cause EXCEPT !.fallback = {id}]
           [] OTHER -> cause

\* Mutant: the events are considered newest first.
FindRootCauseNewest(events) ==
    LET cause[n \in 0..Len(events)] ==
          IF n = 0 THEN NoCause ELSE Consider(events[n], cause[n - 1])
        last == cause[Len(events)]
    IN  IF last.merged # {} THEN last.merged ELSE last.fallback

\* The loop runs from the last, oldest, event to the first.
FindRootCause(events) ==
    LET cause[n \in 0..Len(events)] ==
          IF n = 0 THEN NoCause
          ELSE Consider(events[Len(events) + 1 - n], cause[n - 1])
        last == cause[Len(events)]
    IN  IF last.merged # {} THEN last.merged ELSE last.fallback
-----------------------------------------------------------------------------
\* The events that paths of at most MaxDepth links, over events in S, lead to
\* from the start.
Paths(S, n) ==
    {p \in [0..n -> S] :
       p[0] = start /\ \A k \in 1..n : p[k] \in ToSet(universe[p[k - 1]].links)}

Within(S) == UNION {{p[n] : p \in Paths(S, n)} : n \in 0..MaxDepth}

SameChain(id) == ChainOf(start) # NoChain /\ ChainOf(id) = ChainOf(start)

\* What the store held all through the request is found: every event within
\* MaxDepth links of the start, unless the walk hit its size limit, and every
\* event of the start's chainId, whatever was saved or expired meanwhile.
SteadyChainIsComplete ==
    phase = "done" =>
      /\ Within(steady) \subseteq Chain \/ Len(walked) = MaxEvents
      /\ \A i \in steady : SameChain(i) => i \in Chain

\* Nothing else is found: each event of the answer was stored at some instant
\* of the request and is linked within MaxDepth hops, through such events, or
\* carries the start's chainId.
ChainIsJustified ==
    phase = "done" =>
      \A i \in Chain : i \in seen /\ (i \in Within(seen) \/ SameChain(i))

\* Cycles and diamonds of links do not make the walk visit an event twice.
EachEventOnce == IsInjective(walked)

\* api.md: the root cause "is taken from the earliest change.merged event that
\* carries a commit, or, failing that, from the commit recorded on the
\* deployment event": the loop over the sorted chain finds that event.
RootCauseIsEarliest ==
    phase = "done" =>
      LET of(kind) == {i \in Chain : universe[i].kind = kind /\ universe[i].commit}
          candidates == IF of("change") # {} THEN of("change") ELSE of("deployment")
          cause == FindRootCause(Ordered)
      IN  /\ cause = {} <=> candidates = {}
          /\ \A i \in cause, j \in candidates :
               i \in candidates /\ universe[i].time =< universe[j].time

\* The request ends, on cyclic links too and however the store changes.
QueryEnds == phase = "start" ~> phase \in {"done", "404", "500"}

\* architecture.md, Limits: "Chains stop at 32 hops or 256 events."
ChainIsBounded == phase = "done" => Cardinality(Chain) =< MaxEvents
=============================================================================
