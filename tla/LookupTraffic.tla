---------------------------- MODULE LookupTraffic ----------------------------
(***************************************************************************)
(* How often span starts reach the bridge.  CachedResolver with a history  *)
(* variable that remembers, per service, the latest lookup that ended with *)
(* one of the outcomes Noted while no other lookup of the service was      *)
(* under way: what it found is what every later span start knows, until    *)
(* Invalidate or Reset, which exist to force a lookup.                     *)
(***************************************************************************)
EXTENDS CachedResolver

CONSTANT Noted    \* answers that are remembered, or failures too

VARIABLE settled  \* service -> when that lookup began and what it brought

Unsettled == [at |-> Never, result |-> NoReply]

TrafficInit ==
    /\ Init
    /\ settled = [s \in Services |-> Unsettled]

Asking(s) == {c \in Callers : InFlight(call[c]) /\ call[c].service = s}

Ends(c) == call[c].phase = "replied" /\ call'[c].phase = "done"

Observe(c) ==
    LET k == call[c] IN
    settled' = IF Ends(c) /\ Asking(k.service) = {c} /\ k.reply \in Noted
               THEN [settled EXCEPT ![k.service] = [at |-> k.now, result |-> k.reply]]
               ELSE settled

TrafficNext ==
    \/ BridgeNext /\ UNCHANGED <<entries, call, settled>>
    \/ \E c \in Callers : CallerNext(c) /\ Observe(c)
    \/ \E s \in Services :
         Invalidate(s) /\ settled' = [settled EXCEPT ![s] = Unsettled]
    \/ Reset /\ settled' = [s \in Services |-> Unsettled]

TrafficSpec ==
    TrafficInit /\ [][TrafficNext]_<<vars, settled>> /\ Fairness
-----------------------------------------------------------------------------
\* Once lookups of a service have settled on an answer, "not found" included,
\* no span start asks the bridge again before that answer's cache period is
\* over (resolver.go:94-104): not those that read the cache late, and not after
\* further lookups that overlap, fail or overwrite each other's entries.
SettledAnswersLast ==
    \A c \in Callers : LET known == settled[call[c].service] IN
      InFlight(call[c]) /\ known.result \in Answers =>
        call[c].now >= known.at + Lifetime(known.result)

\* resolver.go:6-7: "the processor must never make a network call per span":
\* whatever the outcome of a lookup, the next span of the service does not
\* repeat it at once.
EveryLookupIsSpaced ==
    \A c \in Callers : LET known == settled[call[c].service] IN
      InFlight(call[c]) /\ known.result # NoReply =>
        call[c].now >= known.at + NegativeTTL

Answered(c) == call[c].phase = "replied" /\ call[c].reply \in Answers

\* docs/architecture.md:139-141: the processor "relies on the cache so a lookup
\* happens at most once per service per cache period": no two lookups of a
\* service that the bridge answers begin within the shortest cache period.
AtMostOncePerPeriod ==
    \A c, d \in Callers :
      (/\ c # d /\ call[c].service = call[d].service
       /\ Answered(c) /\ Answered(d)) =>
        \/ call[d].now >= call[c].now + NegativeTTL
        \/ call[c].now >= call[d].now + NegativeTTL
=============================================================================
