--------------------------- MODULE CachedResolver ---------------------------
(***************************************************************************)
(* pkg/otelbridge: spans started by concurrent goroutines, each resolving  *)
(* its service's deployment through one CachedResolver.                    *)
(*                                                                         *)
(* ResolveDeployment captures now, reads the map entry under the mutex,    *)
(* and when that entry is missing or expired asks the wrapped resolver     *)
(* with no lock held; then it stores under the mutex.  Each of those is a  *)
(* step here, so other calls, Invalidate, Reset, new deployments, outages  *)
(* and the passage of time fall between any two of them.                   *)
(***************************************************************************)
EXTENDS BridgeView

CONSTANTS Callers, CacheTTL, NegativeTTL, LookupTimeout, NoReply, Failure

VARIABLES entries,  \* service -> cacheEntry, the Go zero value when absent
          call      \* caller -> the span start it is in

vars == <<bridgeVars, entries, call>>

\* What a caller sees of its span start: that it waits, then the outcome.
LookupOf(k) ==
    [phase   |-> IF k.phase \in {"idle", "done"} THEN k.phase ELSE "pending",
     service |-> k.service,
     now     |-> k.now,
     reply   |-> IF k.phase = "done" THEN k.reply ELSE NoReply]

lookup == [c \in Callers |-> LookupOf(call[c])]

\* The promise this module implements (see Refinement below).
Promise == INSTANCE DeploymentLookup WITH request <- lookup

ASSUME ResolverAssumption ==
    /\ CacheTTL \in Nat \ {0}
    /\ NegativeTTL \in Nat \ {0}
    /\ LookupTimeout \in Nat \ {0}
    /\ NoReply \notin Answers
    /\ Failure \notin Answers
    /\ NoReply # Failure

NoEntry == [answer |-> NoReply, expiresAt |-> 0]

MaxExpiry == MaxClock + CacheTTL + NegativeTTL
Entries == [answer : Answers \union {NoReply}, expiresAt : 0..MaxExpiry]

\* "reading": now is captured; "asking": the wrapped resolver is running;
\* "replied": the bridge has answered and the answer is on its way back.
Calls == [phase : {"idle", "reading", "asking", "replied", "done"},
          service : Services, now : 0..MaxClock, entry : Entries,
          reply : Answers \union {NoReply, Failure},
          source : {"none", "cache", "bridge", "fallback"}]

TypeOK ==
    /\ BridgeTypeOK
    /\ entries \in [Services -> Entries]
    /\ call \in [Callers -> Calls]

Init ==
    /\ BridgeInit
    /\ entries = [s \in Services |-> NoEntry]
    /\ call \in [Callers -> {k \in Calls : /\ k.phase = "idle"
                                           /\ k.now = 0
                                           /\ k.entry = NoEntry
                                           /\ k.reply = NoReply
                                           /\ k.source = "none"}]
-----------------------------------------------------------------------------
Lifetime(a) == IF a = NotFound THEN NegativeTTL ELSE CacheTTL

\* Mutant: an entry is used however old it is.
LiveForever(entry, now) == entry.answer # NoReply

\* now.Before(entry.expiresAt), with the now captured at the start.
Live(entry, now) == entry.answer # NoReply /\ now < entry.expiresAt

DeadlinePassed(k) == clock >= k.now + LookupTimeout
InFlight(k) == k.phase \in {"asking", "replied"}

\* OnStart arms the lookup timeout and ResolveDeployment captures now.
\* Bound: a span starts early enough for its timeout to fit below MaxClock.
OnStart(c, s) ==
    /\ call[c].phase = "idle"
    /\ clock + LookupTimeout =< MaxClock
    /\ call' = [call EXCEPT ![c] =
                  [phase |-> "reading", service |-> s, now |-> clock,
                   entry |-> NoEntry, reply |-> NoReply, source |-> "none"]]
    /\ UNCHANGED <<bridgeVars, entries>>

Hit(c) ==
    LET k == call[c] entry == entries[k.service] IN
    /\ k.phase = "reading"
    /\ Live(entry, k.now)
    /\ call' = [call EXCEPT ![c] = [k EXCEPT !.phase = "done",
                                             !.reply = entry.answer,
                                             !.source = "cache"]]
    /\ UNCHANGED <<bridgeVars, entries>>

Miss(c) ==
    LET k == call[c] entry == entries[k.service] IN
    /\ k.phase = "reading"
    /\ ~Live(entry, k.now)
    /\ call' = [call EXCEPT ![c] = [k EXCEPT !.phase = "asking",
                                             !.entry = entry]]
    /\ UNCHANGED <<bridgeVars, entries>>

\* The bridge handles the GET; its answer is fixed here and travels back.
BridgeAnswers(c) ==
    /\ call[c].phase = "asking"
    /\ health = "up"
    /\ call' = [call EXCEPT ![c].phase = "replied",
                            ![c].reply = truth[call[c].service]]
    /\ UNCHANGED <<bridgeVars, entries>>

\* Mutant: the entry's lifetime is counted from the end of the lookup.
StoreReplyFromNow(c) ==
    LET k == call[c] IN
    /\ k.phase = "replied" /\ k.reply # Failure
    /\ entries' = [entries EXCEPT ![k.service] =
                     [answer |-> k.reply,
                      expiresAt |-> clock + Lifetime(k.reply)]]
    /\ call' = [call EXCEPT ![c] = [k EXCEPT !.phase = "done",
                                             !.entry = NoEntry,
                                             !.source = "bridge"]]
    /\ UNCHANGED bridgeVars

\* Mutant: "not found" is returned without being remembered.
StoreDeploymentsOnly(c) ==
    LET k == call[c] IN
    /\ k.phase = "replied" /\ k.reply # Failure
    /\ entries' = IF k.reply = NotFound THEN entries
                  ELSE [entries EXCEPT ![k.service] =
                          [answer |-> k.reply, expiresAt |-> k.now + CacheTTL]]
    /\ call' = [call EXCEPT ![c] = [k EXCEPT !.phase = "done",
                                             !.entry = NoEntry,
                                             !.source = "bridge"]]
    /\ UNCHANGED bridgeVars

\* Mutant: errors are remembered like answers.
StoreAnyReply(c) ==
    LET k == call[c] IN
    /\ k.phase = "replied"
    /\ entries' = [entries EXCEPT ![k.service] =
                     [answer |-> k.reply,
                      expiresAt |-> k.now + Lifetime(k.reply)]]
    /\ call' = [call EXCEPT ![c] = [k EXCEPT !.phase = "done",
                                             !.entry = NoEntry,
                                             !.source = "bridge"]]
    /\ UNCHANGED bridgeVars

\* The first two cases of the switch: remember the answer and return it.
StoreReply(c) ==
    LET k == call[c] IN
    /\ k.phase = "replied" /\ k.reply # Failure
    /\ entries' = [entries EXCEPT ![k.service] =
                     [answer |-> k.reply,
                      expiresAt |-> k.now + Lifetime(k.reply)]]
    /\ call' = [call EXCEPT ![c] = [k EXCEPT !.phase = "done",
                                             !.entry = NoEntry,
                                             !.source = "bridge"]]
    /\ UNCHANGED bridgeVars

\* Mutant: OnStart passes a context without a timeout.
LookupFailsWithoutTimeout(c) ==
    LET k == call[c] IN
    /\ InFlight(k) /\ k.reply # Failure
    /\ health = "down"
    /\ call' = [call EXCEPT ![c].phase = "replied", ![c].reply = Failure]
    /\ UNCHANGED <<bridgeVars, entries>>

\* The request fails, is refused, or runs into OnStart's timeout.
LookupFails(c) ==
    LET k == call[c] IN
    /\ InFlight(k) /\ k.reply # Failure
    /\ health = "down" \/ DeadlinePassed(k)
    /\ call' = [call EXCEPT ![c].phase = "replied", ![c].reply = Failure]
    /\ UNCHANGED <<bridgeVars, entries>>

\* Mutant: the fallback is whatever entry is cached, "not found" included.
FallBackToAnyEntry(c) ==
    LET k == call[c] IN
    /\ k.phase = "replied" /\ k.reply = Failure
    /\ call' = [call EXCEPT ![c] =
                  [k EXCEPT !.phase = "done", !.entry = NoEntry,
                            !.reply = IF k.entry.answer # NoReply
                                      THEN k.entry.answer ELSE Failure,
                            !.source = "fallback"]]
    /\ UNCHANGED <<bridgeVars, entries>>

\* The default case: the entry read before the lookup, however old, is
\* returned if it is a deployment.  Nothing is stored.
FallBack(c) ==
    LET k == call[c] IN
    /\ k.phase = "replied" /\ k.reply = Failure
    /\ call' = [call EXCEPT ![c] =
                  [k EXCEPT !.phase = "done", !.entry = NoEntry,
                            !.reply = IF k.entry.answer \in Deployments
                                      THEN k.entry.answer ELSE Failure,
                            !.source = "fallback"]]
    /\ UNCHANGED <<bridgeVars, entries>>

\* The caller goes on with its span and may start another one.
SpanStarted(c) ==
    /\ call[c].phase = "done"
    /\ call' = [call EXCEPT ![c] =
                  [@ EXCEPT !.phase = "idle", !.now = 0,
                            !.reply = NoReply, !.source = "none"]]
    /\ UNCHANGED <<bridgeVars, entries>>

Invalidate(s) ==
    /\ entries' = [entries EXCEPT ![s] = NoEntry]
    /\ UNCHANGED <<bridgeVars, call>>

Reset ==
    /\ entries' = [s \in Services |-> NoEntry]
    /\ UNCHANGED <<bridgeVars, call>>

CallerNext(c) ==
    \/ \E s \in Services : OnStart(c, s)
    \/ Hit(c)
    \/ Miss(c)
    \/ BridgeAnswers(c)
    \/ StoreReply(c)
    \/ LookupFails(c)
    \/ FallBack(c)
    \/ SpanStarted(c)

Next ==
    \/ BridgeNext /\ UNCHANGED <<entries, call>>
    \/ \E c \in Callers : CallerNext(c)
    \/ \E s \in Services : Invalidate(s)
    \/ Reset

Spec == Init /\ [][Next]_vars

\* A started span's call goes on to its end: OnStart runs on the goroutine that
\* starts the span and takes no lock but the cache's.
Proceeds(c) == Hit(c) \/ Miss(c) \/ LookupFails(c) \/ StoreReply(c) \/ FallBack(c)

\* The timeout bounds the lookup whatever the bridge does, so BridgeAnswers needs
\* no fairness.
Fairness ==
    /\ WF_vars(Tick /\ UNCHANGED <<entries, call>>)
    /\ \A c \in Callers : WF_vars(Proceeds(c))
-----------------------------------------------------------------------------
\* An answer the resolver gives without an error, from the cache or from the
\* bridge, was the bridge's truth less than one cache period (CacheTTL for a
\* deployment, NegativeTTL for "not found") before the span began: although
\* lookups overlap, answer late, overwrite each other's entries, and race
\* with Invalidate and with new deployments.
BoundedStaleness ==
    \A c \in Callers :
      call[c].phase = "done" /\ call[c].source # "fallback" =>
        lastTrue[call[c].service][call[c].reply]
          > call[c].now - Lifetime(call[c].reply)

\* A span is started with a fallback only if the bridge failed, or the lookup
\* ran out of time, after the span began; and the fallback is an error or a
\* deployment the bridge did report for that very service, never a cached
\* "not found": an outage does not make a running service unknown.
FallbackIsJustified ==
    \A c \in Callers :
      call[c].phase = "done" /\ call[c].source = "fallback" =>
        /\ lastDown >= call[c].now \/ DeadlinePassed(call[c])
        /\ \/ call[c].reply = Failure
           \/ /\ call[c].reply \in Deployments
              /\ lastTrue[call[c].service][call[c].reply] # Never

\* The resolver implements the lookup promise, cache and all.
Refinement == Promise!AbstractSpec

\* The inductive invariant behind the properties above.
Backed(s, entry) ==
    entry.answer \in Answers =>
      /\ lastTrue[s][entry.answer] >= entry.expiresAt - Lifetime(entry.answer)
      /\ lastTrue[s][entry.answer] # Never

EntriesBacked == \A s \in Services : Backed(s, entries[s])

CallBacked(k) ==
    /\ k.now =< clock
    /\ InFlight(k) => Backed(k.service, k.entry)
    /\ k.phase = "replied" /\ k.reply # Failure =>
         /\ k.reply \in Answers
         /\ lastTrue[k.service][k.reply] >= k.now
    /\ k.phase = "replied" /\ k.reply = Failure =>
         lastDown >= k.now \/ DeadlinePassed(k)
    /\ k.phase = "done" /\ k.source # "fallback" => k.reply \in Answers

IInv ==
    /\ TypeOK
    /\ HistoryIsCurrent
    /\ EntriesBacked
    /\ \A c \in Callers : CallBacked(call[c])
    /\ BoundedStaleness
    /\ FallbackIsJustified

\* Starting a span never hangs on its lookup, whatever the bridge does.
SpanStartReturns ==
    \A c \in Callers : call[c].phase = "reading" ~> call[c].phase = "done"
=============================================================================
