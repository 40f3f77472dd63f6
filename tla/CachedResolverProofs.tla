------------------------ MODULE CachedResolverProofs ------------------------
(***************************************************************************)
(* Theorems about CachedResolver for every set of callers, services and    *)
(* deployments and every choice of the periods.  The inductive invariant   *)
(* is IInv: an entry, and an entry a pending call has read, was the truth  *)
(* no earlier than its expiry minus its lifetime, because now is captured  *)
(* before the bridge is asked; the observer's history only grows.          *)
(***************************************************************************)
EXTENDS LookupTraffic, TLAPS

\* Whatever the bridge does, the history variables only move forward.
HistoryGrows ==
    /\ clock' >= clock
    /\ lastDown' >= lastDown
    /\ \A s \in Services, a \in Answers : lastTrue'[s][a] >= lastTrue[s][a]

LEMMA Constants ==
    /\ CacheTTL \in Nat /\ CacheTTL > 0
    /\ NegativeTTL \in Nat /\ NegativeTTL > 0
    /\ LookupTimeout \in Nat /\ LookupTimeout > 0
    /\ MaxClock \in Nat
    /\ NotFound \notin Deployments
    /\ NoReply \notin Answers
    /\ Failure \notin Answers
    /\ NoReply # Failure
    /\ NotFound \in Answers
    /\ \A a : Lifetime(a) \in Nat /\ Lifetime(a) > 0
BY BridgeAssumption, ResolverAssumption DEF Answers, Lifetime

LEMMA BridgeStep ==
    ASSUME BridgeTypeOK, HistoryIsCurrent, [BridgeNext]_bridgeVars
    PROVE  BridgeTypeOK' /\ HistoryIsCurrent' /\ HistoryGrows
<1>1. CASE Tick
  BY <1>1, Constants
  DEF Tick, BridgeTypeOK, HistoryIsCurrent, HistoryGrows, Never, Answers
<1>2. ASSUME NEW s \in Services, NEW a \in Answers, TruthChanges(s, a)
      PROVE  BridgeTypeOK' /\ HistoryIsCurrent' /\ HistoryGrows
  <2> USE Constants DEF BridgeTypeOK, HistoryIsCurrent, Never, Answers
  <2>1. lastTrue' \in [Services -> [Answers -> Never..MaxClock]]
    BY <1>2 DEF TruthChanges
  <2>2. \A t \in Services, b \in Answers :
          lastTrue'[t][b] = IF t = s /\ b = a THEN clock ELSE lastTrue[t][b]
    BY <1>2 DEF TruthChanges
  <2>3. /\ truth' \in [Services -> Answers]
        /\ \A t \in Services : truth'[t] = IF t = s THEN a ELSE truth[t]
    BY <1>2 DEF TruthChanges
  <2>4. UNCHANGED <<clock, health, lastDown>>
    BY <1>2 DEF TruthChanges
  <2>5. /\ \A t \in Services : lastTrue'[t][truth'[t]] = clock'
        /\ \A t \in Services, b \in Answers : lastTrue'[t][b] =< clock'
    BY <2>2, <2>3, <2>4
  <2>6. HistoryGrows
    BY <2>2, <2>4 DEF HistoryGrows
  <2>7. BridgeTypeOK'
    BY <2>1, <2>3, <2>4
  <2>8. HistoryIsCurrent'
    BY <2>4, <2>5
  <2> QED BY ONLY <2>6, <2>7, <2>8
<1>3. CASE BridgeDown
  <2>1. BridgeTypeOK'
    BY <1>3, BridgeAssumption DEF BridgeDown, BridgeTypeOK, Never
  <2>2. HistoryIsCurrent'
    BY <1>3, BridgeAssumption DEF BridgeDown, BridgeTypeOK, HistoryIsCurrent, Never
  <2>3. HistoryGrows
    BY <1>3, BridgeAssumption
    DEF BridgeDown, BridgeTypeOK, HistoryIsCurrent, HistoryGrows, Never
  <2> QED BY ONLY <2>1, <2>2, <2>3
<1>4. CASE BridgeUp
  <2>1. BridgeTypeOK'
    BY <1>4, BridgeAssumption DEF BridgeUp, BridgeTypeOK, Never
  <2>2. HistoryIsCurrent'
    BY <1>4, BridgeAssumption DEF BridgeUp, BridgeTypeOK, HistoryIsCurrent, Never
  <2>3. HistoryGrows
    BY <1>4, BridgeAssumption
    DEF BridgeUp, BridgeTypeOK, HistoryIsCurrent, HistoryGrows, Never
  <2> QED BY ONLY <2>1, <2>2, <2>3
<1>5. CASE UNCHANGED bridgeVars
  <2>1. BridgeTypeOK'
    BY <1>5, BridgeAssumption DEF bridgeVars, BridgeTypeOK, Never
  <2>2. HistoryIsCurrent'
    BY <1>5, BridgeAssumption DEF bridgeVars, BridgeTypeOK, HistoryIsCurrent, Never
  <2>3. HistoryGrows
    BY <1>5, BridgeAssumption
    DEF bridgeVars, BridgeTypeOK, HistoryIsCurrent, HistoryGrows, Never
  <2> QED BY ONLY <2>1, <2>2, <2>3
<1> QED BY <1>1, <1>2, <1>3, <1>4, <1>5 DEF BridgeNext

LEMMA InitEstablishesIInv == Init => IInv
<1> SUFFICES ASSUME Init PROVE IInv
  OBVIOUS
<1> USE Constants DEF Init, BridgeInit
<1>1. TypeOK
  BY DEF TypeOK, BridgeTypeOK, Entries, Calls, NoEntry, MaxExpiry, Never, Answers
<1>2. HistoryIsCurrent
  BY DEF HistoryIsCurrent, Never, Answers
<1>3. EntriesBacked
  BY DEF EntriesBacked, Backed, NoEntry
<1>4. \A c \in Callers : CallBacked(call[c])
  BY DEF CallBacked, InFlight
<1>5. BoundedStaleness /\ FallbackIsJustified
  BY DEF BoundedStaleness, FallbackIsJustified
<1> QED BY <1>1, <1>2, <1>3, <1>4, <1>5 DEF IInv

\* A step of the bridge or the clock, or none, leaves every promise kept.
LEMMA BridgeKeepsIInv ==
    ASSUME IInv, [BridgeNext]_bridgeVars, UNCHANGED <<entries, call>>
    PROVE  IInv'
<1>1. BridgeTypeOK' /\ HistoryIsCurrent' /\ HistoryGrows
  BY BridgeStep DEF IInv, TypeOK
<1>2. TypeOK'
  BY <1>1 DEF IInv, TypeOK
<1> USE Constants, <1>1 DEF IInv, TypeOK, HistoryGrows, BridgeTypeOK, Never
<1>3. EntriesBacked'
  <2> SUFFICES ASSUME NEW s \in Services, entries[s].answer \in Answers
               PROVE  Backed(s, entries[s])'
    BY DEF EntriesBacked, Backed
  <2>1. Backed(s, entries[s]) /\ entries[s] \in Entries
    BY DEF EntriesBacked
  <2> QED BY <2>1 DEF Backed, Entries
<1>4. ASSUME NEW c \in Callers PROVE CallBacked(call[c])'
  <2> DEFINE k == call[c]
  <2>1. CallBacked(k) /\ k \in Calls
    OBVIOUS
  <2>2. (k.now =< clock)'
    BY <2>1 DEF CallBacked, Calls
  <2>3. InFlight(k) => Backed(k.service, k.entry)'
    BY <2>1 DEF CallBacked, Backed, Calls, Entries
  <2>4. k.phase = "replied" /\ k.reply # Failure =>
          k.reply \in Answers /\ lastTrue'[k.service][k.reply] >= k.now
    BY <2>1 DEF CallBacked, Calls
  <2>5. k.phase = "replied" /\ k.reply = Failure =>
          lastDown' >= k.now \/ clock' >= k.now + LookupTimeout
    BY <2>1 DEF CallBacked, Calls, DeadlinePassed
  <2>6. k' = k
    OBVIOUS
  <2> QED
    BY <2>1, <2>2, <2>3, <2>4, <2>5, <2>6
    DEF CallBacked, Backed, InFlight, DeadlinePassed
<1>5. BoundedStaleness'
  BY DEF BoundedStaleness, CallBacked, Calls
<1>6. FallbackIsJustified'
  <2> SUFFICES ASSUME NEW c \in Callers,
                      call[c].phase = "done", call[c].source = "fallback"
               PROVE  /\ lastDown' >= call[c].now \/ DeadlinePassed(call[c])'
                      /\ \/ call[c].reply = Failure
                         \/ /\ call[c].reply \in Deployments
                            /\ lastTrue'[call[c].service][call[c].reply] # Never
    BY DEF FallbackIsJustified, DeadlinePassed
  <2>1. call[c] \in Calls
    OBVIOUS
  <2>2. /\ lastDown >= call[c].now \/ DeadlinePassed(call[c])
        /\ \/ call[c].reply = Failure
           \/ /\ call[c].reply \in Deployments
              /\ lastTrue[call[c].service][call[c].reply] # Never
    BY DEF FallbackIsJustified
  <2> QED BY <2>1, <2>2 DEF DeadlinePassed, Calls, Answers
<1> QED BY <1>1, <1>2, <1>3, <1>4, <1>5, <1>6 DEF IInv

\* A step of caller c keeps IInv if c's new call keeps its part of it and
\* the entries stay backed: the other calls are untouched.
DoneWell(k) ==
    k.phase = "done" =>
      IF k.source # "fallback"
      THEN lastTrue[k.service][k.reply] > k.now - Lifetime(k.reply)
      ELSE /\ lastDown >= k.now \/ DeadlinePassed(k)
           /\ \/ k.reply = Failure
              \/ /\ k.reply \in Deployments
                 /\ lastTrue[k.service][k.reply] # Never

LEMMA EntryAndCallStepKeepsIInv ==
    ASSUME IInv, UNCHANGED bridgeVars,
           entries' \in [Services -> Entries], EntriesBacked',
           NEW c \in Callers, NEW k \in Calls,
           call' = [call EXCEPT ![c] = k],
           CallBacked(k), DoneWell(k)
    PROVE  IInv'
<1> USE DEF bridgeVars
<1>1. \A d \in Callers : call'[d] = IF d = c THEN k ELSE call[d]
  BY DEF IInv, TypeOK
<1>2. TypeOK'
  BY <1>1 DEF IInv, TypeOK, BridgeTypeOK
<1>3. HistoryIsCurrent'
  BY DEF IInv, HistoryIsCurrent
<1>4. ASSUME NEW d \in Callers PROVE CallBacked(call[d])'
  <2>1. CallBacked(call'[d])
    BY <1>1 DEF IInv
  <2> QED BY <2>1 DEF CallBacked, Backed, InFlight, DeadlinePassed
<1>5. BoundedStaleness'
  BY <1>1 DEF IInv, BoundedStaleness, DoneWell
<1>6. FallbackIsJustified'
  BY <1>1 DEF IInv, FallbackIsJustified, DoneWell, DeadlinePassed
<1> QED BY <1>2, <1>3, <1>4, <1>5, <1>6 DEF IInv

LEMMA CallStepKeepsIInv ==
    ASSUME IInv, UNCHANGED <<bridgeVars, entries>>,
           NEW c \in Callers, NEW k \in Calls,
           call' = [call EXCEPT ![c] = k],
           CallBacked(k), DoneWell(k)
    PROVE  IInv'
<1>1. UNCHANGED bridgeVars /\ entries' \in [Services -> Entries]
  BY DEF IInv, TypeOK
<1>2. EntriesBacked'
  BY DEF IInv, EntriesBacked, Backed, bridgeVars
<1> QED BY <1>1, <1>2, EntryAndCallStepKeepsIInv

LEMMA CallerKeepsIInv ==
    ASSUME IInv, NEW c \in Callers, CallerNext(c)
    PROVE  IInv'
<1> DEFINE k == call[c]
<1>1. /\ k \in Calls /\ CallBacked(k) /\ k.service \in Services
      /\ k.now \in Nat /\ clock \in Nat /\ BridgeTypeOK
  BY Constants DEF IInv, TypeOK, BridgeTypeOK, Calls
<1>2. ASSUME NEW s \in Services, OnStart(c, s) PROVE IInv'
  <2> DEFINE n == [phase |-> "reading", service |-> s, now |-> clock,
                   entry |-> NoEntry, reply |-> NoReply, source |-> "none"]
  <2>1. n \in Calls
    BY <1>1, Constants DEF Calls, Entries, NoEntry, MaxExpiry, BridgeTypeOK
  <2>2. CallBacked(n) /\ DoneWell(n)
    BY <1>1 DEF CallBacked, DoneWell, InFlight
  <2> QED BY <1>2, <2>1, <2>2, CallStepKeepsIInv DEF OnStart
<1>3. CASE Hit(c)
  <2> DEFINE e == entries[k.service]
             n == [k EXCEPT !.phase = "done", !.reply = e.answer,
                            !.source = "cache"]
  <2>1. e \in Entries /\ Backed(k.service, e) /\ Live(e, k.now)
    BY <1>1, <1>3 DEF IInv, TypeOK, EntriesBacked, Hit
  <2>2. e.answer \in Answers /\ n \in Calls
    BY <1>1, <2>1 DEF Entries, Live, Calls
  <2>3. n.phase = "done" /\ n.source = "cache" /\ n.reply = e.answer
        /\ n.service = k.service /\ n.now = k.now
    BY <1>1 DEF Calls
  <2>4. CallBacked(n)
    BY <1>1, <2>2, <2>3 DEF CallBacked, InFlight
  <2>5. lastTrue[k.service][e.answer] > k.now - Lifetime(e.answer)
    <3>1. /\ lastTrue[k.service][e.answer]
               >= e.expiresAt - Lifetime(e.answer)
          /\ k.now < e.expiresAt
      BY <2>1, <2>2 DEF Backed, Live
    <3>2. lastTrue[k.service][e.answer] \in Int /\ e.expiresAt \in Int
      BY <1>1, <2>1, <2>2, Constants DEF BridgeTypeOK, Entries, Never
    <3> QED BY <1>1, <3>1, <3>2, Constants
  <2>6. DoneWell(n)
    BY <2>3, <2>5 DEF DoneWell
  <2> QED BY <1>3, <2>2, <2>4, <2>6, CallStepKeepsIInv DEF Hit
<1>4. CASE Miss(c)
  <2> DEFINE e == entries[k.service]
             n == [k EXCEPT !.phase = "asking", !.entry = e]
  <2>1. e \in Entries /\ Backed(k.service, e)
    BY <1>1 DEF IInv, TypeOK, EntriesBacked
  <2>2. n \in Calls
    BY <1>1, <2>1 DEF Calls
  <2>3. n.phase = "asking" /\ n.entry = e
        /\ n.service = k.service /\ n.now = k.now
    BY <1>1 DEF Calls
  <2>4. CallBacked(n) /\ DoneWell(n)
    BY <1>1, <2>1, <2>3 DEF CallBacked, DoneWell
  <2> QED BY <1>4, <2>2, <2>4, CallStepKeepsIInv DEF Miss
<1>5. CASE BridgeAnswers(c)
  <2> DEFINE n == [k EXCEPT !.phase = "replied", !.reply = truth[k.service]]
  <2>1. truth[k.service] \in Answers /\ truth[k.service] # Failure
        /\ lastTrue[k.service][truth[k.service]] = clock
    BY <1>1, Constants DEF BridgeTypeOK, IInv, HistoryIsCurrent
  <2>2. n \in Calls
    BY <1>1, <2>1 DEF Calls
  <2>3. n.phase = "replied" /\ n.reply = truth[k.service]
        /\ n.service = k.service /\ n.now = k.now /\ n.entry = k.entry
    BY <1>1 DEF Calls
  <2>4. CallBacked(n)
    BY <1>1, <1>5, <2>1, <2>3 DEF CallBacked, InFlight, BridgeAnswers
  <2>5. DoneWell(n)
    BY <2>3 DEF DoneWell
  <2>6. call' = [call EXCEPT ![c] = n]
    BY <1>5 DEF BridgeAnswers
  <2> QED BY <1>5, <2>2, <2>4, <2>5, <2>6, CallStepKeepsIInv DEF BridgeAnswers
<1>6. CASE LookupFails(c)
  <2> DEFINE n == [k EXCEPT !.phase = "replied", !.reply = Failure]
  <2>1. n \in Calls
    BY <1>1 DEF Calls
  <2>2. n.phase = "replied" /\ n.reply = Failure
        /\ n.service = k.service /\ n.now = k.now /\ n.entry = k.entry
    BY <1>1 DEF Calls
  <2>3. lastDown >= k.now \/ DeadlinePassed(k)
    BY <1>1, <1>6 DEF LookupFails, IInv, HistoryIsCurrent, CallBacked
  <2>4. CallBacked(n)
    BY <1>1, <1>6, <2>2, <2>3, Constants
    DEF CallBacked, InFlight, LookupFails, DeadlinePassed
  <2>5. DoneWell(n)
    BY <2>2 DEF DoneWell
  <2>6. call' = [call EXCEPT ![c] = n]
    BY <1>6 DEF LookupFails
  <2> QED BY <1>6, <2>1, <2>4, <2>5, <2>6, CallStepKeepsIInv DEF LookupFails
<1>7. CASE FallBack(c)
  <2> DEFINE r == IF k.entry.answer \in Deployments
                  THEN k.entry.answer ELSE Failure
             n == [k EXCEPT !.phase = "done", !.entry = NoEntry, !.reply = r,
                            !.source = "fallback"]
  <2>1. NoEntry \in Entries
    BY Constants DEF Entries, NoEntry, MaxExpiry
  <2>2. n \in Calls
    BY <1>1, <2>1 DEF Calls, Answers
  <2>3. n.phase = "done" /\ n.reply = r /\ n.source = "fallback"
        /\ n.service = k.service /\ n.now = k.now
    BY <1>1 DEF Calls
  <2>4. CallBacked(n)
    BY <1>1, <2>3 DEF CallBacked, InFlight
  <2>5. lastDown >= k.now \/ clock >= k.now + LookupTimeout
    BY <1>1, <1>7 DEF FallBack, CallBacked, DeadlinePassed
  <2>6. r \in Deployments => lastTrue[k.service][r] # Never
    <3>1. Backed(k.service, k.entry)
      BY <1>1, <1>7 DEF FallBack, CallBacked, InFlight
    <3> QED BY <3>1, Constants DEF Backed, Answers
  <2>7. DoneWell(n)
    BY <2>3, <2>5, <2>6 DEF DoneWell, DeadlinePassed
  <2> QED BY <1>7, <2>2, <2>4, <2>7, CallStepKeepsIInv DEF FallBack
<1>8. CASE SpanStarted(c)
  <2> DEFINE n == [k EXCEPT !.phase = "idle", !.now = 0, !.reply = NoReply,
                            !.source = "none"]
  <2>1. n \in Calls
    <3>1. 0 \in 0..MaxClock
      BY BridgeAssumption
    <3> QED BY <1>1, <3>1 DEF Calls
  <2>2. n.phase = "idle" /\ n.now = 0
    BY <1>1 DEF Calls
  <2>3. CallBacked(n) /\ DoneWell(n)
    BY <1>1, <2>2 DEF CallBacked, DoneWell, InFlight
  <2> QED BY <1>8, <2>1, <2>3, CallStepKeepsIInv DEF SpanStarted
<1>9. CASE StoreReply(c)
  <2> DEFINE e == [answer |-> k.reply, expiresAt |-> k.now + Lifetime(k.reply)]
             n == [k EXCEPT !.phase = "done", !.entry = NoEntry,
                            !.source = "bridge"]
  <2>1. /\ k.reply \in Answers
        /\ lastTrue[k.service][k.reply] >= k.now
        /\ lastTrue[k.service][k.reply] \in Int
    BY <1>1, <1>9, BridgeAssumption
    DEF StoreReply, CallBacked, BridgeTypeOK, Never
  <2>2. e \in Entries /\ NoEntry \in Entries
    BY <1>1, <2>1, Constants
    DEF Entries, NoEntry, MaxExpiry, Lifetime, Calls
  <2>3. n \in Calls
    BY <1>1, <2>2 DEF Calls
  <2>4. n.phase = "done" /\ n.source = "bridge" /\ n.reply = k.reply
        /\ n.service = k.service /\ n.now = k.now
    BY <1>1 DEF Calls
  <2>5. CallBacked(n) /\ DoneWell(n)
    BY <1>1, <2>1, <2>4, Constants DEF CallBacked, DoneWell, InFlight
  <2>6. Backed(k.service, e)
    <3>1. Lifetime(k.reply) \in Nat
      BY Constants
    <3>2. e.answer = k.reply /\ e.expiresAt - Lifetime(k.reply) = k.now
      BY <1>1, <3>1
    <3> QED BY <1>1, <2>1, <3>2 DEF Backed, Never
  <2>7. /\ entries' = [entries EXCEPT ![k.service] = e]
        /\ call' = [call EXCEPT ![c] = n]
        /\ UNCHANGED bridgeVars
    BY <1>9 DEF StoreReply
  <2>8. EntriesBacked'
    <3>1. \A s \in Services : Backed(s, entries'[s])
      BY <1>1, <2>6, <2>7 DEF IInv, TypeOK, EntriesBacked
    <3> QED BY <2>7, <3>1 DEF EntriesBacked, Backed, bridgeVars
  <2>9. entries' \in [Services -> Entries]
    BY <2>2, <2>7 DEF IInv, TypeOK
  <2> QED BY <2>3, <2>5, <2>7, <2>8, <2>9, EntryAndCallStepKeepsIInv
<1> QED
  BY <1>2, <1>3, <1>4, <1>5, <1>6, <1>7, <1>8, <1>9 DEF CallerNext

\* Forgetting entries keeps IInv: it says nothing of a missing entry.
LEMMA ForgettingKeepsIInv ==
    ASSUME IInv, UNCHANGED <<bridgeVars, call>>,
           entries' \in [Services -> Entries],
           \A s \in Services : entries'[s] \in {entries[s], NoEntry}
    PROVE  IInv'
<1> USE DEF bridgeVars
<1>1. EntriesBacked'
  BY Constants DEF IInv, EntriesBacked, Backed, NoEntry
<1>2. TypeOK' /\ HistoryIsCurrent'
  BY DEF IInv, TypeOK, BridgeTypeOK, HistoryIsCurrent
<1>3. \A c \in Callers : CallBacked(call[c])'
  BY DEF IInv, CallBacked, Backed, InFlight, DeadlinePassed
<1>4. BoundedStaleness' /\ FallbackIsJustified'
  BY DEF IInv, BoundedStaleness, FallbackIsJustified, DeadlinePassed
<1> QED BY <1>1, <1>2, <1>3, <1>4 DEF IInv

LEMMA NextKeepsIInv == IInv /\ [Next]_vars => IInv'
<1> SUFFICES ASSUME IInv, [Next]_vars PROVE IInv'
  OBVIOUS
<1>1. CASE BridgeNext /\ UNCHANGED <<entries, call>>
  BY <1>1, BridgeKeepsIInv
<1>2. ASSUME NEW c \in Callers, CallerNext(c) PROVE IInv'
  BY <1>2, CallerKeepsIInv
<1>0. NoEntry \in Entries
  BY Constants DEF Entries, NoEntry, MaxExpiry
<1>3. ASSUME NEW s \in Services, Invalidate(s) PROVE IInv'
  BY <1>0, <1>3, ForgettingKeepsIInv DEF Invalidate, IInv, TypeOK
<1>4. CASE Reset
  BY <1>0, <1>4, ForgettingKeepsIInv DEF Reset
<1>5. CASE UNCHANGED vars
  BY <1>5, BridgeKeepsIInv DEF vars
<1> QED BY <1>1, <1>2, <1>3, <1>4, <1>5 DEF Next

LEMMA Invariance == Spec => []IInv
BY InitEstablishesIInv, NextKeepsIInv, PTL DEF Spec

\* Every variable keeps its type: entries and calls hold answers of the
\* bridge or the zero value, and expiries stay within one lifetime of now.
THEOREM TypeCorrect == Spec => []TypeOK
<1>1. IInv => TypeOK
  BY DEF IInv
<1> QED BY <1>1, Invariance, PTL

\* No answer given without an error is staler than its cache period, for any
\* number of overlapping span starts, services, deployments and periods
\* (CachedResolver.ResolveDeployment).
THEOREM StalenessIsBounded == Spec => []BoundedStaleness
<1>1. IInv => BoundedStaleness
  BY DEF IInv
<1> QED BY <1>1, Invariance, PTL

\* Degraded answers follow a failure that the span met itself, and are errors
\* or deployments the bridge once reported for that service.
THEOREM FallbacksAreJustified == Spec => []FallbackIsJustified
<1>1. IInv => FallbackIsJustified
  BY DEF IInv
<1> QED BY <1>1, Invariance, PTL
-----------------------------------------------------------------------------
(***************************************************************************)
(* CachedResolver implements DeploymentLookup: a span start that hits, or  *)
(* whose reply is stored, or that falls back, returns in that step; every  *)
(* other step of the cache is invisible.                                   *)
(***************************************************************************)
LEMMA BridgeRefines == BridgeNext => Promise!BridgeNext
BY DEF BridgeNext, Tick, TruthChanges, BridgeDown, BridgeUp, Answers,
       Promise!BridgeNext, Promise!Tick, Promise!TruthChanges,
       Promise!BridgeDown, Promise!BridgeUp, Promise!Answers

LEMMA InitRefines == Init => Promise!AbstractInit
<1> SUFFICES ASSUME Init PROVE Promise!AbstractInit
  OBVIOUS
<1>1. Promise!BridgeInit
  BY DEF Init, BridgeInit, Never, Answers,
         Promise!BridgeInit, Promise!Never, Promise!Answers
<1>2. ASSUME NEW c \in Callers
      PROVE  LookupOf(call[c]) \in
               {r \in Promise!Requests :
                  r.phase = "idle" /\ r.now = 0 /\ r.reply = NoReply}
  BY DEF Init, Calls, LookupOf, Promise!Requests
<1> QED BY <1>1, <1>2 DEF lookup, Promise!AbstractInit

\* The lookups after a step that changes only the call of c.
LEMMA LookupAfter ==
    ASSUME TypeOK, NEW c \in Callers, NEW k \in Calls,
           call' = [call EXCEPT ![c] = k]
    PROVE  lookup' = [lookup EXCEPT ![c] = LookupOf(k)]
BY DEF TypeOK, lookup, LookupOf

\* A step of c that does not change what c sees of its lookup is invisible.
LEMMA InvisibleStep ==
    ASSUME TypeOK, NEW c \in Callers, NEW k \in Calls,
           call' = [call EXCEPT ![c] = k],
           LookupOf(k) = LookupOf(call[c])
    PROVE  lookup' = lookup
BY LookupAfter DEF lookup, TypeOK

\* A step of c from a pending call to a permitted outcome is a Return.
LEMMA ReturningStep ==
    ASSUME TypeOK, UNCHANGED bridgeVars, NEW c \in Callers, NEW k \in Calls,
           call' = [call EXCEPT ![c] = k],
           call[c].phase \notin {"idle", "done"}, k.phase = "done",
           k.service = call[c].service, k.now = call[c].now, IInv'
    PROVE  Promise!Return(c, k.reply) /\ k.reply \in Answers \union {Failure}
<1>0. DoneWell(k) /\ CallBacked(k)
  <2>1. call'[c] = k
    BY DEF TypeOK
  <2> QED
    BY <2>1 DEF IInv, BoundedStaleness, FallbackIsJustified, DoneWell,
                DeadlinePassed, CallBacked, Backed, InFlight, bridgeVars
<1>1. call[c] \in Calls
  BY DEF TypeOK
<1>2. lookup' = [lookup EXCEPT ![c] = LookupOf(k)]
  BY LookupAfter
<1>3. /\ lookup[c] = LookupOf(call[c])
      /\ lookup[c].phase = "pending"
      /\ lookup[c].service = k.service
      /\ lookup[c].now = k.now
  BY <1>1 DEF lookup, LookupOf
<1>4. LookupOf(k) = [phase |-> "done", service |-> lookup[c].service,
                      now |-> lookup[c].now, reply |-> k.reply]
  BY <1>3 DEF LookupOf
<1>5. k.reply \in Answers \union {Failure}
  BY <1>0 DEF CallBacked, DoneWell, Answers
<1>6. Promise!Permitted(lookup[c], k.reply)
  <2>1. CASE k.source # "fallback"
    BY <1>0, <1>3, <2>1
    DEF DoneWell, CallBacked, Lifetime, Answers, Promise!Permitted,
        Promise!RecentlyTrue, Promise!Lifetime, Promise!Answers
  <2>2. CASE k.source = "fallback"
    BY <1>0, <1>3, <2>2
    DEF DoneWell, DeadlinePassed, Never, Promise!Permitted,
        Promise!FailedSince, Promise!Never
  <2> QED BY <2>1, <2>2
<1> QED
  BY <1>2, <1>3, <1>4, <1>5, <1>6 DEF Promise!Return, bridgeVars, Promise!bridgeVars

LEMMA CallerRefines ==
    ASSUME IInv, IInv', NEW c \in Callers, CallerNext(c)
    PROVE  [Promise!AbstractNext]_(Promise!abstractVars)
<1> DEFINE k == call[c]
           n == call'[c]
<1>1. /\ TypeOK /\ k \in Calls /\ n \in Calls
      /\ \A r : r \in Answers \union {Failure}
                 <=> r \in Promise!Answers \union {Failure}
  BY DEF IInv, TypeOK, Answers, Promise!Answers
<1>2. ASSUME NEW s \in Services, OnStart(c, s)
      PROVE  Promise!AbstractNext
  <2>1. n = [phase |-> "reading", service |-> s, now |-> clock,
             entry |-> NoEntry, reply |-> NoReply, source |-> "none"]
    BY <1>1, <1>2 DEF OnStart, TypeOK
  <2>2. lookup' = [lookup EXCEPT ![c] = LookupOf(n)]
    BY <1>1, <1>2, <2>1, LookupAfter DEF OnStart
  <2>3. LookupOf(n) = [phase |-> "pending", service |-> s, now |-> clock,
                       reply |-> NoReply]
    BY <2>1 DEF LookupOf
  <2>4. lookup[c].phase = "idle"
    BY <1>2 DEF OnStart, lookup, LookupOf
  <2>5. Promise!Ask(c, s)
    BY <1>2, <2>2, <2>3, <2>4
    DEF OnStart, Promise!Ask, bridgeVars, Promise!bridgeVars
  <2> QED BY <2>5 DEF Promise!AbstractNext
<1>3. CASE Hit(c) \/ StoreReply(c) \/ FallBack(c)
  <2>1. call' = [call EXCEPT ![c] = n]
    BY <1>1, <1>3 DEF Hit, StoreReply, FallBack, TypeOK
  <2>2. /\ k.phase \in {"reading", "replied"} /\ n.phase = "done"
        /\ n.service = k.service /\ n.now = k.now
    <3>1. CASE Hit(c)
      BY <1>1, <3>1 DEF Hit, TypeOK, Calls
    <3>2. CASE StoreReply(c)
      BY <1>1, <3>2 DEF StoreReply, TypeOK, Calls
    <3>3. CASE FallBack(c)
      BY <1>1, <3>3 DEF FallBack, TypeOK, Calls
    <3> QED BY <1>3, <3>1, <3>2, <3>3
  <2>3. Promise!Return(c, n.reply) /\ n.reply \in Answers \union {Failure}
    BY <1>1, <1>3, <2>1, <2>2, ReturningStep DEF Hit, StoreReply, FallBack
  <2> QED BY <1>1, <2>3 DEF Promise!AbstractNext
<1>4. CASE Miss(c) \/ BridgeAnswers(c) \/ LookupFails(c)
  <2>1. call' = [call EXCEPT ![c] = n]
    BY <1>1, <1>4 DEF Miss, BridgeAnswers, LookupFails, TypeOK
  <2>2. /\ k.phase \in {"reading", "asking", "replied"}
        /\ n.phase \in {"asking", "replied"}
        /\ n.service = k.service /\ n.now = k.now
    <3>1. CASE Miss(c)
      BY <1>1, <3>1 DEF Miss, TypeOK, Calls
    <3>2. CASE BridgeAnswers(c)
      BY <1>1, <3>2 DEF BridgeAnswers, TypeOK, Calls
    <3>3. CASE LookupFails(c)
      BY <1>1, <3>3 DEF LookupFails, InFlight, TypeOK, Calls
    <3> QED BY <1>4, <3>1, <3>2, <3>3
  <2>3. LookupOf(n) = LookupOf(k)
    BY <2>2 DEF LookupOf
  <2>4. UNCHANGED lookup
    BY <1>1, <2>1, <2>3, InvisibleStep
  <2> QED
    BY <1>4, <2>4
    DEF Miss, BridgeAnswers, LookupFails, bridgeVars,
        Promise!abstractVars, Promise!bridgeVars
<1>5. CASE SpanStarted(c)
  <2>1. /\ call' = [call EXCEPT ![c] = n]
        /\ n = [k EXCEPT !.phase = "idle", !.now = 0, !.reply = NoReply,
                         !.source = "none"]
    BY <1>1, <1>5 DEF SpanStarted, TypeOK
  <2>2. lookup' = [lookup EXCEPT ![c] = LookupOf(n)]
    BY <1>1, <2>1, LookupAfter
  <2>3. lookup[c] = [phase |-> "done", service |-> k.service,
                     now |-> k.now, reply |-> k.reply]
    BY <1>5 DEF SpanStarted, lookup, LookupOf
  <2>4. LookupOf(n) = [phase |-> "idle", service |-> k.service,
                       now |-> 0, reply |-> NoReply]
    BY <1>1, <2>1 DEF LookupOf, Calls
  <2>5. /\ lookup[c].phase = "done"
        /\ LookupOf(n) = [phase |-> "idle", service |-> lookup[c].service,
                          now |-> 0, reply |-> NoReply]
    BY <2>3, <2>4
  <2>6. UNCHANGED bridgeVars
    BY <1>5 DEF SpanStarted
  <2>7. Promise!Forget(c)
    BY ONLY <2>2, <2>5, <2>6
    DEF Promise!Forget, bridgeVars, Promise!bridgeVars
  <2> QED BY <2>7 DEF Promise!AbstractNext
<1> QED BY <1>2, <1>3, <1>4, <1>5 DEF CallerNext

LEMMA NextRefines ==
    IInv /\ IInv' /\ [Next]_vars => [Promise!AbstractNext]_(Promise!abstractVars)
<1> SUFFICES ASSUME IInv, IInv', [Next]_vars
             PROVE  [Promise!AbstractNext]_(Promise!abstractVars)
  OBVIOUS
<1>1. CASE BridgeNext /\ UNCHANGED <<entries, call>>
  BY <1>1, BridgeRefines DEF Promise!AbstractNext, lookup, LookupOf
<1>2. ASSUME NEW c \in Callers, CallerNext(c)
      PROVE  [Promise!AbstractNext]_(Promise!abstractVars)
  BY <1>2, CallerRefines
<1>3. CASE UNCHANGED <<bridgeVars, call>>
  BY <1>3 DEF bridgeVars, lookup, LookupOf, Promise!abstractVars, Promise!bridgeVars
<1>4. ASSUME NEW s \in Services, Invalidate(s) PROVE UNCHANGED <<bridgeVars, call>>
  BY <1>4 DEF Invalidate
<1>5. Reset => UNCHANGED <<bridgeVars, call>>
  BY DEF Reset
<1>6. UNCHANGED vars => UNCHANGED <<bridgeVars, call>>
  BY DEF vars
<1> QED BY <1>1, <1>2, <1>3, <1>4, <1>5, <1>6 DEF Next

\* The cached resolver keeps the promise of DeploymentLookup: seen through
\* lookup, every behaviour of the cache is one of atomic bounded-stale
\* lookups.
THEOREM Implementation == Spec => Refinement
BY InitRefines, Invariance, NextRefines, PTL DEF Spec, Refinement, Promise!AbstractSpec
-----------------------------------------------------------------------------
(***************************************************************************)
(* LookupTraffic: once lookups have settled on an answer, the entry of the *)
(* service expires no earlier than that answer's cache period, whatever    *)
(* later lookups write over it: each of them was begun after that period.  *)
(***************************************************************************)
Records == [at : Never..MaxClock, result : Answers \union {NoReply, Failure}]

Remembered(s) ==
    settled[s].result \in Answers =>
      /\ entries[s].answer \in Answers
      /\ entries[s].expiresAt >= settled[s].at + Lifetime(settled[s].result)

TrafficInv ==
    /\ settled \in [Services -> Records]
    /\ \A s \in Services : Remembered(s)
    /\ SettledAnswersLast

LEMMA TrafficUsesCache == TrafficSpec => Spec
<1>1. TrafficInit => Init
  BY DEF TrafficInit
<1>2. [TrafficNext]_<<vars, settled>> => [Next]_vars
  BY DEF TrafficNext, Next
<1> QED BY <1>1, <1>2, PTL DEF TrafficSpec, Spec

LEMMA TrafficConstants ==
    /\ \A a : Lifetime(a) \in Nat
    /\ Never..MaxClock \subseteq Int /\ 0..MaxClock \subseteq Never..MaxClock
    /\ Unsettled \in Records /\ Unsettled.result \notin Answers
    /\ NoReply \notin Answers /\ Failure \notin Answers
BY Constants DEF Never, Unsettled, Records

\* A step that settles nothing and stores nothing keeps what the calls know.
LEMMA QuietStep ==
    ASSUME TrafficInv, UNCHANGED <<entries, settled>>,
           \A c \in Callers : InFlight(call'[c]) =>
             /\ InFlight(call[c])
             /\ call'[c].service = call[c].service /\ call'[c].now = call[c].now
    PROVE  TrafficInv'
<1>1. settled' \in [Services -> Records] /\ \A s \in Services : Remembered(s)'
  BY DEF TrafficInv, Remembered
<1>2. SettledAnswersLast'
  BY DEF TrafficInv, SettledAnswersLast, InFlight
<1> QED BY <1>1, <1>2 DEF TrafficInv

LEMMA CallerKeepsTraffic ==
    ASSUME IInv, TrafficInv, NEW c \in Callers, CallerNext(c), Observe(c)
    PROVE  TrafficInv'
<1> DEFINE k == call[c]
           n == call'[c]
           s == k.service
           known == settled[s]
<1>1. /\ k \in Calls /\ s \in Services /\ k.now \in 0..MaxClock /\ k.now \in Int
      /\ settled \in [Services -> Records] /\ known \in Records /\ known.at \in Int
      /\ call \in [Callers -> Calls] /\ entries \in [Services -> Entries]
  BY TrafficConstants DEF IInv, TypeOK, Calls, TrafficInv, Records
<1>2. ASSUME ~Ends(c), UNCHANGED entries, \A d \in Callers \ {c} : call'[d] = call[d],
             InFlight(n) => InFlight(k) /\ n.service = s /\ n.now = k.now
      PROVE  TrafficInv'
  <2>1. UNCHANGED settled
    BY <1>2 DEF Observe
  <2> QED BY <1>2, <2>1, QuietStep
<1>3. ASSUME NEW t \in Services, OnStart(c, t) PROVE TrafficInv'
  <2>1. /\ n.phase = "reading" /\ UNCHANGED entries
        /\ \A d \in Callers \ {c} : call'[d] = call[d]
    BY <1>1, <1>3 DEF OnStart
  <2> QED BY <1>2, <2>1 DEF Ends, InFlight
<1>4. CASE Hit(c) \/ SpanStarted(c)
  <2>1. /\ UNCHANGED entries /\ n.phase \in {"done", "idle"} /\ k.phase # "replied"
        /\ \A d \in Callers \ {c} : call'[d] = call[d]
    <3>1. CASE Hit(c)
      BY <1>1, <3>1 DEF Hit, Calls
    <3>2. CASE SpanStarted(c)
      BY <1>1, <3>2 DEF SpanStarted, Calls
    <3> QED BY <1>4, <3>1, <3>2
  <2> QED BY <1>2, <2>1 DEF Ends, InFlight
<1>5. CASE BridgeAnswers(c) \/ LookupFails(c)
  <2>1. /\ UNCHANGED entries /\ n.phase = "replied" /\ InFlight(k)
        /\ n.service = s /\ n.now = k.now
        /\ \A d \in Callers \ {c} : call'[d] = call[d]
    BY <1>1, <1>5 DEF BridgeAnswers, LookupFails, Calls, InFlight
  <2> QED BY <1>2, <2>1 DEF Ends
<1>6. CASE Miss(c)
  <2>1. /\ UNCHANGED entries /\ n.phase = "asking" /\ n.service = s /\ n.now = k.now
        /\ ~Live(entries[s], k.now)
        /\ \A d \in Callers \ {c} : call'[d] = call[d]
    BY <1>1, <1>6 DEF Miss, Calls
  <2>2. UNCHANGED settled
    BY <2>1 DEF Observe, Ends
  <2>3. \A t \in Services : Remembered(t)'
    BY <2>1, <2>2 DEF TrafficInv, Remembered
  <2>4. known.result \in Answers => k.now >= known.at + Lifetime(known.result)
    <3> SUFFICES ASSUME known.result \in Answers
                 PROVE  k.now >= known.at + Lifetime(known.result)
      OBVIOUS
    <3>1. /\ entries[s].answer \in Answers
          /\ entries[s].expiresAt >= known.at + Lifetime(known.result)
      BY <1>1 DEF TrafficInv, Remembered
    <3>2. entries[s].expiresAt \in Int /\ Lifetime(known.result) \in Int
      BY <1>1, TrafficConstants, Constants DEF Entries, MaxExpiry
    <3>3. ~(k.now < entries[s].expiresAt)
      BY <2>1, <3>1, TrafficConstants DEF Live
    <3> QED BY <1>1, <3>1, <3>2, <3>3
  <2>5. SettledAnswersLast'
    <3> SUFFICES ASSUME NEW d \in Callers, InFlight(call'[d]),
                        settled[call'[d].service].result \in Answers
                 PROVE  call'[d].now >= settled[call'[d].service].at
                                          + Lifetime(settled[call'[d].service].result)
      BY <2>2 DEF SettledAnswersLast, InFlight
    <3>1. CASE d = c
      BY <2>1, <2>4, <3>1
    <3>2. CASE d # c
      BY <2>1, <3>2 DEF TrafficInv, SettledAnswersLast
    <3> QED BY <3>1, <3>2
  <2> QED BY <1>1, <2>2, <2>3, <2>5 DEF TrafficInv
<1>7. CASE StoreReply(c) \/ FallBack(c)
  <2> DEFINE new == [at |-> k.now, result |-> k.reply]
  <2>1. /\ n.phase = "done" /\ k.phase = "replied"
        /\ \A d \in Callers \ {c} : call'[d] = call[d]
    <3>1. CASE StoreReply(c)
      BY <1>1, <3>1 DEF StoreReply, Calls
    <3>2. CASE FallBack(c)
      BY <1>1, <3>2 DEF FallBack, Calls
    <3> QED BY <1>7, <3>1, <3>2
  <2>2. new \in Records
    BY <1>1, TrafficConstants DEF Records, Calls
  <2>3. \/ Asking(s) = {c} /\ settled' = [settled EXCEPT ![s] = new]
        \/ UNCHANGED settled
    BY <2>1 DEF Observe, Ends
  <2>4. settled' \in [Services -> Records]
    BY <1>1, <2>2, <2>3
  <2>5. known.result \in Answers => k.now >= known.at + Lifetime(known.result)
    BY <2>1 DEF TrafficInv, SettledAnswersLast, InFlight
  <2>6. ASSUME NEW t \in Services PROVE Remembered(t)'
    <3>1. CASE FallBack(c)
      <4>1. UNCHANGED entries /\ k.reply \notin Answers
        BY <3>1, TrafficConstants DEF FallBack
      <4>2. settled'[t] = settled[t] \/ settled'[t].result \notin Answers
        BY <1>1, <2>3, <4>1
      <4> QED BY <4>1, <4>2 DEF TrafficInv, Remembered
    <3>2. CASE StoreReply(c)
      <4>1. /\ k.reply \in Answers
            /\ entries'[t] = IF t = s THEN [answer |-> k.reply,
                                            expiresAt |-> k.now + Lifetime(k.reply)]
                             ELSE entries[t]
        BY <1>1, <2>1, <3>2 DEF StoreReply, IInv, CallBacked
      <4>2. CASE t # s
        <5>1. entries'[t] = entries[t] /\ settled'[t] = settled[t]
          BY <1>1, <2>3, <4>1, <4>2
        <5> QED BY <5>1 DEF TrafficInv, Remembered
      <4>3. CASE t = s
        <5>1. settled'[s] = new \/ settled'[s] = known
          BY <1>1, <2>3
        <5>2. /\ entries'[s].answer \in Answers
              /\ entries'[s].expiresAt = k.now + Lifetime(k.reply)
          BY <4>1, <4>3
        <5>3. Lifetime(k.reply) \in Nat /\ Lifetime(known.result) \in Nat
          BY TrafficConstants
        <5>4. known.result \in Answers =>
                k.now + Lifetime(k.reply) >= known.at + Lifetime(known.result)
          BY <1>1, <2>5, <5>3
        <5> QED BY <1>1, <4>3, <5>1, <5>2, <5>3, <5>4 DEF Remembered
      <4> QED BY <4>2, <4>3
    <3> QED BY <1>7, <3>1, <3>2
  <2>7. SettledAnswersLast'
    <3> SUFFICES ASSUME NEW d \in Callers, InFlight(call'[d]),
                        settled'[call'[d].service].result \in Answers
                 PROVE  call'[d].now >= settled'[call'[d].service].at
                                          + Lifetime(settled'[call'[d].service].result)
      BY DEF SettledAnswersLast, InFlight
    <3>1. d # c /\ call'[d] = call[d] /\ call[d].service \in Services
      BY <1>1, <2>1 DEF InFlight, Calls
    <3>2. settled'[call[d].service] = settled[call[d].service]
      BY <1>1, <2>3, <3>1 DEF Asking, InFlight
    <3> QED BY <3>1, <3>2 DEF TrafficInv, SettledAnswersLast
  <2> QED BY <2>4, <2>6, <2>7 DEF TrafficInv
<1> QED BY <1>3, <1>4, <1>5, <1>6, <1>7 DEF CallerNext

\* Invalidate and Reset forget what was settled with the entry.
LEMMA ForgettingKeepsTraffic ==
    ASSUME TypeOK, TrafficInv, UNCHANGED call, NEW S \in SUBSET Services,
           entries' = [s \in Services |-> IF s \in S THEN NoEntry ELSE entries[s]],
           settled' = [s \in Services |-> IF s \in S THEN Unsettled ELSE settled[s]]
    PROVE  TrafficInv'
<1>1. settled' \in [Services -> Records]
  BY TrafficConstants DEF TrafficInv
<1>2. \A s \in Services : Remembered(s)'
  BY TrafficConstants DEF TrafficInv, Remembered
<1>3. SettledAnswersLast'
  BY TrafficConstants DEF TrafficInv, SettledAnswersLast, InFlight, TypeOK, Calls
<1> QED BY <1>1, <1>2, <1>3 DEF TrafficInv

LEMMA TrafficInvHolds == TrafficSpec => []TrafficInv
<1>1. TrafficInit => TrafficInv
  BY TrafficConstants
  DEF TrafficInit, Init, TrafficInv, Remembered, SettledAnswersLast, InFlight
<1>2. ASSUME TrafficInv, IInv, [TrafficNext]_<<vars, settled>>
      PROVE  TrafficInv'
  <2>1. TypeOK
    BY <1>2 DEF IInv
  <2>2. CASE UNCHANGED <<entries, call, settled>>
    BY <1>2, <2>2, QuietStep
  <2>3. ASSUME NEW c \in Callers, CallerNext(c), Observe(c) PROVE TrafficInv'
    BY <1>2, <2>3, CallerKeepsTraffic
  <2>4. ASSUME NEW s \in Services, Invalidate(s),
               settled' = [settled EXCEPT ![s] = Unsettled]
        PROVE  TrafficInv'
    <3>1. /\ UNCHANGED call
          /\ entries' = [t \in Services |-> IF t \in {s} THEN NoEntry ELSE entries[t]]
          /\ settled' = [t \in Services |-> IF t \in {s} THEN Unsettled ELSE settled[t]]
      BY <1>2, <2>1, <2>4 DEF Invalidate, TypeOK, TrafficInv
    <3> QED BY <1>2, <2>1, <3>1, ForgettingKeepsTraffic
  <2>5. ASSUME Reset, settled' = [s \in Services |-> Unsettled] PROVE TrafficInv'
    <3>1. /\ UNCHANGED call
          /\ entries' = [t \in Services |-> IF t \in Services THEN NoEntry ELSE entries[t]]
          /\ settled' = [t \in Services |-> IF t \in Services THEN Unsettled ELSE settled[t]]
      BY <2>5 DEF Reset
    <3> QED BY <1>2, <2>1, <3>1, ForgettingKeepsTraffic
  <2> QED BY <1>2, <2>2, <2>3, <2>4, <2>5 DEF TrafficNext, vars
<1> QED BY <1>1, <1>2, TrafficUsesCache, Invariance, PTL DEF TrafficSpec

\* For any goroutines, services, answers and periods: an answer on which the
\* lookups of a service settled is asked for again only after its cache period,
\* whatever the bridge, Invalidate and Reset do meanwhile (resolver.go:94-104).
THEOREM SettledAnswersAreKept == TrafficSpec => []SettledAnswersLast
<1>1. TrafficInv => SettledAnswersLast
  BY DEF TrafficInv
<1> QED BY <1>1, TrafficInvHolds, PTL
=============================================================================
