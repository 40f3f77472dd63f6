----------------------------- MODULE BridgeView -----------------------------
(***************************************************************************)
(* What an application that enriches its spans can observe of the bridge:  *)
(* the answer the bridge would give at this instant to a lookup of each    *)
(* service (a deployment, or "not found"), whether the bridge can be       *)
(* reached, and the application's own clock.                               *)
(*                                                                         *)
(* lastTrue and lastDown are history variables: the latest instant at      *)
(* which an answer was the bridge's truth, and at which the bridge could   *)
(* not be reached.  They exist so that staleness can be stated.            *)
(***************************************************************************)
EXTENDS Integers

CONSTANTS Services,     \* service names an application asks about
          Deployments,  \* deployments a service may be running
          NotFound,     \* the bridge's 404
          MaxClock      \* bound: the clock stops here

ASSUME BridgeAssumption ==
    /\ NotFound \notin Deployments
    /\ MaxClock \in Nat

VARIABLES clock,      \* time.Now() in the application, in ticks
          truth,      \* service -> what the bridge answers now
          lastTrue,   \* service -> answer -> last instant it was the truth
          health,     \* "up" when the bridge answers requests
          lastDown    \* last instant at which it did not

bridgeVars == <<clock, truth, lastTrue, health, lastDown>>

Never == -1
Answers == Deployments \union {NotFound}

BridgeTypeOK ==
    /\ clock \in 0..MaxClock
    /\ truth \in [Services -> Answers]
    /\ lastTrue \in [Services -> [Answers -> Never..MaxClock]]
    /\ health \in {"up", "down"}
    /\ lastDown \in Never..MaxClock

\* The history variables agree with the present and hold nothing later.
HistoryIsCurrent ==
    /\ \A s \in Services : lastTrue[s][truth[s]] = clock
    /\ \A s \in Services, a \in Answers : lastTrue[s][a] =< clock
    /\ health = "down" => lastDown = clock
    /\ lastDown =< clock

BridgeInit ==
    /\ clock = 0
    /\ truth = [s \in Services |-> NotFound]
    /\ lastTrue = [s \in Services |->
                     [a \in Answers |-> IF a = NotFound THEN 0 ELSE Never]]
    /\ health = "up"
    /\ lastDown = Never

Tick ==
    /\ clock < MaxClock
    /\ clock' = clock + 1
    /\ lastTrue' = [s \in Services |->
                      [lastTrue[s] EXCEPT ![truth[s]] = clock + 1]]
    /\ lastDown' = IF health = "up" THEN lastDown ELSE clock + 1
    /\ UNCHANGED <<truth, health>>

\* A deployment of s is recorded, replaced, or expires from the store.
TruthChanges(s, a) ==
    /\ a # truth[s]
    /\ truth' = [truth EXCEPT ![s] = a]
    /\ lastTrue' = [lastTrue EXCEPT ![s][a] = clock]
    /\ UNCHANGED <<clock, health, lastDown>>

\* The bridge, its store or the network fails: a lookup gets an error.
BridgeDown ==
    /\ health = "up"
    /\ health' = "down"
    /\ lastDown' = clock
    /\ UNCHANGED <<clock, truth, lastTrue>>

BridgeUp ==
    /\ health = "down"
    /\ health' = "up"
    /\ UNCHANGED <<clock, truth, lastTrue, lastDown>>

BridgeNext ==
    \/ Tick
    \/ \E s \in Services, a \in Answers : TruthChanges(s, a)
    \/ BridgeDown
    \/ BridgeUp
=============================================================================
