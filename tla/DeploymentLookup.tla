-------------------------- MODULE DeploymentLookup --------------------------
(***************************************************************************)
(* What the span processor is promised by the resolver it is given, with   *)
(* no cache in sight: a lookup that begins at an instant returns, in one   *)
(* atomic step, either an answer that was the bridge's truth less than one *)
(* cache period earlier or, and only when the bridge failed or timed out   *)
(* while the lookup was pending, an error or some deployment the service   *)
(* did have before.                                                        *)
(***************************************************************************)
EXTENDS BridgeView

CONSTANTS Callers,        \* goroutines that start spans
          CacheTTL,       \* how long a deployment is reused
          NegativeTTL,    \* how long "not found" is reused
          LookupTimeout,  \* how long OnStart waits for a lookup
          NoReply,        \* nothing yet
          Failure         \* an error other than "not found"

VARIABLE request  \* caller -> its lookup

abstractVars == <<bridgeVars, request>>

Lifetime(a) == IF a = NotFound THEN NegativeTTL ELSE CacheTTL

Requests == [phase : {"idle", "pending", "done"}, service : Services,
             now : 0..MaxClock, reply : Answers \union {NoReply, Failure}]

\* An answer that was the truth less than its lifetime before instant t.
RecentlyTrue(s, a, t) == lastTrue[s][a] > t - Lifetime(a)

FailedSince(t) == lastDown >= t \/ clock >= t + LookupTimeout

AbstractTypeOK == BridgeTypeOK /\ request \in [Callers -> Requests]

AbstractInit ==
    /\ BridgeInit
    /\ request \in [Callers -> {r \in Requests : /\ r.phase = "idle"
                                                 /\ r.now = 0
                                                 /\ r.reply = NoReply}]

Ask(c, s) ==
    /\ request[c].phase = "idle"
    /\ request' = [request EXCEPT ![c] =
                     [phase |-> "pending", service |-> s,
                      now |-> clock, reply |-> NoReply]]
    /\ UNCHANGED bridgeVars

Permitted(r, a) ==
    \/ a \in Answers /\ RecentlyTrue(r.service, a, r.now)
    \/ /\ FailedSince(r.now)
       /\ \/ a = Failure
          \/ a \in Deployments /\ lastTrue[r.service][a] # Never

Return(c, a) ==
    /\ request[c].phase = "pending"
    /\ Permitted(request[c], a)
    /\ request' = [request EXCEPT ![c] =
                     [phase |-> "done", service |-> @.service,
                      now |-> @.now, reply |-> a]]
    /\ UNCHANGED bridgeVars

Forget(c) ==
    /\ request[c].phase = "done"
    /\ request' = [request EXCEPT ![c] =
                     [phase |-> "idle", service |-> @.service,
                      now |-> 0, reply |-> NoReply]]
    /\ UNCHANGED bridgeVars

AbstractNext ==
    \/ BridgeNext /\ UNCHANGED request
    \/ \E c \in Callers :
         \/ \E s \in Services : Ask(c, s)
         \/ \E a \in Answers \union {Failure} : Return(c, a)
         \/ Forget(c)

AbstractSpec == AbstractInit /\ [][AbstractNext]_abstractVars
=============================================================================
