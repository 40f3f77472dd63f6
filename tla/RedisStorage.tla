---------------------------- MODULE RedisStorage ----------------------------
(***************************************************************************)
(* internal/storage/redis.go: what the bridge keeps in Redis.  A record    *)
(* and a chain index each live for redisTTL seconds from the write that    *)
(* last set it, and vanish on their own.  Lifetimes are kept as the time   *)
(* left, so that a state says nothing of how long the bridge has run.      *)
(*                                                                         *)
(* An event stands for the StoredEvent and, when it has a slot (a service  *)
(* in an environment), for the Deployment built from the same CDEvent.     *)
(***************************************************************************)
EXTENDS Integers

CONSTANTS Ids,      \* CDEvent ids
          Chains,   \* chainIds
          Slots,    \* service/environment pairs, one key each
          Events,   \* CDEvents that pipelines send
          TTLs,     \* values redisTTL is given, 0 for none
          None      \* no chain, no slot, no record

ASSUME StorageAssumption ==
    /\ Events \subseteq [id : Ids, chain : Chains \union {None},
                         slot : Slots \union {None}, time : Nat]
    /\ None \notin Ids \union Chains \union Slots \union Events
    /\ TTLs \subseteq Nat
    /\ TTLs # {}

VARIABLES ttl,          \* redisTTL of the running bridge
          deployments,  \* slot -> deployment:{service}:{environment}
          events,       \* id -> event:{id}
          chains        \* chainId -> chain:{chainId}, a set of ids

storeVars == <<ttl, deployments, events, chains>>

Forever == -1
Missing == [value |-> None, left |-> 0]
NoIndex == [members |-> {}, left |-> 0]

Lives == Nat \union {Forever}
Records == [value : Events \union {None}, left : Lives]
Indexes == [members : SUBSET Ids, left : Lives]

StoreTypeOK ==
    /\ ttl \in TTLs
    /\ deployments \in [Slots -> Records]
    /\ events \in [Ids -> Records]
    /\ chains \in [Chains -> Indexes]

StoreInit ==
    /\ ttl \in TTLs
    /\ deployments = [s \in Slots |-> Missing]
    /\ events = [i \in Ids |-> Missing]
    /\ chains = [c \in Chains |-> NoIndex]
-----------------------------------------------------------------------------
Present(record) == record.value # None

\* SET key value with an expiration of zero keeps the key forever.
Expiration == IF ttl = 0 THEN Forever ELSE ttl
Stored(e) == [value |-> e, left |-> Expiration]

\* The first life lasts at least as long as the second.
Outlives(a, b) == a = Forever \/ (b # Forever /\ a >= b)

\* Mutant: SETNX, a deployment already recorded is not replaced.
SaveDeploymentOnce(e) ==
    deployments' = [deployments EXCEPT ![e.slot] =
                      IF Present(@) THEN @ ELSE Stored(e)]

SaveDeployment(e) ==
    deployments' = [deployments EXCEPT ![e.slot] = Stored(e)]

\* Mutant: the index's expiry is set when it is created and never refreshed.
IndexedOnce(index, id) ==
    [members |-> index.members \union {id},
     left    |-> IF index.members = {} THEN Expiration ELSE index.left]

\* SADD, then EXPIRE only when a TTL is configured: otherwise a new set has no
\* expiry and an old one keeps what it had.
Indexed(index, id) ==
    [members |-> index.members \union {id},
     left    |-> IF ttl > 0 THEN ttl
                 ELSE IF index.members = {} THEN Forever ELSE index.left]

\* Mutant: SETNX, an event sent again is left as it is.
SaveEventOnce(e) ==
    /\ events' = [events EXCEPT ![e.id] = IF Present(@) THEN @ ELSE Stored(e)]
    /\ chains' = IF e.chain = None THEN chains
                 ELSE [chains EXCEPT ![e.chain] = Indexed(@, e.id)]

\* One MULTI/EXEC.
SaveEvent(e) ==
    /\ events' = [events EXCEPT ![e.id] = Stored(e)]
    /\ chains' = IF e.chain = None THEN chains
                 ELSE [chains EXCEPT ![e.chain] = Indexed(@, e.id)]

GetDeployment(s) == deployments[s].value
GetEvent(i) == events[i].value

\* SMEMBERS, then a GET of each member that skips those that are gone.
GetEventsByChain(c) ==
    {events[i].value : i \in {j \in chains[c].members : Present(events[j])}}

\* What the memory backend answers: every stored event with that chainId.
EventsWithChain(c) ==
    {events[i].value : i \in {j \in Ids : /\ Present(events[j])
                                          /\ events[j].value.chain = c}}
-----------------------------------------------------------------------------
Lapses(key) == key.left \in {0, 1}
\* Mutant: the key that never expires is counted down with the others.
AgedForever(key) == [key EXCEPT !.left = @ - 1]
Aged(key) == IF key.left = Forever THEN key ELSE [key EXCEPT !.left = @ - 1]

SecondPasses ==
    /\ deployments' = [s \in Slots |-> IF Lapses(deployments[s])
                         THEN Missing ELSE Aged(deployments[s])]
    /\ events' = [i \in Ids |-> IF Lapses(events[i])
                    THEN Missing ELSE Aged(events[i])]
    /\ chains' = [c \in Chains |-> IF Lapses(chains[c])
                    THEN NoIndex ELSE Aged(chains[c])]
    /\ UNCHANGED ttl

\* The bridge is restarted, perhaps with another redisTTL; Redis keeps its keys.
Restart(t) ==
    /\ ttl' = t
    /\ UNCHANGED <<deployments, events, chains>>

StoreStep ==
    \/ \E e \in Events : /\ e.slot # None
                         /\ SaveDeployment(e)
                         /\ UNCHANGED <<ttl, events, chains>>
    \/ \E e \in Events : SaveEvent(e) /\ UNCHANGED <<ttl, deployments>>
    \/ SecondPasses

\* A restart may raise a redisTTL that is not zero.
LengthenTTL == \E t \in TTLs : ttl > 0 /\ t > ttl /\ Restart(t)

StoreSpec == StoreInit /\ [][StoreStep \/ LengthenTTL]_storeVars
-----------------------------------------------------------------------------
\* Every backend does what the Storage interface promises: the answers Redis
\* gives, by slot, id and chainId, change by whole saves and by expiry only.
\* A chain lookup agrees with the events themselves at every instant, so an
\* event is never visible without its chain or found after it has gone.
Promise == INSTANCE Storage WITH
    deployed <- [s \in Slots |-> GetDeployment(s)],
    recorded <- [i \in Ids |-> GetEvent(i)],
    found    <- [c \in Chains |-> GetEventsByChain(c)]

ImplementsStorage == Promise!Spec

\* Every backend gives the correlator the same events for a chainId: the
\* chain:{chainId} index of Redis, with its own expiry, its members that are
\* gone and its ids that may have been sent again, finds exactly the stored
\* events that carry the chainId (storage_test.go: "Every backend must behave
\* identically for the operations the bridge relies on").
ChainLookupAgrees ==
    \A c \in Chains : GetEventsByChain(c) = EventsWithChain(c)

\* configuration.md: redisTTL is the "Seconds every deployment, event and
\* chain key lives in Redis"; the index of a chain is never lost while an
\* event of the chain is stored.
IndexOutlivesEvents ==
    \A i \in Ids : LET e == events[i].value IN
      Present(events[i]) /\ e.chain # None =>
        /\ i \in chains[e.chain].members
        /\ Outlives(chains[e.chain].left, events[i].left)

\* The inductive invariant behind both, as long as redisTTL is only raised.
LivesWithinTTL(key) == IF ttl = 0 THEN key.left = Forever
                       ELSE key.left \in 1..ttl

StoreInv ==
    /\ StoreTypeOK
    /\ \A i \in Ids : Present(events[i]) =>
         events[i].value.id = i /\ LivesWithinTTL(events[i])
    /\ \A c \in Chains : \A i \in chains[c].members :
         /\ LivesWithinTTL(chains[c])
         /\ \E e \in Events : e.id = i /\ e.chain = c
    /\ IndexOutlivesEvents
=============================================================================
