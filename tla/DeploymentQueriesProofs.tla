------------------------ MODULE DeploymentQueriesProofs ------------------------
(***************************************************************************)
(* DeploymentQueries, for any names, any number of deployments and SCAN    *)
(* replies in any number and order: what a lookup of a service's latest    *)
(* deployment answers on either backend.                                   *)
(***************************************************************************)
EXTENDS DeploymentQueries, OrderingProofs, SequenceTheorems, TLAPS

LEMMA Shapes ==
    /\ MaxTime \in Nat /\ MaxChanges \in Nat /\ MaxScans \in Nat
    /\ None \notin Deployments
    /\ \A e : e \in Deployments \union {None} /\ e # None => e \in Deployments
    /\ \A d \in Deployments :
         /\ d.service \in Services /\ d.environment \in Environments /\ d.at \in Nat
         /\ [service |-> d.service, environment |-> d.environment] \in Slots
    /\ \A r \in Requests : r.kind \in {"exact", "latest", "list"}
<1>1. ASSUME NEW s \in Slots
      PROVE  /\ s.service \in Services /\ s.environment \in Environments
             /\ [service |-> s.service, environment |-> s.environment] = s
  BY QueriesAssumption DEF Services, Environments
<1>2. ASSUME NEW d \in Deployments
      PROVE  /\ d.service \in Services /\ d.environment \in Environments /\ d.at \in Nat
             /\ [service |-> d.service, environment |-> d.environment] \in Slots
  <2>1. PICK s \in Slots, t \in 1..MaxTime :
          d = [service |-> s.service, environment |-> s.environment, at |-> t]
    BY DEF Deployments
  <2>2. d.service = s.service /\ d.environment = s.environment /\ d.at = t
    BY <2>1
  <2> QED BY <1>1, <2>2
<1> QED BY <1>2, QueriesAssumption

LEMMA Places ==
    ASSUME NEW d \in Deployments, NEW e \in Deployments
    PROVE  /\ Alphabet(d.service) \in Nat /\ Alphabet(d.environment) \in Nat
           /\ Alphabet(d.service) = Alphabet(e.service) => d.service = e.service
           /\ Alphabet(d.environment) = Alphabet(e.environment) =>
                d.environment = e.environment
           /\ d.at \in Nat
           /\ d.service = e.service /\ d.environment = e.environment /\ d.at = e.at => d = e
<1>1. /\ d.service \in Services /\ e.service \in Services /\ d.at \in Nat
      /\ d.environment \in Environments /\ e.environment \in Environments
  BY Shapes
<1>2. d.service = e.service /\ d.environment = e.environment /\ d.at = e.at => d = e
  BY DEF Deployments
<1> QED BY <1>1, <1>2, QueriesAssumption

\* The sort compares any two different deployments, one way only.
LEMMA NewerIsTotal ==
    ASSUME NEW a \in Deployments, NEW b \in Deployments, NEW c \in Deployments
    PROVE  /\ ~Newer(a, a)
           /\ a # b => Newer(a, b) \/ Newer(b, a)
           /\ Newer(a, b) /\ Newer(b, c) => Newer(a, c)
           /\ Newer(a, b) => ~Newer(b, a) /\ b.at =< a.at
           /\ ~Newer(b, a) /\ Newer(b, c) => Newer(a, c)
<1>1. ~Newer(a, a) /\ (a # b => Newer(a, b) \/ Newer(b, a))
  BY Places DEF Newer
<1>2. Newer(a, b) /\ Newer(b, c) => Newer(a, c)
  <2>1. /\ a.at \in Nat /\ b.at \in Nat /\ c.at \in Nat
        /\ Alphabet(a.service) \in Nat /\ Alphabet(b.service) \in Nat
        /\ Alphabet(c.service) \in Nat /\ Alphabet(a.environment) \in Nat
        /\ Alphabet(b.environment) \in Nat /\ Alphabet(c.environment) \in Nat
    BY Places
  <2> QED BY <2>1 DEF Newer
<1>3. Newer(a, b) => ~Newer(b, a) /\ b.at =< a.at
  BY Places DEF Newer
<1>4. ~Newer(b, a) /\ Newer(b, c) => Newer(a, c)
  <2>1. CASE a = b
    BY <2>1
  <2>2. CASE a # b
    BY <1>1, <1>2, <2>2
  <2> QED BY <2>1, <2>2
<1> QED BY <1>1, <1>2, <1>3, <1>4

\* Among some deployments one has none ahead of it, and is the latest.
LEMMA LatestIsNewest ==
    ASSUME NEW C \in SUBSET Deployments
    PROVE  /\ C = {} => Latest(C) = None
           /\ C # {} => Latest(C) \in C /\ \A e \in C : ~Newer(e, Latest(C))
<1>1. CASE C = {}
  BY <1>1 DEF Latest
<1>2. CASE C # {}
  <2> DEFINE T == {MaxTime - d.at : d \in C}
  <2>1. T \subseteq Nat /\ T # {}
    <3>1. \A d \in Deployments : MaxTime - d.at \in Nat
      BY Shapes DEF Deployments
    <3> QED BY <1>2, <3>1
  <2>2. PICK t \in T : \A u \in T : t =< u
    BY <2>1, LeastThereIs
  <2> DEFINE C1 == {d \in C : MaxTime - d.at = t}
             A1 == {Alphabet(d.service) : d \in C1}
  <2>3. A1 \subseteq Nat /\ A1 # {}
    BY <2>2, Places
  <2>4. PICK s \in A1 : \A u \in A1 : s =< u
    BY <2>3, LeastThereIs
  <2> DEFINE C2 == {d \in C1 : Alphabet(d.service) = s}
             A2 == {Alphabet(d.environment) : d \in C2}
  <2>5. A2 \subseteq Nat /\ A2 # {}
    BY <2>4, Places
  <2>6. PICK v \in A2 : \A u \in A2 : v =< u
    BY <2>5, LeastThereIs
  <2>7. PICK m \in C : /\ MaxTime - m.at = t /\ Alphabet(m.service) = s
                       /\ Alphabet(m.environment) = v
    BY <2>6
  <2>8. ASSUME NEW e \in C, Newer(e, m) PROVE FALSE
    <3>1. /\ e.at \in Nat /\ m.at \in Nat /\ MaxTime \in Nat
          /\ Alphabet(e.service) \in Nat /\ Alphabet(e.environment) \in Nat
          /\ Alphabet(m.service) \in Nat /\ Alphabet(m.environment) \in Nat
      BY Places, Shapes
    <3>2. t =< MaxTime - e.at
      BY <2>2
    <3>3. e.at = m.at /\ MaxTime - e.at = t
      BY <2>7, <2>8, <3>1, <3>2 DEF Newer
    <3>4. s =< Alphabet(e.service)
      BY <2>4, <3>3
    <3>5. Alphabet(e.service) = s /\ e.service = m.service
      BY <2>7, <2>8, <3>1, <3>3, <3>4 DEF Newer
    <3>6. v =< Alphabet(e.environment)
      BY <2>6, <3>3, <3>5
    <3> QED BY <2>7, <2>8, <3>1, <3>3, <3>5, <3>6 DEF Newer
  <2>9. \E d \in C : \A e \in C : ~Newer(e, d)
    BY <2>8
  <2> QED BY <1>2, <2>9, Zenon DEF Latest
<1> QED BY <1>1, <1>2

\* The key of a service's deployment matches the service's pattern.
LEMMA ServiceKeysMatch ==
    ASSUME setup.backend # "memory", NEW r, r.service \in Services,
           NEW environment \in Environments
    PROVE  Pattern(r, Key(r.service, environment))
<1> DEFINE s == r.service
           k == s \o environment
<1>1. /\ s \in Seq(STRING) /\ environment \in Seq(STRING) /\ environment # <<>>
      /\ Key(r.service, environment) = k
  BY QueriesAssumption DEF Key, Services, Environments
<1>2. /\ Len(k) = Len(s) + Len(environment) /\ Len(environment) > 0
      /\ Len(s) \in Nat /\ k \in Seq(STRING)
      /\ \A i \in 1..Len(s) : k[i] = s[i]
  BY <1>1
<1>3. IsPrefix(s, k)
  BY <1>1, <1>2 DEF IsPrefix
<1> QED BY <1>1, <1>2, <1>3 DEF Pattern

QueryTypeOK ==
    /\ setup \in Setups
    /\ stored \in [Keys -> Deployments \union {None}]
    /\ changes \in 0..MaxChanges /\ inOrder \in BOOLEAN
    /\ request \in Requests \union {None}
    /\ phase \in {"idle", "get", "lock", "scan", "read", "done", "500"}
    /\ scans \in 0..MaxScans /\ batch \subseteq Keys /\ more \in BOOLEAN
    /\ found \in Seq(Deployments)
    /\ phase # "idle" => request \in Requests
    /\ phase \in {"scan", "read"} => setup.backend # "memory" /\ request.kind # "exact"

\* Keys do not change with the setup, which never does.
LEMMA KeysStay ==
    ASSUME UNCHANGED setup
    PROVE  /\ Keys' = Keys
           /\ \A s, e : Key(s, e)' = Key(s, e)
           /\ \A st : Used(st)' = Used(st) /\ Kept(st)' = Kept(st)
BY DEF Keys, Key, Used, Kept

LEMMA SetupStays == [Next]_vars => UNCHANGED setup
<1> SUFFICES ASSUME [Next]_vars PROVE UNCHANGED setup
  OBVIOUS
<1>1. CASE \/ \E d \in Deployments : Deploy(d)
           \/ \E k \in Keys : Expire(k) \/ ReadKey(k)
           \/ \E r \in Requests : Ask(r)
           \/ \E keys \in SUBSET Keys, continues \in BOOLEAN : Scan(keys, continues)
  BY <1>1 DEF Deploy, Expire, ReadKey, Ask, Scan
<1>2. CASE Get \/ Collect \/ NextCursor \/ ScanEnds \/ StoreFails \/ Respond
  BY <1>2 DEF Get, Collect, NextCursor, ScanEnds, StoreFails, Respond
<1> QED BY <1>1, <1>2 DEF Next, vars

LEMMA QueryTypeOKHolds == Spec => []QueryTypeOK
<1>1. ASSUME Init PROVE QueryTypeOK
  <2>1. stored \in [Keys -> Deployments \union {None}]
    BY <1>1 DEF Init
  <2>2. changes \in 0..MaxChanges /\ scans \in 0..MaxScans /\ found \in Seq(Deployments)
    BY <1>1, Shapes DEF Init
  <2> QED BY <1>1, <2>1, <2>2 DEF Init, QueryTypeOK
<1>2. ASSUME QueryTypeOK, [Next]_vars PROVE QueryTypeOK'
  <2>1. Keys' = Keys /\ UNCHANGED setup
    BY <1>2, SetupStays, KeysStay
  <2>2. ASSUME NEW d \in Deployments, Deploy(d) PROVE QueryTypeOK'
    <3>1. stored' \in [Keys -> Deployments \union {None}]
      BY <1>2, <2>2 DEF QueryTypeOK, Deploy
    <3>2. changes' \in 0..MaxChanges /\ inOrder' \in BOOLEAN
      BY <1>2, <2>2, Shapes DEF QueryTypeOK, Deploy
    <3> QED BY <1>2, <2>1, <2>2, <3>1, <3>2 DEF QueryTypeOK, Deploy
  <2>3. ASSUME NEW k \in Keys, Expire(k) PROVE QueryTypeOK'
    <3>1. stored' \in [Keys -> Deployments \union {None}]
      BY <1>2, <2>3 DEF QueryTypeOK, Expire
    <3>2. changes' \in 0..MaxChanges
      BY <1>2, <2>3, Shapes DEF QueryTypeOK, Expire
    <3> QED BY <1>2, <2>1, <2>3, <3>1, <3>2 DEF QueryTypeOK, Expire
  <2>4. ASSUME NEW k \in Keys, ReadKey(k) PROVE QueryTypeOK'
    <3>1. stored[k] \in Deployments \union {None}
      BY <1>2 DEF QueryTypeOK
    <3>2. found' \in Seq(Deployments)
      BY <1>2, <2>4, <3>1 DEF QueryTypeOK, ReadKey, historyVars
    <3> QED BY <1>2, <2>1, <2>4, <3>2 DEF QueryTypeOK, ReadKey, historyVars
  <2>5. ASSUME NEW r \in Requests, Ask(r) PROVE QueryTypeOK'
    <3>1. /\ request' = r /\ phase' \in {"get", "lock", "scan"}
          /\ phase' = "scan" => setup.backend # "memory" /\ r.kind # "exact"
          /\ phase' # "read" /\ inOrder' = TRUE
      BY <2>5 DEF Ask
    <3>2. UNCHANGED <<setup, stored, changes, scans, batch, more, found>>
      BY <2>5 DEF Ask
    <3> QED BY <1>2, <2>1, <3>1, <3>2 DEF QueryTypeOK
  <2>6. ASSUME NEW keys \in SUBSET Keys, NEW continues \in BOOLEAN, Scan(keys, continues)
        PROVE  QueryTypeOK'
    BY <1>2, <2>1, <2>6, Shapes DEF QueryTypeOK, Scan, historyVars
  <2>7. CASE Get \/ Collect \/ NextCursor \/ ScanEnds \/ StoreFails
    <3>1. UNCHANGED <<setup, stored, changes, request, scans, batch, more, found, inOrder>>
      BY <2>7 DEF Get, Collect, NextCursor, ScanEnds, StoreFails, scanVars, historyVars
    <3>2. /\ phase # "idle" /\ phase' \in {"done", "500", "scan"}
          /\ phase' = "scan" => phase = "read"
      BY <2>7 DEF Get, Collect, NextCursor, ScanEnds, StoreFails
    <3> QED BY <1>2, <2>1, <3>1, <3>2 DEF QueryTypeOK
  <2>8. CASE Respond
    <3>1. /\ UNCHANGED <<setup, stored>> /\ phase' = "idle" /\ request' = None
          /\ scans' = 0 /\ batch' = {} /\ more' = FALSE /\ found' = <<>>
          /\ inOrder' = TRUE /\ changes' = 0
      BY <2>8 DEF Respond
    <3>2. changes' \in 0..MaxChanges /\ scans' \in 0..MaxScans /\ found' \in Seq(Deployments)
      BY <3>1, Shapes
    <3> QED BY <1>2, <2>1, <3>1, <3>2 DEF QueryTypeOK
  <2>9. CASE UNCHANGED vars
    BY <1>2, <2>1, <2>9 DEF QueryTypeOK, vars, scanVars, historyVars
  <2> QED BY <1>2, <2>2, <2>3, <2>4, <2>5, <2>6, <2>7, <2>8, <2>9 DEF Next
<1> QED BY <1>1, <1>2, PTL DEF Spec

\* A key holds a deployment of its names.
StoreInv ==
    \A k \in Keys : stored[k] # None => k = Key(stored[k].service, stored[k].environment)

\* What a request may have observed.
HistoryInv ==
    /\ unseen \subseteq Used(stored)
    /\ steady \subseteq Kept(stored)
    /\ steady \subseteq present /\ present \subseteq Deployments
    /\ phase # "idle" => Kept(stored) \subseteq present
    /\ phase = "idle" => /\ unseen = {} /\ batch = {} /\ found = <<>>
                         /\ steady = {} /\ present = {} /\ newest = {}
    /\ newest \subseteq present \union {None}
    /\ ToSet(found) \subseteq present

\* A step of the store keeps what it does not touch.
Saves(d) ==
    /\ Key(d.service, d.environment) \in Keys
    /\ stored'[Key(d.service, d.environment)] = d
    /\ \A k \in Keys : k # Key(d.service, d.environment) => stored'[k] = stored[k]
    /\ inOrder' = (inOrder /\ (Asking /\ d.service = request.service =>
                                 \A e \in Kept(stored) : e.service = d.service => ~Newer(e, d)))

Lapses(k) ==
    /\ setup.lapsing /\ inOrder' = inOrder
    /\ stored'[k] = None
    /\ \A j \in Keys : j # k => stored'[j] = stored[j]

StoreStep ==
    /\ \/ \E d \in Deployments : Saves(d)
       \/ \E k \in Keys : Lapses(k)
    /\ Observe
    /\ phase \notin {"done", "500"}
    /\ UNCHANGED <<setup, request, phase, scans, batch, more, found, answer>>

\* The names of a deployment make one of the keys.
LEMMA KeysOfDeployments ==
    ASSUME NEW d \in Deployments PROVE Key(d.service, d.environment) \in Keys
<1> DEFINE s == [service |-> d.service, environment |-> d.environment]
<1>1. s \in Slots /\ s.service = d.service /\ s.environment = d.environment
  BY Shapes
<1> HIDE DEF s
<1> QED BY <1>1 DEF Keys

LEMMA StoreSteps ==
    ASSUME QueryTypeOK, \/ \E d \in Deployments : Deploy(d)
                        \/ \E k \in Keys : Expire(k)
    PROVE  StoreStep
<1>1. ASSUME NEW d \in Deployments, Deploy(d) PROVE Saves(d)
  <2>1. Key(d.service, d.environment) \in Keys
    BY KeysOfDeployments
  <2>2. stored' = [stored EXCEPT ![Key(d.service, d.environment)] = d]
    BY <1>1 DEF Deploy
  <2>3. /\ stored'[Key(d.service, d.environment)] = d
        /\ \A k \in Keys : k # Key(d.service, d.environment) => stored'[k] = stored[k]
    BY <2>1, <2>2 DEF QueryTypeOK
  <2> QED BY <1>1, <2>1, <2>3, Zenon DEF Deploy, Saves
<1>2. ASSUME NEW k \in Keys, Expire(k) PROVE Lapses(k)
  BY <1>2 DEF QueryTypeOK, Expire, Lapses
<1>3. ASSUME NEW d \in Deployments, Deploy(d)
      PROVE  /\ Observe /\ phase \notin {"done", "500"}
             /\ UNCHANGED <<setup, request, phase, scans, batch, more, found, answer>>
  BY <1>3 DEF Deploy
<1>4. ASSUME NEW k \in Keys, Expire(k)
      PROVE  /\ Observe /\ phase \notin {"done", "500"}
             /\ UNCHANGED <<setup, request, phase, scans, batch, more, found, answer>>
  BY <1>4 DEF Expire
<1> QED BY <1>1, <1>2, <1>3, <1>4, Zenon DEF StoreStep

LEMMA Holdings ==
    ASSUME QueryTypeOK
    PROVE  /\ \A k \in Keys : stored[k] # None => stored[k] \in Deployments
           /\ Kept(stored) = {stored[k] : k \in {j \in Keys : stored[j] # None}}
           /\ Kept(stored) \subseteq Deployments
           /\ ToSet(found) \subseteq Deployments
BY Shapes DEF QueryTypeOK, Kept, Used, ToSet

\* The other steps leave the store alone.
RequestStep ==
    \/ \E r \in Requests : Ask(r)
    \/ \E keys \in SUBSET Keys, continues \in BOOLEAN : Scan(keys, continues)
    \/ \E k \in Keys : ReadKey(k)
    \/ Get \/ Collect \/ NextCursor \/ ScanEnds \/ StoreFails \/ Respond
    \/ UNCHANGED vars

LEMMA Steps ==
    ASSUME QueryTypeOK, [Next]_vars
    PROVE  StoreStep \/ (RequestStep /\ UNCHANGED <<setup, stored>>)
<1>1. RequestStep => UNCHANGED <<setup, stored>>
  BY DEF RequestStep, Ask, Scan, ReadKey, Get, Collect, NextCursor, ScanEnds,
         StoreFails, Respond, vars
<1> QED BY <1>1, StoreSteps DEF Next, RequestStep

LEMMA StoreInvHolds == Spec => []StoreInv
<1>1. Init => StoreInv
  BY DEF Init, StoreInv
<1>2. ASSUME QueryTypeOK, StoreInv, [Next]_vars PROVE StoreInv'
  <2>1. Keys' = Keys /\ \A s, e : Key(s, e)' = Key(s, e)
    BY <1>2, SetupStays, KeysStay
  <2>2. ASSUME NEW d \in Deployments, Saves(d) PROVE StoreInv'
    <3> SUFFICES ASSUME NEW k \in Keys, stored'[k] # None
                 PROVE  k = Key(stored'[k].service, stored'[k].environment)
      BY <2>1 DEF StoreInv
    <3>1. CASE k = Key(d.service, d.environment)
      BY <2>2, <3>1 DEF Saves
    <3>2. CASE k # Key(d.service, d.environment)
      BY <1>2, <2>2, <3>2 DEF Saves, StoreInv
    <3> QED BY <3>1, <3>2
  <2>3. ASSUME NEW j \in Keys, Lapses(j) PROVE StoreInv'
    BY <1>2, <2>1, <2>3 DEF StoreInv, Lapses
  <2>4. CASE UNCHANGED <<setup, stored>>
    BY <1>2, <2>1, <2>4 DEF StoreInv
  <2> QED BY <1>2, <2>2, <2>3, <2>4, Steps DEF StoreStep
<1> QED BY <1>1, <1>2, QueryTypeOKHolds, PTL DEF Spec

LEMMA StoreInPlace ==
    ASSUME UNCHANGED setup
    PROVE  Keys' = Keys /\ Used(stored)' = Used(stored') /\ Kept(stored)' = Kept(stored')
BY KeysStay DEF Used, Kept

\* What the store holds after a save: what was there, and what is new.
LEMMA KeptAfter ==
    ASSUME NEW d \in Deployments, Saves(d)
    PROVE  Kept(stored') \subseteq Kept(stored) \union {d}
<1> SUFFICES ASSUME NEW k \in Keys, stored'[k] # None
             PROVE  stored'[k] \in Kept(stored) \/ stored'[k] = d
  BY DEF Kept, Used
<1>1. CASE k = Key(d.service, d.environment)
  BY <1>1 DEF Saves
<1>2. CASE k # Key(d.service, d.environment)
  BY <1>2 DEF Saves, Kept, Used
<1> QED BY <1>1, <1>2

LEMMA NewestAreKept ==
    ASSUME NEW st, NEW r PROVE NewestOf(st, r) \subseteq Kept(st)
BY DEF NewestOf

LEMMA FoundByReading ==
    ASSUME QueryTypeOK, NEW k \in Keys, ReadKey(k)
    PROVE  /\ stored[k] = None => ToSet(found') = ToSet(found)
           /\ stored[k] # None => ToSet(found') = ToSet(found) \union {stored[k]}
<1>1. found \in Seq(Deployments) /\ (stored[k] # None => stored[k] \in Deployments)
  BY Holdings DEF QueryTypeOK
<1>2. ASSUME stored[k] # None PROVE ToSet(found') = ToSet(found) \union {stored[k]}
  <2>1. found' = Append(found, stored[k])
    BY <1>2 DEF ReadKey
  <2> QED BY <1>1, <1>2, <2>1 DEF ToSet
<1> QED BY <1>2 DEF ReadKey

LEMMA HistoryInvHolds == Spec => []HistoryInv
<1>1. ASSUME Init PROVE HistoryInv
  <2>1. Used(stored) = {} /\ Kept(stored) = {} /\ ToSet(found) = {}
    BY <1>1 DEF Init, Used, Kept, ToSet
  <2> QED BY <1>1, <2>1 DEF Init, HistoryInv
<1>2. ASSUME QueryTypeOK, QueryTypeOK', StoreInv, StoreInv', HistoryInv, [Next]_vars
      PROVE  HistoryInv'
  <2>1. Keys' = Keys /\ Used(stored)' = Used(stored') /\ Kept(stored)' = Kept(stored')
    BY <1>2, SetupStays, StoreInPlace
  <2>2. Kept(stored') \subseteq Deployments
    <3>1. \A k \in Keys : stored'[k] # None => stored'[k] \in Deployments
      BY <1>2, <2>1, Shapes DEF QueryTypeOK
    <3> QED BY <3>1 DEF Kept, Used
  <2>3. \A d \in Kept(stored) : d \in Deployments
    BY <1>2, Holdings
  <2>4. CASE StoreStep /\ Asking
    <3>1. /\ unseen' = unseen \cap Used(stored') /\ steady' = steady \cap Kept(stored')
          /\ present' = present \union Kept(stored')
          /\ newest' = newest \union NewestOrNone(stored')
          /\ UNCHANGED <<phase, found>> /\ phase # "idle"
      BY <2>4 DEF StoreStep, Observe, Asking
    <3>2. NewestOrNone(stored') \subseteq Kept(stored') \union {None}
      BY NewestAreKept DEF NewestOrNone
    <3> QED BY <1>2, <2>1, <2>2, <3>1, <3>2 DEF HistoryInv
  <2>5. CASE StoreStep /\ ~Asking
    <3>1. /\ phase = "idle" /\ UNCHANGED <<phase, unseen, batch, found, seenVars>>
      BY <2>5 DEF StoreStep, Observe, Asking
    <3> QED BY <1>2, <3>1 DEF HistoryInv, historyVars, seenVars, ToSet
  <2>6. ASSUME NEW r \in Requests, Ask(r), UNCHANGED <<setup, stored>>
        PROVE HistoryInv'
    <3>1. /\ unseen' = Used(stored) /\ steady' = Kept(stored) /\ present' = Kept(stored)
          /\ UNCHANGED <<batch, found>> /\ phase = "idle" /\ phase' # "idle"
          /\ newest' \subseteq NewestOf(stored, r) \union {None}
      BY <2>6 DEF Ask
    <3>2. NewestOf(stored, r) \subseteq Kept(stored)
      BY NewestAreKept
    <3>3. ToSet(found') = {}
      BY <1>2, <3>1 DEF HistoryInv, ToSet
    <3> QED BY <1>2, <2>1, <2>2, <2>6, <3>1, <3>2, <3>3 DEF HistoryInv
  <2>7. ASSUME NEW keys \in SUBSET Keys, NEW continues \in BOOLEAN,
               Scan(keys, continues), UNCHANGED <<setup, stored>>
        PROVE  HistoryInv'
    <3>1. /\ unseen' = unseen \ keys /\ UNCHANGED <<found, historyVars>>
          /\ phase # "idle" /\ phase' # "idle"
      BY <2>7 DEF Scan
    <3> QED BY <1>2, <2>1, <2>7, <3>1 DEF HistoryInv, historyVars, seenVars
  <2>8. ASSUME NEW k \in Keys, ReadKey(k), UNCHANGED <<setup, stored>>
        PROVE  HistoryInv'
    <3>1. /\ UNCHANGED <<unseen, historyVars, phase>> /\ phase = "read"
      BY <2>8 DEF ReadKey
    <3>2. ToSet(found') \subseteq ToSet(found) \union Kept(stored)
      BY <1>2, <2>8, FoundByReading DEF Kept, Used
    <3> QED BY <1>2, <2>1, <2>8, <3>1, <3>2 DEF HistoryInv, historyVars, seenVars
  <2>9. ASSUME Get \/ Collect \/ NextCursor \/ ScanEnds \/ StoreFails,
               UNCHANGED <<setup, stored>>
        PROVE HistoryInv'
    <3>1. /\ UNCHANGED <<unseen, found, historyVars>> /\ phase # "idle" /\ phase' # "idle"
      BY <2>9 DEF Get, Collect, NextCursor, ScanEnds, StoreFails, scanVars
    <3> QED BY <1>2, <2>1, <2>9, <3>1 DEF HistoryInv, historyVars, seenVars
  <2>10. ASSUME Respond, UNCHANGED <<setup, stored>> PROVE HistoryInv'
    BY <2>1, <2>10 DEF Respond, HistoryInv, ToSet
  <2>11. CASE UNCHANGED vars
    BY <1>2, <2>1, <2>11 DEF HistoryInv, vars, scanVars, historyVars, seenVars
  <2> QED BY <1>2, <2>4, <2>5, <2>6, <2>7, <2>8, <2>9, <2>10, <2>11, Steps DEF RequestStep
<1> QED BY <1>1, <1>2, QueryTypeOKHolds, StoreInvHolds, PTL DEF Spec

\* Every variable keeps its type, and what a request may have observed is among
\* what was in the store while it ran.
THEOREM TypeCorrect == Spec => []TypeOK
<1>1. QueryTypeOK /\ HistoryInv => TypeOK
  BY DEF QueryTypeOK, HistoryInv, TypeOK
<1> QED BY <1>1, QueryTypeOKHolds, HistoryInvHolds, PTL
-----------------------------------------------------------------------------
KeyOf(d) == Key(d.service, d.environment)

\* A scan has yet to be given the keys that were there all along, or has read
\* what they hold.
ScanInv ==
    /\ phase = "get" => request.kind = "exact"
    /\ phase = "lock" => request.kind # "exact"
    /\ phase = "scan" => batch = {}
    /\ phase = "read" /\ ~more => \A k \in unseen : ~Pattern(request, k)
    /\ phase \in {"scan", "read"} =>
         \A d \in steady : Pattern(request, KeyOf(d)) =>
           KeyOf(d) \in unseen \union batch \/ d \in ToSet(found)

LEMMA SteadyIsAtItsKey ==
    ASSUME StoreInv, NEW d \in Kept(stored)
    PROVE  /\ KeyOf(d) \in Used(stored)
           /\ \A k \in Keys : stored[k] = d /\ stored[k] # None => k = KeyOf(d)
           /\ stored[KeyOf(d)] = d
<1>1. PICK k \in Keys : stored[k] = d /\ stored[k] # None
  BY DEF Kept, Used
<1> QED BY <1>1 DEF StoreInv, KeyOf, Used

LEMMA ScanInvHolds == Spec => []ScanInv
<1>1. Init => ScanInv
  BY DEF Init, ScanInv
<1>2. ASSUME QueryTypeOK, QueryTypeOK', StoreInv, StoreInv', HistoryInv, HistoryInv',
             ScanInv, [Next]_vars
      PROVE  ScanInv'
  <2>1. /\ Keys' = Keys /\ Used(stored)' = Used(stored') /\ Kept(stored)' = Kept(stored')
        /\ \A d : KeyOf(d)' = KeyOf(d)
    BY <1>2, SetupStays, StoreInPlace, KeysStay DEF KeyOf
  <2>2. \A d \in steady' : KeyOf(d) \in Used(stored') /\ stored'[KeyOf(d)] = d
    <3>1. \A d \in Kept(stored') : KeyOf(d) \in Used(stored') /\ stored'[KeyOf(d)] = d
      <4> SUFFICES ASSUME NEW k \in Keys, stored'[k] # None
                   PROVE  k = KeyOf(stored'[k])
        BY DEF Kept, Used
      <4> QED BY <1>2, <2>1 DEF StoreInv, KeyOf
    <3> QED BY <1>2, <2>1, <3>1 DEF HistoryInv
  <2>3. CASE StoreStep /\ Asking
    <3>1. /\ unseen' = unseen \cap Used(stored') /\ steady' = steady \cap Kept(stored')
          /\ UNCHANGED <<phase, found, batch, more, request>>
      BY <2>3 DEF StoreStep, Observe
    <3>2. \A k : Pattern(request, k)' = Pattern(request, k)
      BY <3>1 DEF Pattern
    <3> QED BY <1>2, <2>1, <2>2, <3>1, <3>2 DEF ScanInv, ToSet, Pattern
  <2>4. CASE StoreStep /\ ~Asking
    <3>1. phase = "idle" /\ phase' = phase
      BY <2>4 DEF StoreStep, Asking
    <3> QED BY <3>1 DEF ScanInv
  <2>5. ASSUME NEW r \in Requests, Ask(r), UNCHANGED <<setup, stored>>
        PROVE ScanInv'
    <3>1. /\ batch' = {} /\ phase' # "read" /\ unseen' = Used(stored)
          /\ phase' = "get" => r.kind = "exact"
          /\ phase' = "lock" => r.kind # "exact"
          /\ request' = r
      BY <1>2, <2>5 DEF Ask, HistoryInv
    <3> QED BY <2>1, <2>2, <2>5, <3>1 DEF ScanInv
  <2>6. ASSUME NEW keys \in SUBSET Keys, NEW continues \in BOOLEAN,
               Scan(keys, continues), UNCHANGED <<setup, stored>>
        PROVE  ScanInv'
    <3>1. /\ unseen' = unseen \ keys /\ batch' = keys /\ more' = continues
          /\ phase = "scan" /\ phase' = "read" /\ batch = {}
          /\ UNCHANGED <<request, found, steady>>
          /\ ~continues => {k \in unseen : Pattern(request, k)} \subseteq keys
      BY <1>2, <2>6 DEF Scan, historyVars, seenVars, ScanInv
    <3>2. unseen \union batch = unseen \cap (unseen' \union batch')
      BY <3>1
    <3> QED BY <1>2, <2>1, <3>1, <3>2 DEF ScanInv, ToSet, Pattern
  <2>7. ASSUME NEW k \in Keys, ReadKey(k), UNCHANGED <<setup, stored>>
        PROVE  ScanInv'
    <3>1. /\ UNCHANGED <<request, phase, unseen, more, steady>> /\ batch' = batch \ {k}
          /\ phase = "read"
      BY <2>7 DEF ReadKey, historyVars, seenVars
    <3>2. \A d \in steady : d \in Deployments /\ d # None
      BY <1>2, Shapes DEF HistoryInv
    <3>3. /\ stored[k] # None => ToSet(found') = ToSet(found) \union {stored[k]}
          /\ ToSet(found) \subseteq ToSet(found')
      BY <1>2, <2>7, FoundByReading
    <3>4. ASSUME NEW d \in steady, KeyOf(d) = k PROVE d \in ToSet(found')
      BY <2>2, <2>7, <3>1, <3>2, <3>3, <3>4
    <3> QED BY <1>2, <2>1, <3>1, <3>3, <3>4 DEF ScanInv, ToSet, Pattern
  <2>8. CASE NextCursor
    <3>1. /\ UNCHANGED <<request, unseen, batch, found, steady>> /\ batch = {}
          /\ phase = "read" /\ phase' = "scan"
      BY <2>8 DEF NextCursor, scanVars, historyVars, seenVars
    <3> QED BY <1>2, <2>1, <3>1 DEF ScanInv, ToSet, Pattern
  <2>9. CASE Get \/ Collect \/ ScanEnds \/ StoreFails \/ Respond
    <3>1. phase' \in {"done", "500", "idle"}
      BY <2>9 DEF Get, Collect, ScanEnds, StoreFails, Respond
    <3> QED BY <3>1 DEF ScanInv
  <2>10. CASE UNCHANGED vars
    BY <1>2, <2>1, <2>10 DEF ScanInv, vars, scanVars, historyVars, seenVars, ToSet, Pattern
  <2> QED BY <1>2, <2>3, <2>4, <2>5, <2>6, <2>7, <2>8, <2>9, <2>10, Steps DEF RequestStep
<1> QED BY <1>1, <1>2, QueryTypeOKHolds, StoreInvHolds, HistoryInvHolds, PTL DEF Spec

\* What is answered, when an answer is given for the latest.
LEMMA AnswerIsGiven ==
    ASSUME QueryTypeOK, StoreInv, HistoryInv, ScanInv, [Next]_vars,
           phase' = "done", request'.kind = "latest", phase # "done"
    PROVE  /\ UNCHANGED <<setup, stored, request, historyVars>> /\ request.kind = "latest"
           /\ phase # "idle"
           /\ \/ /\ Collect
                 /\ answer' = LatestDeployment(Kept(stored), request)
              \/ /\ ScanEnds
                 /\ answer' = LatestDeployment(ToSet(found), request)
                 /\ setup.backend # "memory"
                 /\ \A k \in unseen \union batch : ~Pattern(request, k)
<1>1. ~StoreStep
  BY DEF StoreStep
<1>2. Get \/ Collect \/ ScanEnds
  BY <1>1, Steps DEF RequestStep, Ask, Scan, ReadKey, NextCursor, StoreFails, Respond, vars
<1>3. UNCHANGED <<setup, stored, request, historyVars>> /\ phase # "idle"
  BY <1>2 DEF Get, Collect, ScanEnds
<1>4. ~Get
  BY <1>3 DEF Get, ScanInv
<1>5. CASE Collect
  BY <1>3, <1>5 DEF Collect
<1>6. CASE ScanEnds
  <2>1. phase = "read" /\ ~more /\ batch = {}
    BY <1>6 DEF ScanEnds
  <2> QED BY <1>3, <1>6, <2>1 DEF ScanEnds, ScanInv, QueryTypeOK
<1> QED BY <1>2, <1>4, <1>5, <1>6

\* Expiring keys or not, whatever SCAN repeats or leaves out of a reply, the
\* latest deployment answered is the service's and was in place during the
\* request, and none of the service that was in place all through it is newer.
THEOREM LatestIsNotOlder == Spec => []LatestOutranksSteady
<1>1. Init => LatestOutranksSteady
  BY DEF Init, LatestOutranksSteady, Answered
<1>2. ASSUME QueryTypeOK, StoreInv, HistoryInv, ScanInv, LatestOutranksSteady, [Next]_vars
      PROVE  LatestOutranksSteady'
  <2> SUFFICES ASSUME phase' = "done", request'.kind = "latest"
               PROVE  /\ \/ answer' = None
                         \/ answer' \in present' /\ answer'.service = request'.service
                      /\ \A d \in steady' : d.service = request'.service =>
                           answer' # None /\ ~Newer(d, answer')
    BY DEF LatestOutranksSteady, Answered, Newer
  <2>1. CASE phase = "done"
    <3>1. UNCHANGED <<phase, request, answer, historyVars>>
      BY <1>2, <2>1, Steps DEF StoreStep, RequestStep, Ask, Scan, ReadKey, Get, Collect,
            NextCursor, ScanEnds, StoreFails, Respond, vars, historyVars, seenVars
    <3> QED BY <1>2, <2>1, <3>1 DEF LatestOutranksSteady, Answered, Newer, historyVars, seenVars
  <2>2. CASE phase # "done"
    <3>1. PICK C : /\ C \subseteq present /\ C \subseteq Deployments
                   /\ answer' = LatestDeployment(C, request)
                   /\ \A d \in steady : d.service = request.service => d \in C
      <4>1. CASE Collect
        BY <1>2, <2>2, <4>1, AnswerIsGiven, Holdings DEF HistoryInv, ScanEnds, Collect
      <4>2. CASE ScanEnds
        <5>1. /\ answer' = LatestDeployment(ToSet(found), request)
              /\ setup.backend # "memory" /\ phase = "read"
              /\ \A k \in unseen \union batch : ~Pattern(request, k)
          BY <1>2, <2>2, <4>2, AnswerIsGiven DEF Collect, ScanEnds
        <5>2. ASSUME NEW d \in steady, d.service = request.service
              PROVE  d \in ToSet(found)
          <6>1. d.environment \in Environments /\ d.service \in Services
            BY <1>2, Shapes DEF HistoryInv
          <6>2. Pattern(request, KeyOf(d))
            BY <5>1, <5>2, <6>1, ServiceKeysMatch DEF KeyOf
          <6> QED BY <1>2, <5>1, <6>2 DEF ScanInv
        <5> QED BY <1>2, <5>1, <5>2, Holdings DEF HistoryInv
      <4> QED BY <1>2, <2>2, <4>1, <4>2, AnswerIsGiven
    <3>2. UNCHANGED <<request, historyVars>>
      BY <1>2, <2>2, AnswerIsGiven
    <3> DEFINE M == {d \in C : d.service = request.service}
    <3>3. answer' = Latest(M) /\ M \in SUBSET Deployments
      BY <3>1 DEF LatestDeployment
    <3>4. /\ M = {} => Latest(M) = None
          /\ M # {} => Latest(M) \in M /\ \A e \in M : ~Newer(e, Latest(M))
      BY <3>3, LatestIsNewest
    <3>5. M # {} => Latest(M) # None
      BY <3>3, <3>4, Shapes
    <3> HIDE DEF M
    <3>6. /\ M \subseteq present /\ \A d \in M : d.service = request.service
          /\ \A d \in steady : d.service = request.service => d \in M
      BY <3>1 DEF M
    <3> QED BY <3>2, <3>3, <3>4, <3>5, <3>6 DEF historyVars, seenVars, Newer
  <2> QED BY <2>1, <2>2
<1> QED BY <1>1, <1>2, QueryTypeOKHolds, StoreInvHolds, HistoryInvHolds, ScanInvHolds,
           PTL DEF Spec
-----------------------------------------------------------------------------
\* No two of the pairs of names in use make the same key.
NamesKeepApart ==
    \A s, t \in Slots :
      s.service \o s.environment = t.service \o t.environment => s = t

\* What a scan has read of the service, or has yet to read.
Coming ==
    {stored[k] : k \in {j \in Keys \intersect (unseen \union batch) :
                          stored[j] # None /\ stored[j].service = request.service}}
    \union {d \in ToSet(found) : d.service = request.service}

Ahead(d) == \E e \in Coming : Newer(e, d)

\* While nothing expires: the newest of the service at each instant is recorded
\* as such, and what is not among them is outranked by something ahead, if what
\* was recorded of the service came in order.
CurrentInv ==
    /\ Asking => NewestOrNone(stored) \subseteq newest
    /\ phase \in {"scan", "read"} =>
         /\ inOrder => \A d \in present : d.service = request.service =>
                                            d \in newest \/ Ahead(d)
         /\ None \in newest \/ Coming # {}

LEMMA ComingAreDeployments ==
    ASSUME QueryTypeOK PROVE Coming \subseteq Deployments
BY Holdings DEF Coming

LEMMA KeysKeepApart ==
    ASSUME NamesKeepApart, NEW s \in Slots, NEW t \in Slots,
           Key(s.service, s.environment) = Key(t.service, t.environment)
    PROVE  s = t
<1>1. s.service \o s.environment = t.service \o t.environment => s = t
  BY DEF NamesKeepApart
<1>2. <<s.service, s.environment>> = <<t.service, t.environment>> => s = t
  BY QueriesAssumption
<1> QED BY <1>1, <1>2 DEF Key

LEMMA SameNames ==
    ASSUME NamesKeepApart, NEW d \in Deployments, NEW e \in Deployments,
           Key(d.service, d.environment) = Key(e.service, e.environment)
    PROVE  d.service = e.service /\ d.environment = e.environment
<1> DEFINE s == [service |-> d.service, environment |-> d.environment]
           t == [service |-> e.service, environment |-> e.environment]
<1>1. /\ s \in Slots /\ t \in Slots
      /\ s.service = d.service /\ s.environment = d.environment
      /\ t.service = e.service /\ t.environment = e.environment
  BY Shapes
<1> HIDE DEF s, t
<1>2. s = t
  BY <1>1, KeysKeepApart
<1> QED BY <1>1, <1>2

\* What is coming still comes when a deployment is saved, or what replaces it
\* does, which is not older if deployments are in order.
LEMMA SavingKeepsComing ==
    ASSUME NamesKeepApart, QueryTypeOK, QueryTypeOK', StoreInv, HistoryInv,
           StoreStep, Asking, ~setup.lapsing, NEW e \in Coming
    PROVE  \E f \in Coming' \intersect Deployments : inOrder' => ~Newer(e, f)
<1>1. PICK d \in Deployments : Saves(d)
  BY DEF StoreStep, Lapses
<1>2. /\ UNCHANGED <<request, batch, found>> /\ unseen' = unseen \cap Used(stored')
      /\ Keys' = Keys
  BY SetupStays, KeysStay DEF StoreStep, Observe
<1>3. e \in Deployments /\ ~Newer(e, e)
  BY ComingAreDeployments, NewerIsTotal
<1>4. CASE e \in ToSet(found) /\ e.service = request.service
  BY <1>2, <1>3, <1>4 DEF Coming, ToSet
<1>5. ASSUME NEW k \in Keys \intersect (unseen \union batch), stored[k] = e, e # None,
             e.service = request.service
      PROVE  \E f \in Coming' \intersect Deployments : inOrder' => ~Newer(e, f)
  <2>1. ASSUME stored'[k] # None, stored'[k].service = request.service
        PROVE  stored'[k] \in Coming'
    <3>1. k \in Keys' \intersect (unseen' \union batch')
      BY <1>2, <1>5, <2>1 DEF Used
    <3> QED BY <1>2, <2>1, <3>1 DEF Coming
  <2>2. CASE k = Key(d.service, d.environment)
    <3>1. k = Key(e.service, e.environment)
      BY <1>3, <1>5 DEF StoreInv
    <3>2. d.service = e.service
      BY <1>3, <2>2, <3>1, SameNames
    <3>3. stored'[k] = d /\ d # None
      BY <1>1, <2>2, Shapes DEF Saves
    <3>4. e \in Kept(stored)
      BY <1>5 DEF Kept, Used
    <3>5. inOrder' => ~Newer(e, d)
      BY <1>1, <1>5, <3>2, <3>4 DEF Saves
    <3> QED BY <1>5, <2>1, <3>2, <3>3, <3>5
  <2>3. CASE k # Key(d.service, d.environment)
    <3>1. stored'[k] = e
      BY <1>1, <1>5, <2>3 DEF Saves
    <3> QED BY <1>3, <1>5, <2>1, <3>1
  <2> QED BY <2>2, <2>3
<1> QED BY <1>3, <1>4, <1>5, Shapes DEF Coming

LEMMA SavingKeepsAhead ==
    ASSUME NamesKeepApart, QueryTypeOK, QueryTypeOK', StoreInv, HistoryInv,
           StoreStep, Asking, ~setup.lapsing, inOrder',
           NEW d \in Deployments, Ahead(d)
    PROVE  Ahead(d)'
<1>1. PICK e \in Coming : Newer(e, d)
  BY DEF Ahead
<1>2. PICK f \in Coming' \intersect Deployments : ~Newer(e, f)
  BY SavingKeepsComing
<1>3. e \in Deployments /\ f \in Deployments
  BY ComingAreDeployments
<1>4. Newer(f, d)
  BY <1>1, <1>2, <1>3, NewerIsTotal
<1> QED BY <1>4 DEF Ahead, Newer

\* While nothing expires, what is saved is the service's newest, if it is the
\* service's at all and in order.
LEMMA SavedIsNewest ==
    ASSUME QueryTypeOK, QueryTypeOK', StoreStep, Asking,
           ~setup.lapsing, inOrder', NEW d \in Kept(stored'), d \notin Kept(stored),
           d.service = request.service
    PROVE  d \in newest'
<1>1. PICK c \in Deployments : Saves(c)
  BY DEF StoreStep, Lapses
<1>2. c = d /\ Kept(stored') \subseteq Kept(stored) \union {d}
  BY <1>1, KeptAfter
<1>3. request' = request /\ newest' = newest \union NewestOrNone(stored')
  BY DEF StoreStep, Observe
<1>4. \A e \in Kept(stored) : e.service = d.service => ~Newer(e, d)
  BY <1>1, <1>2 DEF Saves
<1>5. ~Newer(d, d)
  BY <1>2, NewerIsTotal
<1>6. d \in NewestOf(stored', request)
  BY <1>2, <1>4, <1>5 DEF NewestOf
<1> QED BY <1>3, <1>6 DEF NewestOrNone

LEMMA CurrentInvHolds == NamesKeepApart /\ Spec => [](~setup.lapsing => CurrentInv)
<1> DEFINE Inv == NamesKeepApart /\ (~setup.lapsing => CurrentInv)
<1>1. NamesKeepApart /\ Init => Inv
  BY DEF Init, CurrentInv, Asking
<1>2. ASSUME QueryTypeOK, QueryTypeOK', StoreInv, StoreInv', HistoryInv, HistoryInv',
             ScanInv, Inv, [Next]_vars
      PROVE  Inv'
  <2> SUFFICES ASSUME ~setup.lapsing PROVE CurrentInv'
    BY <1>2, SetupStays DEF NamesKeepApart
  <2> HIDE DEF Inv
  <2>1. CurrentInv /\ NamesKeepApart
    BY <1>2 DEF Inv
  <2>2. /\ Keys' = Keys /\ Used(stored)' = Used(stored') /\ Kept(stored)' = Kept(stored')
        /\ NewestOrNone(stored)' = (IF NewestOf(stored', request') = {} THEN {None}
                                    ELSE NewestOf(stored', request'))
    BY <1>2, SetupStays, StoreInPlace, KeysStay DEF NewestOrNone, NewestOf
  <2>3. CASE StoreStep /\ Asking
    <3>1. /\ UNCHANGED <<phase, request>> /\ newest' = newest \union NewestOrNone(stored')
          /\ present' = present \union Kept(stored')
      BY <2>3 DEF StoreStep, Observe
    <3>2. NewestOrNone(stored)' \subseteq newest'
      BY <2>2, <3>1 DEF NewestOrNone
    <3>3. ASSUME phase \in {"scan", "read"}, inOrder'
          PROVE  \A d \in present' : d.service = request.service =>
                                       d \in newest' \/ Ahead(d)'
      <4> SUFFICES ASSUME NEW d \in present', d.service = request.service
                   PROVE  d \in newest' \/ Ahead(d)'
        OBVIOUS
      <4>1. CASE d \in present
        <5>1. d \in Deployments /\ inOrder
          BY <1>2, <2>3, <3>3, <4>1 DEF HistoryInv, StoreStep, Saves, Lapses
        <5>2. d \in newest \/ Ahead(d)
          BY <2>1, <3>3, <4>1, <5>1 DEF CurrentInv
        <5>3. Ahead(d) => Ahead(d)'
          BY <1>2, <2>1, <2>3, <3>3, <5>1, SavingKeepsAhead
        <5> QED BY <3>1, <5>2, <5>3
      <4>2. CASE d \notin present
        <5>1. d \in Kept(stored') /\ d \notin Kept(stored)
          BY <1>2, <3>1, <3>3, <4>2 DEF HistoryInv
        <5> QED BY <1>2, <2>3, <3>3, <5>1, SavedIsNewest
      <4> QED BY <4>1, <4>2
    <3>4. ASSUME phase \in {"scan", "read"} PROVE None \in newest' \/ Coming' # {}
      <4>1. Coming # {} => Coming' # {}
        BY <1>2, <2>1, <2>3, SavingKeepsComing
      <4> QED BY <2>1, <3>1, <3>4, <4>1 DEF CurrentInv
    <3> QED BY <3>1, <3>2, <3>3, <3>4 DEF CurrentInv
  <2>4. CASE StoreStep /\ ~Asking
    BY <2>4 DEF StoreStep, Asking, CurrentInv
  <2>5. ASSUME NEW r \in Requests, Ask(r), UNCHANGED <<setup, stored>>
        PROVE CurrentInv'
    <3>1. /\ present' = Kept(stored) /\ unseen' = Used(stored) /\ request' = r
          /\ newest' = IF NewestOf(stored, r) = {} THEN {None} ELSE NewestOf(stored, r)
          /\ UNCHANGED <<batch, stored>>
      BY <2>5 DEF Ask
    <3>2. NewestOrNone(stored)' \subseteq newest'
      BY <2>2, <3>1
    <3>3. ASSUME NEW e \in Kept(stored), e.service = r.service PROVE e \in Coming'
      <4>1. PICK k \in Keys : stored[k] = e /\ stored[k] # None
        BY DEF Kept, Used
      <4>2. k \in Keys' \intersect (unseen' \union batch')
        BY <2>2, <3>1, <4>1 DEF Used
      <4> QED BY <3>1, <3>3, <4>1, <4>2 DEF Coming
    <3>4. ASSUME NEW d \in present', d.service = r.service,
                 NewestOf(stored, r) # {} => d \notin newest'
          PROVE  Ahead(d)'
      <4>1. d \in Kept(stored) /\ d \notin NewestOf(stored, r)
        BY <3>1, <3>4
      <4>2. PICK e \in Kept(stored) : e.service = r.service /\ Newer(e, d)
        BY <3>4, <4>1 DEF NewestOf
      <4> QED BY <3>3, <4>2 DEF Ahead, Newer
    <3>5. ASSUME None \notin newest' PROVE Coming' # {}
      <4>1. PICK d \in NewestOf(stored, r) : TRUE
        BY <3>1, <3>5
      <4> QED BY <3>3, <4>1 DEF NewestOf
    <3>6. \A d \in present' : d.service = r.service => d \in newest' \/ Ahead(d)'
      <4>1. ASSUME NewestOf(stored, r) = {}, NEW d \in present', d.service = r.service
            PROVE  Ahead(d)'
        BY <3>4, <4>1
      <4> QED BY <3>1, <3>4, <4>1
    <3> QED BY <3>1, <3>2, <3>5, <3>6 DEF CurrentInv
  <2>6. ASSUME NEW keys \in SUBSET Keys, NEW continues \in BOOLEAN,
               Scan(keys, continues), UNCHANGED <<setup, stored>>
        PROVE  CurrentInv'
    <3>1. /\ unseen' = unseen \ keys /\ batch' = keys
          /\ phase = "scan" /\ phase' = "read" /\ batch = {}
          /\ UNCHANGED <<stored, request, found, present, newest, inOrder>>
      BY <1>2, <2>6 DEF Scan, historyVars, seenVars, ScanInv
    <3>2. Coming \subseteq Coming'
      BY <2>2, <3>1 DEF Coming, ToSet
    <3>3. \A d : Ahead(d) => Ahead(d)'
      BY <3>2 DEF Ahead, Newer
    <3> QED BY <2>1, <2>2, <3>1, <3>2, <3>3 DEF CurrentInv, Asking, NewestOrNone
  <2>7. ASSUME NEW k \in Keys, ReadKey(k), UNCHANGED <<setup, stored>>
        PROVE  CurrentInv'
    <3>1. /\ UNCHANGED <<stored, request, phase, unseen, present, newest, inOrder>>
          /\ batch' = batch \ {k} /\ phase = "read"
      BY <2>7 DEF ReadKey, historyVars, seenVars
    <3>2. /\ stored[k] # None => ToSet(found') = ToSet(found) \union {stored[k]}
          /\ ToSet(found) \subseteq ToSet(found')
      BY <1>2, <2>7, FoundByReading
    <3>3. Coming \subseteq Coming'
      <4> SUFFICES ASSUME NEW e \in Coming PROVE e \in Coming'
        OBVIOUS
      <4>1. CASE e \in ToSet(found) /\ e.service = request.service
        BY <3>1, <3>2, <4>1 DEF Coming
      <4>2. ASSUME NEW j \in Keys \intersect (unseen \union batch), stored[j] = e,
                   stored[j] # None, e.service = request.service
            PROVE  e \in Coming'
        <5>1. CASE j = k
          BY <3>1, <3>2, <4>2, <5>1 DEF Coming
        <5>2. CASE j # k
          BY <2>2, <3>1, <4>2, <5>2 DEF Coming
        <5> QED BY <5>1, <5>2
      <4> QED BY <4>1, <4>2 DEF Coming
    <3>4. \A d : Ahead(d) => Ahead(d)'
      BY <3>3 DEF Ahead, Newer
    <3> QED BY <2>1, <2>2, <3>1, <3>3, <3>4 DEF CurrentInv, Asking, NewestOrNone
  <2>8. CASE NextCursor
    <3>1. /\ UNCHANGED <<stored, request, unseen, batch, found, present, newest, inOrder>>
          /\ phase = "read" /\ phase' = "scan"
      BY <2>8 DEF NextCursor, scanVars, historyVars, seenVars
    <3>2. Coming' = Coming
      BY <2>2, <3>1 DEF Coming, ToSet
    <3>3. \A d : Ahead(d) => Ahead(d)'
      BY <3>2 DEF Ahead, Newer
    <3> QED BY <2>1, <2>2, <3>1, <3>2, <3>3 DEF CurrentInv, Asking, NewestOrNone
  <2>9. CASE Get \/ Collect \/ ScanEnds \/ StoreFails \/ Respond
    <3>1. phase' \in {"done", "500", "idle"}
      BY <2>9 DEF Get, Collect, ScanEnds, StoreFails, Respond
    <3> QED BY <3>1 DEF CurrentInv, Asking
  <2>10. CASE UNCHANGED vars
    <3>1. UNCHANGED <<stored, phase, request, unseen, batch, found, present, newest, inOrder>>
      BY <2>10 DEF vars, scanVars, historyVars, seenVars
    <3>2. Coming' = Coming
      BY <2>2, <3>1 DEF Coming, ToSet
    <3>3. \A d : Ahead(d) => Ahead(d)'
      BY <3>2 DEF Ahead, Newer
    <3> QED BY <2>1, <2>2, <3>1, <3>2, <3>3 DEF CurrentInv, Asking, NewestOrNone
  <2> QED BY <1>2, <2>3, <2>4, <2>5, <2>6, <2>7, <2>8, <2>9, <2>10, Steps DEF RequestStep
<1> QED BY <1>1, <1>2, QueryTypeOKHolds, StoreInvHolds, HistoryInvHolds, ScanInvHolds,
           PTL DEF Spec

\* What the answer is, when one is given for the latest.
LEMMA AnswerIsLatest ==
    ASSUME QueryTypeOK, StoreInv, HistoryInv, ScanInv, NamesKeepApart,
           ~setup.lapsing, CurrentInv, [Next]_vars,
           phase' = "done", request'.kind = "latest", phase # "done"
    PROVE  /\ answer' = None => None \in newest'
           /\ answer' # None /\ inOrder' => answer' \in newest'
<1>1. newest' = newest /\ inOrder' = inOrder
  BY AnswerIsGiven DEF historyVars, seenVars
<1>2. CASE Collect
  <2>1. Asking /\ answer' = LatestDeployment(Kept(stored), request)
    BY <1>2, AnswerIsGiven DEF Collect, ScanEnds, Asking
  <2> DEFINE M == {d \in Kept(stored) : d.service = request.service}
  <2>2. answer' = Latest(M) /\ M \in SUBSET Deployments
    BY <2>1, Holdings DEF LatestDeployment
  <2>3. /\ M = {} => Latest(M) = None
        /\ M # {} => Latest(M) \in M /\ \A e \in M : ~Newer(e, Latest(M))
    BY <2>2, LatestIsNewest
  <2>4. CASE M = {}
    <3>1. NewestOf(stored, request) = {}
      BY <2>4 DEF NewestOf
    <3> QED BY <1>1, <2>1, <2>2, <2>3, <2>4, <3>1 DEF CurrentInv, NewestOrNone
  <2>5. CASE M # {}
    <3> DEFINE a == Latest(M)
    <3>1. a \in M /\ \A e \in M : ~Newer(e, a)
      BY <2>3, <2>5
    <3>2. a \in NewestOf(stored, request)
      BY <3>1 DEF NewestOf
    <3>3. a # None
      BY <2>2, <3>1, Shapes
    <3> QED BY <1>1, <2>1, <2>2, <3>2, <3>3 DEF CurrentInv, NewestOrNone
  <2> QED BY <2>4, <2>5
<1>3. CASE ScanEnds
  <2>1. /\ phase = "read" /\ answer' = LatestDeployment(ToSet(found), request)
        /\ setup.backend # "memory"
        /\ \A k \in unseen \union batch : ~Pattern(request, k)
    BY <1>3, AnswerIsGiven DEF Collect, ScanEnds
  <2> DEFINE M == {d \in ToSet(found) : d.service = request.service}
  <2>2. Coming \subseteq M
    <3> SUFFICES ASSUME NEW k \in Keys \intersect (unseen \union batch), stored[k] # None,
                        stored[k].service = request.service
                 PROVE  FALSE
      BY DEF Coming
    <3>1. stored[k] \in Deployments /\ k = Key(stored[k].service, stored[k].environment)
      BY Holdings DEF StoreInv
    <3>2. stored[k].environment \in Environments /\ request.service \in Services
      BY <3>1, Shapes
    <3>3. Pattern(request, k)
      BY <2>1, <3>1, <3>2, ServiceKeysMatch
    <3> QED BY <2>1, <3>3
  <2>3. answer' = Latest(M) /\ M \in SUBSET Deployments
    BY <2>1, Holdings DEF LatestDeployment
  <2>4. /\ M = {} => Latest(M) = None
        /\ M # {} => Latest(M) \in M /\ \A e \in M : ~Newer(e, Latest(M))
    BY <2>3, LatestIsNewest
  <2>5. CASE M = {}
    BY <1>1, <2>1, <2>2, <2>3, <2>4, <2>5 DEF CurrentInv
  <2>6. CASE M # {}
    <3> DEFINE a == Latest(M)
    <3>1. a \in M /\ a \in Deployments /\ a # None /\ \A e \in M : ~Newer(e, a)
      BY <2>3, <2>4, <2>6, Shapes
    <3>2. a \in present /\ a.service = request.service
      BY <3>1 DEF HistoryInv
    <3> HIDE DEF a, M
    <3>3. ~Ahead(a)
      BY <2>2, <3>1 DEF Ahead
    <3>4. inOrder => a \in newest
      BY <2>1, <3>2, <3>3 DEF CurrentInv
    <3> QED BY <1>1, <2>3, <3>1, <3>4 DEF a
  <2> QED BY <2>5, <2>6
<1> QED BY <1>2, <1>3, AnswerIsGiven

\* When nothing expires and names keep keys apart, what is answered for the
\* latest, a deployment or that there is none, held at some instant.
LEMMA AnswersHeld == NamesKeepApart /\ Spec => [](LatestIsCurrent /\ UnknownIsUnknown)
<1> DEFINE Inv == NamesKeepApart /\ LatestIsCurrent /\ UnknownIsUnknown
<1>1. NamesKeepApart /\ Init => Inv
  BY DEF Init, LatestIsCurrent, UnknownIsUnknown, Answered
<1>2. ASSUME QueryTypeOK, StoreInv, HistoryInv, ScanInv,
             ~setup.lapsing => CurrentInv, Inv, [Next]_vars
      PROVE  Inv'
  <2>1. setup' = setup /\ NamesKeepApart /\ NamesKeepApart'
    BY <1>2, SetupStays DEF NamesKeepApart
  <2>2. CASE phase' = "done" /\ request'.kind = "latest" /\ ~setup.lapsing /\ phase # "done"
    <3>1. /\ answer' = None => None \in newest'
          /\ answer' # None /\ inOrder' => answer' \in newest'
      BY <1>2, <2>1, <2>2, AnswerIsLatest
    <3> QED BY <2>1, <3>1 DEF LatestIsCurrent, UnknownIsUnknown
  <2>3. CASE phase = "done" /\ phase' = "done"
    <3>1. ~StoreStep
      BY <2>3 DEF StoreStep
    <3>2. UNCHANGED <<setup, phase, request, answer, newest, inOrder>>
      BY <1>2, <2>3, <3>1, Steps DEF RequestStep, Ask, Scan, ReadKey, Get, Collect,
            NextCursor, ScanEnds, StoreFails, Respond, vars, historyVars, seenVars
    <3> QED BY <1>2, <2>1, <3>2 DEF LatestIsCurrent, UnknownIsUnknown, Answered
  <2>4. CASE ~(phase' = "done" /\ request'.kind = "latest" /\ ~setup.lapsing)
    BY <2>1, <2>4 DEF LatestIsCurrent, UnknownIsUnknown, Answered
  <2> QED BY <2>2, <2>3, <2>4
<1> QED BY <1>1, <1>2, QueryTypeOKHolds, StoreInvHolds, HistoryInvHolds, ScanInvHolds,
           CurrentInvHolds, PTL DEF Spec

\* When nothing expires, names keep keys apart and no deployment of the service is
\* recorded late during the request, the latest answered was the service's newest
\* at some instant of it, however the replies to SCAN and the saves interleave.
THEOREM LatestWasCurrent == NamesKeepApart /\ Spec => []LatestIsCurrent
BY AnswersHeld, PTL

\* Then "404" is answered for a service only if it was unknown at some instant.
THEOREM UnknownWasUnknown == NamesKeepApart /\ Spec => []UnknownIsUnknown
BY AnswersHeld, PTL

\* When names keep keys apart, a lookup of one environment never answers with
\* another's deployment: the colon in a Redis key is all that stands against it.
THEOREM LookupsKeepSlotsApart == NamesKeepApart /\ Spec => []LookupKeepsSlotsApart
<1> DEFINE Inv == NamesKeepApart /\ LookupKeepsSlotsApart
<1>1. NamesKeepApart /\ Init => Inv
  BY DEF Init, LookupKeepsSlotsApart, Answered
<1>2. ASSUME QueryTypeOK, QueryTypeOK', StoreInv, ScanInv, Inv, [Next]_vars
      PROVE  Inv'
  <2> SUFFICES ASSUME phase' = "done", request'.kind = "exact", answer' # None
               PROVE  /\ answer'.service = request'.service
                      /\ answer'.environment = request'.environment
    BY <1>2 DEF LookupKeepsSlotsApart, Answered, NamesKeepApart
  <2>1. CASE phase = "done"
    <3>1. UNCHANGED <<phase, request, answer>>
      <4>1. ~StoreStep
        BY <2>1 DEF StoreStep
      <4> QED BY <1>2, <2>1, <4>1, Steps DEF RequestStep, Ask, Scan, ReadKey, Get, Collect,
            NextCursor, ScanEnds, StoreFails, Respond, vars
    <3> QED BY <1>2, <2>1, <3>1 DEF LookupKeepsSlotsApart, Answered
  <2>2. CASE Get
    <3> DEFINE r == request
               k == Key(r.service, r.environment)
               d == stored[k]
    <3>1. answer' = d /\ request' = r /\ phase = "get" /\ r \in Requests /\ r.kind = "exact"
      BY <1>2, <2>2 DEF Get, QueryTypeOK, ScanInv
    <3> DEFINE u == [service |-> r.service, environment |-> r.environment]
               v == [service |-> d.service, environment |-> d.environment]
    <3>2. u \in Slots /\ u.service = r.service /\ u.environment = r.environment
      BY <3>1, QueriesAssumption
    <3>3. k = Key(u.service, u.environment) /\ k \in Keys
      <4>1. Key(u.service, u.environment) \in Keys
        BY <3>2 DEF Keys
      <4> QED BY <3>2, <4>1
    <3>4. d \in Deployments /\ k = Key(d.service, d.environment)
      BY <1>2, <3>1, <3>3, Holdings DEF StoreInv
    <3>5. v \in Slots /\ k = Key(v.service, v.environment)
      BY <3>4, Shapes
    <3>6. u = v
      BY <1>2, <3>2, <3>3, <3>5, KeysKeepApart
    <3>7. u.service = v.service /\ u.environment = v.environment
      BY <3>6
    <3> QED BY <3>1, <3>7
  <2>3. Get \/ phase = "done"
    <3>1. ~StoreStep
      BY DEF StoreStep
    <3>2. Get \/ Collect \/ ScanEnds \/ phase = "done"
      BY <1>2, <3>1, Steps DEF RequestStep, Ask, Scan, ReadKey, NextCursor, StoreFails,
            Respond, vars
    <3>3. ~Collect /\ ~ScanEnds
      BY <1>2 DEF Collect, ScanEnds, QueryTypeOK, ScanInv
    <3> QED BY <3>2, <3>3
  <2> QED BY <2>1, <2>2, <2>3
<1> QED BY <1>1, <1>2, QueryTypeOKHolds, StoreInvHolds, ScanInvHolds, PTL DEF Spec
-----------------------------------------------------------------------------
\* In whatever order, SetToSeq lists every member of a finite set.
LEMMA Listed ==
    ASSUME NEW S, IsFiniteSet(S)
    PROVE  SetToSeq(S) \in Seq(S) /\ ToSet(SetToSeq(S)) = S
<1> DEFINE n == Cardinality(S)
           s == SetToSeq(S)
<1>1. n \in Nat /\ \E f \in [1..n -> S] : IsInjective(f)
  BY FS_CardinalityType DEF ExistsBijection, Bijection, Injection, IsInjective
<1>2. s \in [1..n -> S] /\ IsInjective(s)
  BY <1>1 DEF SetToSeq
<1>3. IsFiniteSet(1..n) /\ Cardinality(1..n) = n
  BY <1>1, FS_Interval
<1>4. s \in Surjection(1..n, S)
  <2>1. s \in Injection(1..n, S)
    BY <1>2 DEF Injection, IsInjective
  <2> HIDE DEF s
  <2> QED BY <1>3, <2>1, FS_Injection
<1> HIDE DEF s
<1>5. ToSet(s) = S
  BY <1>2, <1>4 DEF Surjection, ToSet
<1>6. s \in Seq(S)
  <2> HIDE DEF n
  <2> QED BY <1>1, <1>2
<1> QED BY <1>5, <1>6 DEF s

LEMMA Limits ==
    ASSUME NEW r \in Requests
    PROVE  /\ Limit(r) \in 1..MaxLimit /\ MaxLimit \in Nat
           /\ r.limit # 0 => Limit(r) =< r.limit
           /\ r.limit \in Nat /\ r.since \in Nat
<1>1. r.limit \in Nat /\ r.since \in Nat
  BY QueriesAssumption
<1>2. MaxLimit \in Nat /\ DefaultLimit \in 1..MaxLimit
  BY QueriesAssumption
<1> QED BY <1>1, <1>2 DEF Limit

\* Sorting lists what is at the places, each once, and nothing ahead of a newer one.
LEMMA NewestFirstSorts ==
    ASSUME NEW ds \in Seq(Deployments), NEW places \in SUBSET (1..Len(ds))
    PROVE  LET s == NewestFirst(ds, places) IN
           /\ s \in Seq(Deployments)
           /\ \A i \in 1..Len(s) : \E p \in places : s[i] = ds[p]
           /\ \A p \in places : \E i \in 1..Len(s) : s[i] = ds[p]
           /\ \A i, j \in 1..Len(s) : i < j => ~Newer(s[j], s[i])
<1> DEFINE first(p) == \/ Newer(ds[p[1]], ds[p[2]])
                       \/ ds[p[1]] = ds[p[2]] /\ p[1] < p[2]
           before == {p \in places \X places : first(p)}
           order == InOrder(places, before)
           n == Cardinality(places)
           s == [i \in DOMAIN order |-> ds[order[i]]]
<1>a. Len(ds) \in Nat /\ \A p \in 1..Len(ds) : p \in Nat /\ ds[p] \in Deployments
  BY ElementOfSeq, LenProperties
<1>1. \A p \in places : p \in Nat /\ ds[p] \in Deployments
  BY <1>a
<1>2. \A p, q \in places : <<p, q>> \in before <=>
        Newer(ds[p], ds[q]) \/ (ds[p] = ds[q] /\ p < q)
  OBVIOUS
<1>3. IsTotal(places, before)
  <2> HIDE DEF before
  <2>1. \A x \in places : <<x, x>> \notin before
    BY <1>1, <1>2, NewerIsTotal
  <2>2. \A x, y \in places : x # y => <<x, y>> \in before \/ <<y, x>> \in before
    BY <1>1, <1>2, NewerIsTotal
  <2>3. \A x, y, z \in places : <<x, y>> \in before /\ <<y, z>> \in before => <<x, z>> \in before
    <3> SUFFICES ASSUME NEW x \in places, NEW y \in places, NEW z \in places,
                        <<x, y>> \in before, <<y, z>> \in before
                 PROVE  <<x, z>> \in before
      OBVIOUS
    <3>1. CASE Newer(ds[x], ds[y]) /\ Newer(ds[y], ds[z])
      BY <1>1, <1>2, <3>1, NewerIsTotal
    <3>2. CASE ds[x] = ds[y] \/ ds[y] = ds[z]
      <4>1. x \in Nat /\ y \in Nat /\ z \in Nat
        BY <1>1
      <4> QED BY <1>2, <3>2, <4>1
    <3> QED BY <1>2, <3>1, <3>2
  <2> QED BY <2>1, <2>2, <2>3 DEF IsTotal
<1>4. IsFiniteSet(places)
  <2>1. IsFiniteSet(1..Len(ds))
    BY <1>a, FS_Interval
  <2> QED BY <2>1, FS_Subset
<1>5. /\ n \in Nat /\ order \in [1..n -> places]
      /\ \A p \in places : \E i \in 1..n : order[i] = p
      /\ \A i, j \in 1..n : i < j => <<order[i], order[j]>> \in before
  <2> HIDE DEF before
  <2> QED BY <1>3, <1>4, InOrderSorts
<1> HIDE DEF before, order, n
<1>6. /\ s \in [1..n -> Deployments] /\ s \in Seq(Deployments) /\ Len(s) = n
      /\ \A i \in 1..n : s[i] = ds[order[i]]
  <2>1. DOMAIN order = 1..n /\ \A i \in 1..n : ds[order[i]] \in Deployments
    BY <1>1, <1>5
  <2>2. s \in [1..n -> Deployments] /\ \A i \in 1..n : s[i] = ds[order[i]]
    BY <2>1
  <2> HIDE DEF s
  <2>3. s \in Seq(Deployments) /\ Len(s) = n
    BY <1>5, <2>2
  <2> QED BY <2>2, <2>3
<1>7. \A i, j \in 1..n : i < j => ~Newer(s[j], s[i])
  <2> SUFFICES ASSUME NEW i \in 1..n, NEW j \in 1..n, i < j
               PROVE  ~Newer(ds[order[j]], ds[order[i]])
    BY <1>6
  <2>1. order[i] \in places /\ order[j] \in places /\ <<order[i], order[j]>> \in before
    BY <1>5
  <2>2. \/ Newer(ds[order[i]], ds[order[j]])
        \/ ds[order[i]] = ds[order[j]]
    BY <1>2, <2>1
  <2>3. ds[order[i]] \in Deployments /\ ds[order[j]] \in Deployments
    BY <1>1, <2>1
  <2> QED BY <2>2, <2>3, NewerIsTotal
<1>8. NewestFirst(ds, places) = s
  BY DEF NewestFirst, order, before
<1>9. \A i \in 1..n : \E p \in places : s[i] = ds[p]
  BY <1>5, <1>6
<1>10. \A p \in places : \E i \in 1..n : s[i] = ds[p]
  BY <1>5, <1>6
<1> HIDE DEF s
<1> QED BY <1>6, <1>7, <1>8, <1>9, <1>10

\* latestDeployment sorts and takes the first (interface.go:89): that is their Latest.
THEOREM LatestIsHead ==
    ASSUME NEW ds \in Seq(Deployments), ds # <<>>
    PROVE  NewestFirst(ds, 1..Len(ds))[1] = Latest(ToSet(ds))
<1> DEFINE places == 1..Len(ds)
           s == NewestFirst(ds, places)
           latest == Latest(ToSet(ds))
<1>1. Len(ds) \in Nat /\ 1 \in places /\ \A p \in places : ds[p] \in Deployments
  BY ElementOfSeq, LenProperties, EmptySeq
<1>2. ToSet(ds) = {ds[p] : p \in places}
  BY <1>1 DEF ToSet
<1>3. /\ s \in Seq(Deployments)
      /\ \A i \in 1..Len(s) : \E p \in places : s[i] = ds[p]
      /\ \A p \in places : \E i \in 1..Len(s) : s[i] = ds[p]
      /\ \A i, j \in 1..Len(s) : i < j => ~Newer(s[j], s[i])
  BY NewestFirstSorts
<1>4. latest \in ToSet(ds) /\ \A e \in ToSet(ds) : ~Newer(e, latest)
  <2>1. ToSet(ds) \in SUBSET Deployments /\ ToSet(ds) # {}
    BY <1>1, <1>2
  <2> QED BY <2>1, LatestIsNewest
<1> HIDE DEF s, places, latest
<1>5. PICK n \in 1..Len(s) : s[n] = latest
  BY <1>2, <1>3, <1>4
<1>6. Len(s) \in Nat /\ 1 \in 1..Len(s)
  BY <1>3, <1>5, LenProperties
<1>7. s[1] \in ToSet(ds)
  BY <1>2, <1>3, <1>6
<1>8. s[1] = latest
  <2>1. s[1] \in Deployments /\ latest \in Deployments
    BY <1>1, <1>2, <1>4, <1>7
  <2>2. ~Newer(latest, s[1])
    <3>1. CASE n = 1
      BY <1>5, <2>1, <3>1, NewerIsTotal
    <3>2. CASE n # 1
      BY <1>3, <1>5, <1>6, <3>2
    <3> QED BY <3>1, <3>2
  <2>3. ~Newer(s[1], latest)
    BY <1>4, <1>7
  <2> QED BY <2>1, <2>2, <2>3, NewerIsTotal
<1> QED BY <1>8 DEF s, places, latest

\* What a list keeps of the deployments it is made from.
LEMMA FilterKeeps ==
    ASSUME NEW ds \in Seq(Deployments), NEW r \in Requests
    PROVE  LET a == ApplyFilter(ds, r) IN
           /\ a \in Seq(Deployments) /\ Len(a) \in Nat /\ Len(a) =< Limit(r)
           /\ \A i, j \in 1..Len(a) : i < j => ~Newer(a[j], a[i])
           /\ \A d \in ToSet(a) : d \in ToSet(ds) /\ Matches(d, r)
           /\ \A d \in ToSet(ds) : Matches(d, r) =>
                \/ d \in ToSet(a)
                \/ Len(a) = Limit(r) /\ \A e \in ToSet(a) : ~Newer(d, e)
<1> DEFINE s == NewestFirst(ds, Passing(ds, r))
           l == Limit(r)
           a == Truncated(s, l)
<1>1. /\ s \in Seq(Deployments)
      /\ \A i \in 1..Len(s) : \E p \in Passing(ds, r) : s[i] = ds[p]
      /\ \A p \in Passing(ds, r) : \E i \in 1..Len(s) : s[i] = ds[p]
      /\ \A i, j \in 1..Len(s) : i < j => ~Newer(s[j], s[i])
  BY NewestFirstSorts DEF Passing
<1>2. l \in Nat /\ l >= 1 /\ Len(s) \in Nat /\ DOMAIN s = 1..Len(s)
      /\ DOMAIN ds = 1..Len(ds)
  BY <1>1, Limits, LenProperties
<1>3. ApplyFilter(ds, r) = a
  BY DEF ApplyFilter
<1> HIDE DEF s, l
<1>4. /\ a \in Seq(Deployments) /\ Len(a) = (IF Len(s) > l THEN l ELSE Len(s))
      /\ \A i \in 1..Len(a) : a[i] = s[i]
  <2>1. CASE Len(s) > l
    <3>1. \A i \in 1..l : s[i] \in Deployments
      BY <1>1, <1>2, <2>1, ElementOfSeq
    <3>2. /\ SubSeq(s, 1, l) \in Seq(Deployments) /\ Len(SubSeq(s, 1, l)) = l - 1 + 1
          /\ \A i \in 1..l - 1 + 1 : SubSeq(s, 1, l)[i] = s[1 + i - 1]
      BY <1>2, <3>1, SubSeqProperties
    <3>3. a = SubSeq(s, 1, l) /\ l - 1 + 1 = l /\ \A i \in 1..l : 1 + i - 1 = i
      BY <1>2, <2>1 DEF Truncated
    <3> HIDE DEF a
    <3> QED BY <2>1, <3>2, <3>3
  <2>2. CASE ~(Len(s) > l)
    BY <1>1, <1>2, <2>2 DEF Truncated
  <2> QED BY <2>1, <2>2
<1> HIDE DEF a
<1>5. DOMAIN a = 1..Len(a) /\ 1..Len(a) \subseteq 1..Len(s) /\ Len(a) \in Nat /\ Len(a) =< l
  BY <1>2, <1>4, LenProperties
<1>6. \A i, j \in 1..Len(a) : i < j => ~Newer(a[j], a[i])
  BY <1>1, <1>4, <1>5
<1>7. ASSUME NEW d \in ToSet(a) PROVE d \in ToSet(ds) /\ Matches(d, r)
  <2>1. PICK i \in 1..Len(a) : d = a[i]
    BY <1>5 DEF ToSet
  <2>2. PICK p \in Passing(ds, r) : d = ds[p]
    BY <1>1, <1>4, <1>5, <2>1
  <2> QED BY <1>2, <2>2 DEF Passing, ToSet
<1>8. ASSUME NEW d \in ToSet(ds), Matches(d, r), d \notin ToSet(a)
      PROVE  Len(a) = l /\ \A e \in ToSet(a) : ~Newer(d, e)
  <2>1. PICK p \in 1..Len(ds) : d = ds[p]
    BY <1>2 DEF ToSet
  <2>2. p \in Passing(ds, r)
    BY <1>8, <2>1 DEF Passing
  <2>3. PICK j \in 1..Len(s) : s[j] = d
    BY <1>1, <2>1, <2>2
  <2>4. j \notin 1..Len(a)
    BY <1>4, <1>5, <1>8, <2>3 DEF ToSet
  <2>5. Len(a) = l /\ \A i \in 1..Len(a) : i < j
    <3>1. Len(a) # Len(s)
      BY <2>3, <2>4
    <3>2. Len(a) = l
      BY <1>4, <3>1
    <3>3. j \in Nat /\ Len(a) \in Nat /\ Len(a) < j
      BY <1>2, <1>5, <2>3, <2>4
    <3> QED BY <3>2, <3>3
  <2>6. ASSUME NEW e \in ToSet(a) PROVE ~Newer(d, e)
    <3>1. PICK i \in 1..Len(a) : e = a[i]
      BY <1>5 DEF ToSet
    <3>2. i \in 1..Len(s) /\ e = s[i] /\ i < j
      BY <1>4, <1>5, <2>5, <3>1
    <3> QED BY <1>1, <2>3, <3>2
  <2> QED BY <2>5, <2>6
<1> QED BY <1>3, <1>4, <1>5, <1>6, <1>7, <1>8 DEF l

\* The store holds finitely many deployments.
FiniteInv == IsFiniteSet(Kept(stored))

LEMMA FiniteInvHolds == Spec => []FiniteInv
<1>1. ASSUME Init PROVE FiniteInv
  <2>1. Kept(stored) = {}
    BY <1>1 DEF Init, Kept, Used
  <2> QED BY <2>1, FS_EmptySet DEF FiniteInv
<1>2. ASSUME QueryTypeOK, FiniteInv, [Next]_vars PROVE FiniteInv'
  <2>1. Kept(stored)' = Kept(stored')
    BY <1>2, SetupStays, StoreInPlace
  <2>2. ASSUME NEW d \in Deployments, Saves(d) PROVE IsFiniteSet(Kept(stored'))
    <3>1. IsFiniteSet(Kept(stored) \union {d})
      BY <1>2, FS_AddElement DEF FiniteInv
    <3>2. Kept(stored') \in SUBSET (Kept(stored) \union {d})
      BY <2>2, KeptAfter
    <3> QED BY <3>1, <3>2, FS_Subset
  <2>3. ASSUME NEW k \in Keys, Lapses(k) PROVE IsFiniteSet(Kept(stored'))
    <3>1. Kept(stored') \in SUBSET Kept(stored)
      BY <2>3 DEF Lapses, Kept, Used
    <3> QED BY <1>2, <3>1, FS_Subset DEF FiniteInv
  <2>4. CASE stored' = stored
    BY <1>2, <2>1, <2>4 DEF FiniteInv
  <2> QED BY <1>2, <2>1, <2>2, <2>3, <2>4, Steps DEF StoreStep, FiniteInv
<1> QED BY <1>1, <1>2, QueryTypeOKHolds, PTL DEF Spec

\* What is listed, when the answer is a list: the whole of the map, or what
\* the scan has found, which is among it all that was there throughout.
LEMMA ListIsGiven ==
    ASSUME QueryTypeOK, StoreInv, HistoryInv, ScanInv, FiniteInv, [Next]_vars,
           phase' = "done", request'.kind = "list", phase # "done"
    PROVE  /\ UNCHANGED <<request, historyVars>> /\ request \in Requests
           /\ \E ds \in Seq(Deployments) :
                /\ answer' = ApplyFilter(ds, request)
                /\ steady \subseteq ToSet(ds) /\ ToSet(ds) \subseteq present
<1>1. ~StoreStep
  BY DEF StoreStep
<1>2. Get \/ Collect \/ ScanEnds
  BY <1>1, Steps DEF RequestStep, Ask, Scan, ReadKey, NextCursor, StoreFails, Respond, vars
<1>3. UNCHANGED <<stored, request, historyVars>> /\ phase # "idle" /\ request.kind = "list"
  BY <1>2 DEF Get, Collect, ScanEnds
<1>4. ~Get
  BY <1>3 DEF Get, ScanInv
<1>5. CASE Collect
  <2> DEFINE ds == SetToSeq(Kept(stored))
  <2>1. /\ answer' = ApplyFilter(ds, request)
        /\ ds \in Seq(Kept(stored)) /\ ToSet(ds) = Kept(stored)
    BY <1>3, <1>5, Listed DEF Collect, FiniteInv
  <2> HIDE DEF ds
  <2>2. ds \in Seq(Deployments)
    BY <2>1, Holdings, SeqMonotonic
  <2> QED BY <1>3, <2>1, <2>2 DEF HistoryInv, QueryTypeOK
<1>6. CASE ScanEnds
  <2>1. /\ phase = "read" /\ ~more /\ batch = {}
        /\ answer' = ApplyFilter(found, request)
    BY <1>3, <1>6 DEF ScanEnds
  <2>2. \A k : Pattern(request, k)
    BY <1>3 DEF Pattern
  <2>3. steady \subseteq ToSet(found)
    BY <2>1, <2>2 DEF ScanInv
  <2> QED BY <1>3, <2>1, <2>3 DEF HistoryInv, QueryTypeOK
<1> QED BY <1>2, <1>3, <1>4, <1>5, <1>6

LEMMA ListsHeld == Spec => [](ListKeepsSteady /\ ListIsSound)
<1> DEFINE Inv == ListKeepsSteady /\ ListIsSound
<1>1. Init => Inv
  BY DEF Init, ListKeepsSteady, ListIsSound, Answered
<1>2. ASSUME QueryTypeOK, StoreInv, HistoryInv, ScanInv, FiniteInv, Inv, [Next]_vars
      PROVE  Inv'
  <2>1. CASE phase' = "done" /\ request'.kind = "list" /\ phase # "done"
    <3>1. /\ UNCHANGED <<request, steady, present>> /\ request \in Requests
          /\ \E ds \in Seq(Deployments) :
               /\ answer' = ApplyFilter(ds, request)
               /\ steady \subseteq ToSet(ds) /\ ToSet(ds) \subseteq present
      BY <1>2, <2>1, ListIsGiven DEF historyVars, seenVars
    <3>2. PICK ds \in Seq(Deployments) :
               /\ answer' = ApplyFilter(ds, request)
               /\ steady \subseteq ToSet(ds) /\ ToSet(ds) \subseteq present
      BY <3>1
    <3> DEFINE a == ApplyFilter(ds, request)
    <3>3. /\ a \in Seq(Deployments) /\ Len(a) \in Nat /\ Len(a) =< Limit(request)
          /\ \A i, j \in 1..Len(a) : i < j => ~Newer(a[j], a[i])
          /\ \A d \in ToSet(a) : d \in ToSet(ds) /\ Matches(d, request)
          /\ \A d \in ToSet(ds) : Matches(d, request) =>
               \/ d \in ToSet(a)
               \/ Len(a) = Limit(request) /\ \A e \in ToSet(a) : ~Newer(d, e)
      BY <3>1, FilterKeeps
    <3>4. /\ Limit(request) \in 1..MaxLimit /\ MaxLimit \in Nat
          /\ request.limit # 0 => Limit(request) =< request.limit
          /\ request.limit \in Nat /\ request.since \in Nat
      BY <3>1, Limits
    <3>5. answer' = a
      BY <3>2
    <3> HIDE DEF a
    <3>6. ListKeepsSteady'
      <4> SUFFICES ASSUME NEW d \in steady, Matches(d, request), d \notin ToSet(a)
                   PROVE  /\ Len(a) = Limit(request)
                          /\ \A e \in ToSet(a) : Newer(e, d)
        BY <3>1, <3>5 DEF ListKeepsSteady, Matches, Limit, ToSet, Newer
      <4>1. Len(a) = Limit(request) /\ \A e \in ToSet(a) : ~Newer(d, e)
        BY <3>2, <3>3
      <4>2. ASSUME NEW e \in ToSet(a) PROVE Newer(e, d)
        <5>1. e # d /\ e \in Deployments /\ d \in Deployments
          BY <1>2, <3>2, <3>3, <4>2 DEF HistoryInv
        <5> QED BY <4>1, <5>1, NewerIsTotal
      <4> QED BY <4>1, <4>2
    <3>7. ListIsSound'
      <4>1. Len(a) =< MaxLimit /\ (request.limit # 0 => Len(a) =< request.limit)
        BY <3>3, <3>4
      <4>2. ASSUME NEW i \in 2..Len(a) PROVE a[i].at =< a[i - 1].at
        <5>1. i \in 1..Len(a) /\ i - 1 \in 1..Len(a) /\ i - 1 < i
          BY <3>3
        <5>2. a[i] \in Deployments /\ a[i - 1] \in Deployments
          BY <3>3, <5>1, ElementOfSeq
        <5>3. ~Newer(a[i], a[i - 1])
          BY <3>3, <5>1
        <5>4. a[i] = a[i - 1] \/ Newer(a[i - 1], a[i])
          BY <5>2, <5>3, NewerIsTotal
        <5>5. a[i].at \in Nat
          BY <5>2, Shapes
        <5> QED BY <5>2, <5>4, <5>5, NewerIsTotal
      <4>3. ASSUME NEW d \in ToSet(a)
            PROVE  /\ d \in present
                   /\ request.environment \in {None, d.environment}
                   /\ d.at >= request.since
        <5>1. d \in present /\ Matches(d, request)
          BY <3>2, <3>3
        <5>2. d.at \in Nat
          BY <1>2, <5>1, Shapes DEF HistoryInv
        <5> QED BY <3>4, <5>1, <5>2 DEF Matches
      <4> QED BY <3>1, <3>5, <4>1, <4>2, <4>3 DEF ListIsSound, ToSet
    <3> QED BY <3>6, <3>7
  <2>2. CASE phase = "done" /\ phase' = "done"
    <3>1. ~StoreStep
      BY <2>2 DEF StoreStep
    <3>2. UNCHANGED <<phase, request, answer, historyVars>>
      BY <1>2, <2>2, <3>1, Steps DEF RequestStep, Ask, Scan, ReadKey, Get, Collect,
            NextCursor, ScanEnds, StoreFails, Respond, vars, historyVars, seenVars
    <3> QED BY <1>2, <2>2, <3>2 DEF ListKeepsSteady, ListIsSound, Answered, Matches, Limit,
               ToSet, Newer, historyVars, seenVars
  <2>3. CASE ~(phase' = "done" /\ request'.kind = "list")
    BY <2>3 DEF ListKeepsSteady, ListIsSound, Answered
  <2> QED BY <2>1, <2>2, <2>3
<1> QED BY <1>1, <1>2, QueryTypeOKHolds, StoreInvHolds, HistoryInvHolds, ScanInvHolds,
           FiniteInvHolds, PTL DEF Spec

\* However the replies to SCAN, the deployments and the expiries interleave, a
\* list has every deployment that was there throughout and passes its filter,
\* unless its limit is used up by newer ones.
THEOREM ListsKeepSteady == Spec => []ListKeepsSteady
BY ListsHeld, PTL

\* A list is sorted and bounded, and holds only what passes its filter and was
\* in place at some instant of the request.
THEOREM ListsAreSound == Spec => []ListIsSound
BY ListsHeld, PTL
=============================================================================
