------------------------------- MODULE ApiProofs -------------------------------
(***************************************************************************)
(* For any inputs, lookups, histories and names: what an application is    *)
(* told was so during its call, the counters tell what storage holds, and  *)
(* what storage holds of an event is what the event says: its kind, names, *)
(* metadata, summary and links, wherever a producer put them.              *)
(***************************************************************************)
EXTENDS ApiRequests, OrderingProofs, SequenceTheorems, TLAPS

\* The call is a record of its six fields.
CallShape(c) ==
    c = [phase |-> c.phase, via |-> c.via, service |-> c.service,
         environment |-> c.environment, status |-> c.status, reply |-> c.reply]

\* The calls of AnswerWasTrue.
Literal(c) == c.via = "direct" \/ Routed(c.service) = c.service

\* What AnswerWasTrue says of an answer.
IsTrue(d) ==
    IF d = NotFound THEN AskedForNone
    ELSE /\ d \in present
         /\ Asked(d.service, d.environment)
         /\ \A o \in steady : Asked(o.service, o.environment) => o.deployedAt <= d.deployedAt

Promised(d) == Literal(call) /\ ~Ambiguous => IsTrue(d)

\* Storage holds deployments, one under each key.
StoreInv ==
    /\ \A d \in deployments : d # NotFound /\ d.deployedAt \in Nat
    /\ \A d, o \in deployments : Key(d) = Key(o) => d = o

\* The histories enclose what is stored for as long as the call is under way.
HistoryInv ==
    call.phase \in {"sent", "looking", "served"} =>
      /\ deployments \subseteq present /\ NotFound \notin present
      /\ steady \subseteq deployments /\ held \subseteq Slots(deployments)

\* Of what stays all through a scan, its key is still to be returned or has
\* been read.
ScanInv ==
    IF call.phase # "looking" THEN found = {} ELSE
      /\ call.environment = ""
      /\ \A d \in found : d \in present /\ d.service = Target
      /\ \A d \in steady : d.service = Target => Key(d) \in owed \/ d \in found
      /\ \A slot \in held : slot[1] = Target =>
           KeyOf(slot[1], slot[2]) \in owed \/ found # {}

\* What the server answered, and what the client made of it.
AnswerInv ==
    /\ call.phase = "served" =>
         /\ call.via = "http"
         /\ call.status = 200 => Promised(call.reply)
         /\ call.status = 404 => Promised(NotFound)
    /\ call.phase = "done" /\ call.reply # Failure => Promised(call.reply)

CallInv == CallShape(call) /\ StoreInv /\ HistoryInv /\ ScanInv /\ AnswerInv

\* Only what is in place can be in place all the time, and what was true stays
\* so while the histories of a call go on.
LEMMA PromiseStays ==
    ASSUME NEW d, Promised(d), call' = call,
           present \subseteq present', steady' \subseteq steady, held' \subseteq held
    PROVE  Promised(d)'
<1> SUFFICES ASSUME Literal(call), ~Ambiguous' PROVE IsTrue(d)'
  BY DEF Promised, Literal, Routed
<1>1. ~Ambiguous
  BY DEF Ambiguous, Key, Slot
<1>2. IsTrue(d)
  BY <1>1 DEF Promised
<1> QED BY <1>2 DEF IsTrue, AskedForNone, Asked

\* A save or an expiry changes the store, and the histories of a call with it.
LEMMA StoreChangeKeepsCall ==
    ASSUME CallInv, StoreInv', Observe, UNCHANGED <<call, found>>
    PROVE  CallInv'
<1>1. CASE call.phase \in {"sent", "looking", "served"}
  <2>1. /\ owed' = owed \cap Keys(deployments') /\ present' = present \cup deployments'
        /\ steady' = steady \cap deployments' /\ held' = held \cap Slots(deployments')
    BY <1>1 DEF Observe
  <2>2. HistoryInv'
    <3>1. NotFound \notin deployments'
      BY DEF StoreInv
    <3> QED BY <1>1, <2>1, <3>1 DEF CallInv, HistoryInv, Slots
  <2>3. ScanInv'
    <3> SUFFICES ASSUME call.phase = "looking" PROVE ScanInv'
      BY DEF CallInv, ScanInv
    <3>1. Target' = Target
      BY DEF Target, Routed
    <3>2. ASSUME NEW d \in steady', d.service = Target PROVE Key(d) \in owed' \/ d \in found
      BY <2>1, <3>2 DEF CallInv, ScanInv, Keys
    <3>3. ASSUME NEW slot \in held', slot[1] = Target
          PROVE  KeyOf(slot[1], slot[2]) \in owed' \/ found # {}
      <4>1. PICK d \in deployments' : slot = Slot(d)
        BY <2>1 DEF Slots
      <4>2. KeyOf(slot[1], slot[2]) \in Keys(deployments')
        BY <4>1 DEF Slot, Keys, Key
      <4> QED BY <2>1, <3>3, <4>2 DEF CallInv, ScanInv
    <3>4. \A d \in found : d \in present' /\ d.service = Target
      BY <2>1 DEF CallInv, ScanInv
    <3>5. call.environment = ""
      BY DEF CallInv, ScanInv
    <3> QED BY <3>1, <3>2, <3>3, <3>4, <3>5 DEF ScanInv, Key
  <2>4. AnswerInv'
    BY <1>1, <2>1, PromiseStays DEF CallInv, AnswerInv
  <2> QED BY <2>2, <2>3, <2>4 DEF CallInv, CallShape
<1>2. CASE call.phase \notin {"sent", "looking", "served"}
  <2>1. UNCHANGED historyVars
    BY <1>2 DEF Observe
  <2>2. AnswerInv'
    BY <1>2, <2>1, PromiseStays DEF CallInv, AnswerInv, historyVars
  <2> QED BY <1>2, <2>2 DEF CallInv, CallShape, HistoryInv, ScanInv
<1> QED BY <1>1, <1>2

LEMMA SavedKeepsCall ==
    ASSUME CallInv, NEW d, d # NotFound, d.deployedAt \in Nat, Saved(d)
    PROVE  CallInv'
<1>1. StoreInv'
  <2>1. deployments' = {o \in deployments : Key(o) # Key(d)} \cup {d}
    BY DEF Saved
  <2>2. \A o \in deployments' : o # NotFound /\ o.deployedAt \in Nat
    BY <2>1 DEF CallInv, StoreInv
  <2>3. \A o, p \in deployments' : Key(o) = Key(p) => o = p
    BY <2>1 DEF CallInv, StoreInv
  <2> QED BY <2>2, <2>3 DEF StoreInv, Key
<1> QED BY <1>1, StoreChangeKeepsCall DEF Saved

\* An action of the server that leaves what is stored alone.
LEMMA PostKeepsCall ==
    ASSUME CallInv, UNCHANGED storeVars
    PROVE  CallInv'
<1>1. AnswerInv'
  BY PromiseStays DEF CallInv, AnswerInv, storeVars, historyVars
<1>2. Target' = Target
  BY DEF Target, Routed, storeVars
<1> QED BY <1>1, <1>2
    DEF CallInv, CallShape, StoreInv, HistoryInv, ScanInv, storeVars, scanVars, historyVars,
        Key, Slots, Slot

\* An answer of storage is true of the call, unless it was asked for another
\* name or its key is shared.
LEMMA LookedIsTrue ==
    ASSUME CallInv, NEW d, Looked(d)
    PROVE  Promised(d)
<1> SUFFICES ASSUME Literal(call), ~Ambiguous PROVE IsTrue(d)
  BY DEF Promised
<1>0. Target = call.service
  BY DEF Target, Literal
<1>1. CASE call.phase = "looking" /\ owed = {} /\ found = {} /\ d = NotFound
  <2>1. \A slot \in held : slot[1] # Target
    BY <1>1 DEF CallInv, ScanInv
  <2> QED BY <1>0, <1>1, <2>1 DEF IsTrue, AskedForNone, Asked
<1>2. CASE /\ call.phase = "looking" /\ owed = {}
           /\ d \in found /\ \A o \in found : o.deployedAt <= d.deployedAt
  <2>1. d \in present /\ d.service = Target /\ call.environment = ""
    BY <1>2 DEF CallInv, ScanInv
  <2>2. d # NotFound
    BY <1>2, <2>1 DEF CallInv, HistoryInv
  <2>3. \A o \in steady : o.service = Target => o \in found
    BY <1>2 DEF CallInv, ScanInv
  <2> QED BY <1>0, <1>2, <2>1, <2>2, <2>3 DEF IsTrue, Asked
<1>3. CASE /\ call.phase = "sent" /\ call.environment # ""
           /\ KeyOf(Target, call.environment) \notin Keys(deployments) /\ d = NotFound
  <2>1. ASSUME NEW slot \in held, Asked(slot[1], slot[2]) PROVE FALSE
    <3>1. PICK o \in deployments : slot = Slot(o)
      BY <1>3 DEF CallInv, HistoryInv, Slots
    <3>2. slot[1] = Target /\ slot[2] = call.environment
      BY <1>0, <1>3, <2>1 DEF Asked
    <3>3. Key(o) = KeyOf(Target, call.environment)
      BY <3>1, <3>2 DEF Slot, Key
    <3> QED BY <1>3, <3>3 DEF Keys
  <2> QED BY <1>3, <2>1 DEF IsTrue, AskedForNone
<1>4. CASE /\ call.phase = "sent" /\ call.environment # ""
           /\ d \in deployments /\ Key(d) = KeyOf(Target, call.environment)
  <2>1. d \in present /\ d # NotFound /\ d.deployedAt \in Nat
    BY <1>4 DEF CallInv, HistoryInv, StoreInv
  <2>2. d.service = call.service /\ d.environment = call.environment
    <3>1. Slot(d) = <<call.service, call.environment>>
      BY <1>0, <1>4, <2>1 DEF Ambiguous
    <3> QED BY <3>1 DEF Slot
  <2>3. ASSUME NEW o \in steady, Asked(o.service, o.environment)
        PROVE  o = d
    <3>1. o \in deployments
      BY <1>4 DEF CallInv, HistoryInv
    <3>2. Key(o) = Key(d)
      BY <1>4, <2>2, <2>3 DEF Asked, Key
    <3> QED BY <1>4, <3>1, <3>2 DEF CallInv, StoreInv
  <2>4. \A o \in steady : Asked(o.service, o.environment) => o.deployedAt <= d.deployedAt
    BY <2>1, <2>3
  <2> QED BY <2>1, <2>2, <2>4 DEF IsTrue, Asked
<1> QED BY <1>1, <1>2, <1>3, <1>4 DEF Looked

\* The call ends with c, which is a call of the same names.
LEMMA EndKeepsCall ==
    ASSUME CallInv, NEW c, LookupEnds(c), CallShape(c), c.phase \in {"served", "done"},
           c.via = call.via, c.service = call.service, c.environment = call.environment,
           call.phase \in {"sent", "looking", "served"},
           c.phase = "served" => /\ c.via = "http"
                                 /\ c.status = 200 => Promised(c.reply)
                                 /\ c.status = 404 => Promised(NotFound),
           c.phase = "done" /\ c.reply # Failure => Promised(c.reply)
    PROVE  CallInv'
<1>1. call' = c /\ UNCHANGED <<deployments, historyVars>>
  BY DEF LookupEnds
<1>2. ASSUME NEW d, Promised(d) PROVE Promised(d)'
  BY <1>1, <1>2 DEF Promised, Literal, Routed, Ambiguous, IsTrue, AskedForNone, Asked, Key,
                    Slot, historyVars
<1>3. AnswerInv'
  BY <1>1, <1>2 DEF AnswerInv
<1>4. HistoryInv' /\ StoreInv'
  BY <1>1 DEF CallInv, HistoryInv, StoreInv, historyVars, Slots, Slot, Key
<1>5. ScanInv'
  BY <1>1 DEF ScanInv, LookupEnds
<1> QED BY <1>1, <1>3, <1>4, <1>5 DEF CallInv

LEMMA DeploymentIsRecord ==
    ASSUME event \in Inputs
    PROVE  /\ ToDeployment(event, links) # NotFound
           /\ ToDeployment(event, links).deployedAt \in Nat
<1>1. "id" \in DOMAIN ToDeployment(event, links) /\ DOMAIN NotFound = {"error"}
  BY DEF ToDeployment, NotFound
<1>2. ToDeployment(event, links).deployedAt = event.timestamp
  BY DEF ToDeployment
<1> QED BY <1>1, <1>2, ApiAssumption

LEMMA CallInvHolds == Spec => [](event \in Inputs /\ CallInv)
<1>1. Init => event \in Inputs /\ CallInv
  <2> SUFFICES ASSUME Init PROVE CallInv
    BY DEF Init
  <2>1. CallShape(call) /\ call.phase = "idle" /\ found = {}
    BY DEF Init, Idle, CallShape
  <2>2. StoreInv
    BY ApiAssumption DEF Init, StoreInv, Key
  <2> QED BY <2>1, <2>2 DEF CallInv, HistoryInv, ScanInv, AnswerInv
<1>2. ASSUME event \in Inputs /\ CallInv, [Next]_vars PROVE (event \in Inputs /\ CallInv)'
  <2>0. CallShape(call)
    BY <1>2 DEF CallInv
  <2> USE <1>2
  <2>1. CASE UNCHANGED vars
    BY <2>1, PostKeepsCall DEF vars, postVars
  <2>2. CASE RefuseBody \/ Parse \/ Refuse \/ RecordEvent \/ EventFails \/ PostPanics
    BY <2>2, PostKeepsCall
       DEF RefuseBody, Parse, Refuse, RecordEvent, EventFails, PostPanics
  <2>3. CASE RecordDeployment
    BY <2>3, SavedKeepsCall, DeploymentIsRecord DEF RecordDeployment
  <2>4. CASE DeploymentFails
    BY <2>4, SavedKeepsCall, PostKeepsCall, DeploymentIsRecord DEF DeploymentFails
  <2>5. ASSUME NEW l \in Lookups, NEW via \in {"http", "direct"}, Begin(l, via)
        PROVE  event' \in Inputs /\ CallInv'
    <3>1. /\ event' = event /\ deployments' = deployments
          /\ present' = deployments /\ steady' = deployments /\ held' = Slots(deployments)
      BY <2>5 DEF Begin, postVars
    <3>2. StoreInv' /\ NotFound \notin deployments
      BY <3>1 DEF CallInv, StoreInv, Key
    <3>3. /\ CallShape(call') /\ call'.phase \in {"sent", "done"}
          /\ call'.phase = "done" => call'.reply = Failure
      BY <2>5 DEF Begin, CallInv, CallShape
    <3>4. HistoryInv'
      BY <3>1, <3>2 DEF HistoryInv, Slots, Slot
    <3>5. found' = {}
      BY <2>5 DEF Begin, scanVars, CallInv, ScanInv
    <3> QED BY <3>1, <3>2, <3>3, <3>4, <3>5 DEF CallInv, ScanInv, AnswerInv
  <2>6. CASE StartScan
    <3>1. /\ UNCHANGED <<event, deployments, found, historyVars>>
          /\ CallShape(call') /\ call'.phase = "looking" /\ call'.environment = ""
          /\ call'.via = call.via /\ call'.service = call.service
          /\ owed' = Keys({d \in deployments : d.service = Target}) /\ call.phase = "sent"
      BY <2>6 DEF StartScan, postVars, CallInv, CallShape
    <3>2. Target' = Target /\ found' = {}
      BY <3>1 DEF Target, Routed, CallInv, ScanInv
    <3>3. HistoryInv' /\ StoreInv'
      BY <3>1 DEF CallInv, HistoryInv, StoreInv, historyVars, Slots, Slot, Key
    <3>4. \A d \in deployments : d.service = Target => Key(d) \in owed'
      BY <3>1 DEF Keys
    <3>5. \A d \in steady' : d.service = Target => Key(d) \in owed'
      BY <3>1, <3>4 DEF CallInv, HistoryInv, historyVars
    <3>6. ASSUME NEW slot \in held', slot[1] = Target PROVE KeyOf(slot[1], slot[2]) \in owed'
      <4>1. PICK d \in deployments : slot = Slot(d)
        BY <3>1 DEF CallInv, HistoryInv, historyVars, Slots
      <4>2. d.service = Target /\ Key(d) = KeyOf(slot[1], slot[2])
        BY <3>6, <4>1 DEF Slot, Key
      <4> QED BY <3>4, <4>2
    <3>7. ScanInv'
      BY <3>1, <3>2, <3>5, <3>6 DEF ScanInv, Key
    <3> QED BY <3>1, <3>3, <3>7 DEF CallInv, AnswerInv
  <2>7. ASSUME NEW k, ReadKey(k) PROVE event' \in Inputs /\ CallInv'
    <3>1. /\ UNCHANGED <<event, deployments, call, historyVars>>
          /\ call.phase = "looking" /\ owed' = owed \ {k}
          /\ found' = found \cup {d \in deployments : Key(d) = k /\ d.service = Target}
      BY <2>7 DEF ReadKey, postVars
    <3>2. Target' = Target
      BY <3>1 DEF Target, Routed
    <3>3. HistoryInv' /\ StoreInv' /\ AnswerInv'
      BY <3>1 DEF CallInv, HistoryInv, StoreInv, AnswerInv, historyVars, Slots, Slot, Key
    <3>4. /\ deployments \subseteq present /\ steady \subseteq deployments
          /\ held \subseteq Slots(deployments)
      BY <3>1 DEF CallInv, HistoryInv
    <3>5. ASSUME NEW d \in steady, d.service = Target PROVE Key(d) \in owed' \/ d \in found'
      BY <3>1, <3>4, <3>5 DEF CallInv, ScanInv
    <3>6. ASSUME NEW slot \in held, slot[1] = Target
          PROVE  KeyOf(slot[1], slot[2]) \in owed' \/ found' # {}
      <4>1. PICK d \in deployments : slot = Slot(d)
        BY <3>4 DEF Slots
      <4>2. d.service = Target /\ Key(d) = KeyOf(slot[1], slot[2])
        BY <3>6, <4>1 DEF Slot, Key
      <4>3. KeyOf(slot[1], slot[2]) \in owed \/ found # {}
        BY <3>1, <3>6 DEF CallInv, ScanInv
      <4> QED BY <3>1, <4>2, <4>3
    <3>7. \A d \in found' : d \in present /\ d.service = Target
      BY <3>1, <3>4 DEF CallInv, ScanInv
    <3>8. ScanInv'
      BY <3>1, <3>2, <3>5, <3>6, <3>7 DEF CallInv, ScanInv, historyVars, Key
    <3> QED BY <3>1, <3>3, <3>8 DEF CallInv, CallShape
  <2>8. ASSUME NEW d, HandleGetDeployment(d) PROVE event' \in Inputs /\ CallInv'
    <3>0. PICK c : c = [call EXCEPT !.phase = "served", !.reply = d,
                                    !.status = IF d = NotFound THEN 404 ELSE 200]
      OBVIOUS
    <3>1. Promised(d) /\ call.via = "http" /\ call.phase \in {"sent", "looking", "served"}
      BY <2>8, LookedIsTrue DEF HandleGetDeployment, Looked
    <3>2. /\ CallShape(c) /\ c.phase = "served" /\ c.reply = d /\ c.via = call.via
          /\ c.service = call.service /\ c.environment = call.environment
          /\ c.status = IF d = NotFound THEN 404 ELSE 200
      BY <2>0, <3>0 DEF CallShape
    <3>3. LookupEnds(c)
      BY <2>8, <3>0 DEF HandleGetDeployment
    <3>4. c.status = 404 => d = NotFound
      BY <3>2
    <3> QED BY <3>1, <3>2, <3>3, <3>4, EndKeepsCall DEF LookupEnds, postVars
  <2>9. CASE GetDeploymentFails
    <3>0. PICK c : c = [call EXCEPT !.phase = "served", !.status = 500]
      OBVIOUS
    <3>1. call.via = "http" /\ call.phase \in {"sent", "looking", "served"} /\ LookupEnds(c)
      BY <2>9, <3>0 DEF GetDeploymentFails
    <3>2. /\ CallShape(c) /\ c.phase = "served" /\ c.via = call.via
          /\ c.service = call.service /\ c.environment = call.environment
          /\ c.status = 500
      BY <2>0, <3>0 DEF CallShape
    <3>3. c.status # 200 /\ c.status # 404
      BY <3>2
    <3> QED BY <3>1, <3>2, <3>3, EndKeepsCall DEF LookupEnds, postVars
  <2>10. CASE Receive
    <3> DEFINE reply == IF call.status = 200 THEN call.reply
                        ELSE IF call.status = 404 THEN NotFound ELSE Failure
    <3>0. PICK c : c = [call EXCEPT !.phase = "done", !.reply = reply]
      OBVIOUS
    <3>1. call.phase = "served" /\ LookupEnds(c)
      BY <2>10, <3>0 DEF Receive
    <3>2. /\ CallShape(c) /\ c.phase = "done" /\ c.via = call.via /\ c.reply = reply
          /\ c.service = call.service /\ c.environment = call.environment
      BY <2>0, <3>0 DEF CallShape
    <3>3. reply # Failure => Promised(reply)
      BY <3>1 DEF CallInv, AnswerInv
    <3> HIDE DEF reply
    <3> QED BY <3>1, <3>2, <3>3, EndKeepsCall DEF LookupEnds, postVars
  <2>11. CASE Lose \/ ResolveFails
    <3>0. PICK c : c = [call EXCEPT !.phase = "done", !.reply = Failure]
      OBVIOUS
    <3>1. call.phase \in {"sent", "looking", "served"} /\ LookupEnds(c)
      BY <2>11, <3>0 DEF Lose, ResolveFails
    <3>2. /\ CallShape(c) /\ c.phase = "done" /\ c.via = call.via /\ c.reply = Failure
          /\ c.service = call.service /\ c.environment = call.environment
      BY <2>0, <3>0 DEF CallShape
    <3> QED BY <3>1, <3>2, EndKeepsCall DEF LookupEnds, postVars
  <2>12. ASSUME NEW d, ResolveFromStore(d) PROVE event' \in Inputs /\ CallInv'
    <3>0. PICK c : c = [call EXCEPT !.phase = "done", !.reply = d]
      OBVIOUS
    <3>1. Promised(d) /\ call.phase \in {"sent", "looking", "served"}
      BY <2>12, LookedIsTrue DEF ResolveFromStore, Looked
    <3>2. /\ CallShape(c) /\ c.phase = "done" /\ c.via = call.via /\ c.reply = d
          /\ c.service = call.service /\ c.environment = call.environment
      BY <2>0, <3>0 DEF CallShape
    <3>3. LookupEnds(c)
      BY <2>12, <3>0 DEF ResolveFromStore
    <3> QED BY <3>1, <3>2, <3>3, EndKeepsCall DEF LookupEnds, postVars
  <2>13. ASSUME NEW d \in deployments, Expire(d) PROVE event' \in Inputs /\ CallInv'
    <3>1. StoreInv'
      BY <2>13 DEF Expire, CallInv, StoreInv, Key
    <3> QED BY <2>13, <3>1, StoreChangeKeepsCall DEF Expire, postVars
  <2> QED BY <1>2, <2>1, <2>2, <2>3, <2>4, <2>5, <2>6, <2>7, <2>8, <2>9, <2>10, <2>11, <2>12,
             <2>13 DEF Next
<1> QED BY <1>1, <1>2, PTL DEF Spec

\* Over HTTP or directly, whatever the names, the keys and the order in which
\* deployments are recorded, replaced and expire while the store is scanned:
\* an application is told of one that was in place and that nothing that stayed
\* is newer than, and of none only if none that it asked for stayed.
THEOREM AnswersWereTrue == Spec => []AnswerWasTrue
<1>1. CallInv => AnswerWasTrue
  BY DEF CallInv, AnswerInv, Promised, IsTrue, AnswerWasTrue, Literal
<1> QED BY <1>1, CallInvHolds, PTL
-----------------------------------------------------------------------------
Own == {d \in deployments : d.eventId = event.id}

\* Storage and the client answer a call that has begun.
Lookup ==
    \/ StartScan
    \/ \E k \in owed \cup Keys(deployments) : ReadKey(k)
    \/ \E d \in deployments \cup found \cup {NotFound} :
         HandleGetDeployment(d) \/ ResolveFromStore(d)
    \/ GetDeploymentFails \/ ResolveFails \/ Receive \/ Lose

LEMMA LookupLeavesRest ==
    ASSUME Lookup PROVE UNCHANGED <<postVars, deployments>>
BY DEF Lookup, StartScan, ReadKey, HandleGetDeployment, ResolveFromStore, GetDeploymentFails,
       ResolveFails, Receive, Lose, LookupEnds

LEMMA ExpiryLeavesOwn ==
    ASSUME NEW d, Expire(d) PROVE Own' = Own
BY DEF Expire, Own, postVars

\* Until it is answered a request is not counted; what it has saved follows
\* from how far it has come.
CounterInv ==
    /\ event \in Inputs
    /\ phase \in {"posted", "parsed", "saved", "answered"}
    /\ phase # "answered" => counted = <<>> /\ record = None
    /\ phase \in {"posted", "parsed"} => Own = {}
    /\ phase = "saved" => Own # {}
    /\ CountersTellWhatIsStored

LEMMA OneCounter ==
    ASSUME NEW c PROVE <<>> \o <<c>> = <<c>> /\ Len(<<c>>) = 1 /\ ToSet(<<c>>) = {c}
BY DEF ToSet

LEMMA NoCounter == <<>> \o <<>> = <<>> /\ Len(<<>>) = 0 /\ ToSet(<<>>) = {}
BY DEF ToSet

LEMMA RecordIsThere == ToStoredEvent(event, links) # None
<1>1. "id" \in DOMAIN ToStoredEvent(event, links)
  BY DEF ToStoredEvent
<1>2. DOMAIN None = {}
  BY DEF None
<1> QED BY <1>1, <1>2

LEMMA OwnIsSaved ==
    ASSUME Saved(ToDeployment(event, links)), event' = event
    PROVE  Own' # {}
<1>1. ToDeployment(event, links) \in deployments'
  BY DEF Saved
<1>2. ToDeployment(event, links).eventId = event.id
  BY DEF ToDeployment
<1> QED BY <1>1, <1>2 DEF Own

LEMMA CounterInvHolds == Spec => []CounterInv
<1>1. Init => CounterInv
  <2> SUFFICES ASSUME Init PROVE CounterInv
    OBVIOUS
  <2>1. Own = {}
    BY ApiAssumption DEF Init, Own
  <2> QED BY <2>1, NoCounter DEF Init, CounterInv, CountersTellWhatIsStored
<1>2. ASSUME CounterInv, [Next]_vars PROVE CounterInv'
  <2> USE <1>2
  <2>1. ASSUME UNCHANGED <<event, phase, record, counted, deployments>> PROVE CounterInv'
    BY <2>1 DEF CounterInv, CountersTellWhatIsStored, Own
  <2>2. ASSUME NEW c, phase # "answered", event' = event, phase' = "answered",
               counted' = counted \o <<c>>,
               c = "received" => record' # None /\ (IsDeployment(event) => Own' # {}),
               c \notin {"received", "storage"} => record' = None /\ Own' = {}
        PROVE  CounterInv'
    <3>1. counted' = <<c>> /\ Len(counted') = 1 /\ ToSet(counted') = {c}
      BY <2>2, OneCounter DEF CounterInv
    <3>2. Len(counted') <= 1
      BY <3>1
    <3>3. CountersTellWhatIsStored'
      BY <2>2, <3>1, <3>2 DEF CountersTellWhatIsStored, Own, IsDeployment
    <3> QED BY <2>2, <3>3 DEF CounterInv
  <2>3. CASE RefuseBody
    <3>1. record' = None /\ Own' = {}
      BY <2>3 DEF RefuseBody, CounterInv, Own, storeVars
    <3>2. PICK c \in {"payload_too_large", "unreadable_body", "parse"} :
            phase' = "answered" /\ counted' = counted \o <<c>>
      BY <2>3 DEF RefuseBody, Answered
    <3> QED BY <2>2, <2>3, <3>1, <3>2 DEF RefuseBody
  <2>4. CASE Parse
    BY <2>4 DEF Parse, CounterInv, CountersTellWhatIsStored, Own, storeVars
  <2>5. CASE Refuse
    <3>1. record' = None /\ Own' = {}
      BY <2>5 DEF Refuse, CounterInv, Own, storeVars
    <3> QED BY <2>2, <2>5, <3>1 DEF Refuse, Answered
  <2>6. CASE RecordDeployment
    <3>1. Own' # {}
      BY <2>6, OwnIsSaved DEF RecordDeployment
    <3>2. CountersTellWhatIsStored'
      <4>1. counted' = <<>> /\ Len(counted') <= 1 /\ ToSet(counted') = {}
        BY <2>6, NoCounter DEF RecordDeployment, CounterInv
      <4> QED BY <4>1 DEF CountersTellWhatIsStored
    <3> QED BY <2>6, <3>1, <3>2 DEF RecordDeployment, CounterInv
  <2>7. CASE DeploymentFails
    BY <2>2, <2>7 DEF DeploymentFails, Answered
  <2>8. CASE RecordEvent
    <3>1. record' # None
      BY <2>8, RecordIsThere DEF RecordEvent
    <3>2. IsDeployment(event) => Own' # {}
      BY <2>8 DEF RecordEvent, ReadyForEvent, CounterInv, Own, storeVars
    <3> QED BY <2>2, <2>8, <3>1, <3>2 DEF RecordEvent, ReadyForEvent, Answered
  <2>9. CASE EventFails
    BY <2>2, <2>9 DEF EventFails, ReadyForEvent, Answered
  <2>10. CASE PostPanics
    <3>1. counted' = <<>> /\ Len(counted') <= 1 /\ ToSet(counted') = {}
      BY <2>10, NoCounter DEF PostPanics, Answered, CounterInv
    <3>2. CountersTellWhatIsStored'
      BY <3>1 DEF CountersTellWhatIsStored
    <3> QED BY <2>10, <3>2 DEF PostPanics, Answered, CounterInv
  <2>11. ASSUME NEW l \in Lookups, NEW via \in {"http", "direct"}, Begin(l, via)
         PROVE  CounterInv'
    BY <2>1, <2>11 DEF Begin, postVars
  <2>12. CASE Lookup
    BY <2>1, <2>12, LookupLeavesRest DEF postVars
  <2>13. CASE UNCHANGED vars
    BY <2>1, <2>13 DEF vars, postVars, storeVars
  <2>14. ASSUME NEW d \in deployments, Expire(d) PROVE CounterInv'
    <3>1. UNCHANGED postVars /\ Own' = Own
      BY <2>14, ExpiryLeavesOwn DEF Expire
    <3> QED BY <3>1 DEF CounterInv, CountersTellWhatIsStored, Own, postVars, IsDeployment
  <2> QED BY <1>2, <2>3, <2>4, <2>5, <2>6, <2>7, <2>8, <2>9, <2>10, <2>11, <2>12, <2>13, <2>14
       DEF Next, Lookup
<1> QED BY <1>1, <1>2, PTL DEF Spec

\* Of a request that is counted, "received" means stored with its deployment
\* and a rejection not blamed on storage means not stored, for any event.
THEOREM CountersTell == Spec => []CountersTellWhatIsStored
<1>1. CounterInv => CountersTellWhatIsStored
  BY DEF CounterInv
<1> QED BY <1>1, CounterInvHolds, PTL
-----------------------------------------------------------------------------
\* The first text that is there, if one is.
LEMMA FirstIs ==
    ASSUME NEW texts, NEW n \in Nat, DOMAIN texts = 1..n,
           NEW i \in 1..n, texts[i] # NoText, \A j \in 1..n : j < i => texts[j] = NoText
    PROVE  FirstNonEmpty(texts) = texts[i]
<1> DEFINE full == {k \in DOMAIN texts : texts[k] # NoText}
<1>1. i \in full /\ \A k \in full : i <= k
  <2> SUFFICES ASSUME NEW k \in full PROVE i <= k
    OBVIOUS
  <2> QED OBVIOUS
<1>2. Min(full) = i
  <2>1. Min(full) \in full /\ \A k \in full : Min(full) <= k
    BY <1>1 DEF Min
  <2> QED BY <1>1, <2>1
<1> QED BY <1>1, <1>2 DEF FirstNonEmpty

LEMMA FirstIsNone ==
    ASSUME NEW texts, \A j \in DOMAIN texts : texts[j] = NoText
    PROVE  FirstNonEmpty(texts) = NoText
BY DEF FirstNonEmpty

LEMMA FirstOfTwo ==
    ASSUME NEW a, NEW b
    PROVE  FirstNonEmpty(<<a, b>>) = IF a # NoText THEN a ELSE b
<1> DEFINE t == <<a, b>>
<1>1. 2 \in Nat /\ DOMAIN t = 1..2 /\ t[1] = a /\ t[2] = b
  OBVIOUS
<1> HIDE DEF t
<1>2. CASE a # NoText
  <2>1. 1 \in 1..2 /\ t[1] # NoText /\ \A j \in 1..2 : j < 1 => t[j] = NoText
    BY <1>1, <1>2
  <2>2. FirstNonEmpty(t) = t[1]
    BY ONLY <1>1, <2>1, FirstIs
  <2> QED BY <1>1, <1>2, <2>2 DEF t
<1>3. CASE a = NoText /\ b # NoText
  <2>1. 2 \in 1..2 /\ t[2] # NoText /\ \A j \in 1..2 : j < 2 => t[j] = NoText
    BY <1>1, <1>3
  <2>2. FirstNonEmpty(t) = t[2]
    BY ONLY <1>1, <2>1, FirstIs
  <2> QED BY <1>1, <1>3, <2>2 DEF t
<1>4. CASE a = NoText /\ b = NoText
  BY <1>1, <1>4, FirstIsNone
<1> QED BY <1>2, <1>3, <1>4 DEF t

LEMMA FirstOfThree ==
    ASSUME NEW a, NEW b, NEW c
    PROVE  FirstNonEmpty(<<a, b, c>>) = IF a # NoText THEN a ELSE IF b # NoText THEN b ELSE c
<1> DEFINE t == <<a, b, c>>
<1>1. 3 \in Nat /\ DOMAIN t = 1..3 /\ t[1] = a /\ t[2] = b /\ t[3] = c
  OBVIOUS
<1> HIDE DEF t
<1>2. CASE a # NoText
  <2>1. 1 \in 1..3 /\ t[1] # NoText /\ \A j \in 1..3 : j < 1 => t[j] = NoText
    BY <1>1, <1>2
  <2>2. FirstNonEmpty(t) = t[1]
    BY ONLY <1>1, <2>1, FirstIs
  <2> QED BY <1>1, <1>2, <2>2 DEF t
<1>3. CASE a = NoText /\ b # NoText
  <2>1. 2 \in 1..3 /\ t[2] # NoText /\ \A j \in 1..3 : j < 2 => t[j] = NoText
    BY <1>1, <1>3
  <2>2. FirstNonEmpty(t) = t[2]
    BY ONLY <1>1, <2>1, FirstIs
  <2> QED BY <1>1, <1>3, <2>2 DEF t
<1>4. CASE a = NoText /\ b = NoText /\ c # NoText
  <2>1. 3 \in 1..3 /\ t[3] # NoText /\ \A j \in 1..3 : j < 3 => t[j] = NoText
    BY <1>1, <1>4
  <2>2. FirstNonEmpty(t) = t[3]
    BY ONLY <1>1, <2>1, FirstIs
  <2> QED BY <1>1, <1>4, <2>2 DEF t
<1>5. CASE a = NoText /\ b = NoText /\ c = NoText
  BY <1>1, <1>5, FirstIsNone
<1> QED BY <1>2, <1>3, <1>4, <1>5 DEF t

LEMMA PairIsSeq ==
    ASSUME NEW S, NEW k \in S \X S
    PROVE  k \in Seq(S) /\ Len(k) = 2 /\ k = <<k[1], k[2]>>
OBVIOUS

LEMMA PairOf ==
    ASSUME NEW T, NEW a, NEW b
    PROVE  /\ <<a, b>> \in Seq({a, b} \cup T) /\ Len(<<a, b>>) = 2
           /\ <<a, b>> = << <<a, b>>[1], <<a, b>>[2] >>
OBVIOUS

LEMMA SubSeqPair ==
    ASSUME NEW S, NEW t \in Seq(S), NEW i \in 1..Len(t), NEW j \in 1..Len(t), j = i + 1
    PROVE  SubSeq(t, i, j) = <<t[i], t[j]>>
<1> DEFINE pair == <<t[i], t[j]>>
<1>1. pair \in Seq(S) /\ Len(pair) = 2 /\ pair[1] = t[i] /\ pair[2] = t[j]
  OBVIOUS
<1>2. i \in Int /\ j \in Int /\ \A n \in i..j : t[n] \in S
  OBVIOUS
<1>3. /\ SubSeq(t, i, j) \in Seq(S) /\ Len(SubSeq(t, i, j)) = 2
      /\ SubSeq(t, i, j)[1] = t[i] /\ SubSeq(t, i, j)[2] = t[j]
  BY <1>2, SubSeqProperties
<1>4. \A n \in 1..Len(pair) : SubSeq(t, i, j)[n] = pair[n]
  BY <1>1, <1>3
<1> HIDE DEF pair
<1>5. SubSeq(t, i, j) = pair
  BY <1>1, <1>3, <1>4, SeqEqual
<1> QED BY <1>5 DEF pair

LEMMA AfterPair ==
    ASSUME NEW S, NEW k \in Seq(S), Len(k) = 2, NEW v \in Seq(S)
    PROVE  /\ k \o v \in Seq(S) /\ Len(k \o v) = 2 + Len(v) /\ Len(v) \in Nat
           /\ (k \o v)[1] = k[1] /\ (k \o v)[2] = k[2]
           /\ \A n \in 3..2 + Len(v) : (k \o v)[n] = v[n - 2]
<1>1. Len(v) \in Nat
  OBVIOUS
<1>2. k \o v \in Seq(S) /\ Len(k \o v) = Len(k) + Len(v)
  BY ConcatProperties
<1>3. \A i \in 1..Len(k) + Len(v) :
        (k \o v)[i] = IF i <= Len(k) THEN k[i] ELSE v[i - Len(k)]
  BY ConcatProperties
<1> QED BY <1>1, <1>2, <1>3

LEMMA AfterTwoPairs ==
    ASSUME NEW S, NEW p \in Seq(S), NEW k \in Seq(S), NEW v \in Seq(S),
           Len(p) = 2, Len(k) = 2, p = <<p[1], p[2]>>, k = <<k[1], k[2]>>
    PROVE  /\ Len(p \o k \o v) >= 4
           /\ SubSeq(p \o k \o v, 1, 2) = p /\ SubSeq(p \o k \o v, 3, 4) = k
<1> DEFINE t == p \o k \o v
<1>1. /\ p \o k \in Seq(S) /\ Len(p \o k) = 4
      /\ (p \o k)[1] = p[1] /\ (p \o k)[2] = p[2]
      /\ (p \o k)[3] = k[1] /\ (p \o k)[4] = k[2]
  BY AfterPair
<1>2. /\ t \in Seq(S) /\ Len(t) = 4 + Len(v) /\ Len(v) \in Nat
      /\ \A i \in 1..4 : t[i] = (p \o k)[i]
  BY <1>1, ConcatProperties
<1>3. t[1] = p[1] /\ t[2] = p[2] /\ t[3] = k[1] /\ t[4] = k[2]
  BY <1>1, <1>2
<1> HIDE DEF t
<1>4. {1, 2, 3, 4} \subseteq 1..Len(t) /\ 2 = 1 + 1 /\ 4 = 3 + 1 /\ t \in Seq(S)
  BY <1>2
<1>5. SubSeq(t, 1, 2) = <<t[1], t[2]>> /\ SubSeq(t, 3, 4) = <<t[3], t[4]>>
  BY ONLY <1>4, SubSeqPair
<1>6. SubSeq(t, 1, 2) = p /\ SubSeq(t, 3, 4) = k
  BY <1>3, <1>5
<1>7. Len(t) >= 4
  BY <1>2
<1> QED BY <1>6, <1>7 DEF t

LEMMA PlainType ==
    ASSUME NEW S, NEW k \in Seq(S), Len(k) = 2, k = <<k[1], k[2]>>,
           NEW v \in Seq(S), v \in Seq(VersionSegments)
    PROVE  /\ ~(Len(k \o v) < 2)
           /\ SubSeq(k \o v, 1, 2) = k /\ SubSeq(k \o v, 2 - 1, 2) = k
           /\ Max({2} \cup {n \in 3..Len(k \o v) : (k \o v)[n] \notin VersionSegments}) = 2
<1> DEFINE t == k \o v
<1>1. /\ t \in Seq(S) /\ Len(t) = 2 + Len(v) /\ Len(v) \in Nat
      /\ t[1] = k[1] /\ t[2] = k[2]
      /\ \A n \in 3..2 + Len(v) : t[n] = v[n - 2]
  BY AfterPair
<1>2. \A n \in 3..Len(t) : t[n] \in VersionSegments
  BY <1>1, ElementOfSeq
<1> HIDE DEF t
<1>3. SubSeq(t, 1, 2) = k
  BY <1>1, SubSeqPair
<1>4. {2} \cup {n \in 3..Len(t) : t[n] \notin VersionSegments} = {2}
  BY <1>2
<1>5. Max({2}) = 2
  BY DEF Max
<1>6. 2 - 1 = 1
  OBVIOUS
<1>7. ~(Len(t) < 2)
  BY <1>1
<1> QED BY <1>3, <1>4, <1>5, <1>6, <1>7 DEF t

\* A type in any version of the schema, with the prefix or without.
LEMMA ShortTypeIsKind ==
    ASSUME NEW e \in Inputs
    PROVE  ShortType(Type(e)) = e.kind
<1> DEFINE S == {"dev", "cdevents"} \cup (STRING \cup VersionSegments)
           dc == <<"dev", "cdevents">>
<1>1. PICK p, k, v : p = e.prefix /\ k = e.kind /\ v = e.version
  OBVIOUS
<1>2. /\ p \in {<<>>, dc} /\ k # dc
      /\ k \in STRING \X STRING /\ v \in Seq(VersionSegments)
  BY <1>1, ApiAssumption
<1>3. /\ k \in Seq(S) /\ Len(k) = 2 /\ k = <<k[1], k[2]>>
      /\ v \in Seq(S)
  BY <1>2, PairIsSeq, SeqMonotonic
<1>4. dc \in Seq(S) /\ Len(dc) = 2 /\ dc = <<dc[1], dc[2]>>
  BY PairOf
<1> HIDE DEF S, dc
<1>5. Type(e) = p \o k \o v
  BY <1>1 DEF Type
<1>6. CASE p = dc
  <2>1. /\ Len(p \o k \o v) >= 4
        /\ SubSeq(p \o k \o v, 1, 2) = dc /\ SubSeq(p \o k \o v, 3, 4) = k
    BY ONLY <1>3, <1>4, <1>6, AfterTwoPairs
  <2> QED BY <1>1, <1>5, <2>1 DEF ShortType, dc
<1>7. CASE p = <<>>
  <2>1. Type(e) = k \o v
    BY <1>3, <1>5, <1>7, ConcatEmptySeq
  <2>2. /\ ~(Len(k \o v) < 2)
        /\ SubSeq(k \o v, 1, 2) = k /\ SubSeq(k \o v, 2 - 1, 2) = k
        /\ Max({2} \cup {n \in 3..Len(k \o v) : (k \o v)[n] \notin VersionSegments}) = 2
    BY ONLY <1>2, <1>3, PlainType
  <2> QED BY <1>1, <1>2, <2>1, <2>2 DEF ShortType, dc
<1> QED BY <1>2, <1>6, <1>7
-----------------------------------------------------------------------------
LEMMA DeploymentHasService ==
    ASSUME NEW e, NEW ls, e.subjectId # NoText
    PROVE  ToDeployment(e, ls).service # NoText
<1>1. PICK a, b : ToDeployment(e, ls).service = FirstNonEmpty(<<a, b, e.subjectId>>)
  BY DEF ToDeployment
<1> QED BY <1>1, FirstOfThree

LEMMA NamedIsSome ==
    ASSUME NEW e, NEW name, e.subjectId # NoText
    PROVE  Named(name, e) # NoText
BY FirstOfTwo DEF Named

LEMMA SummaryParts ==
    ASSUME NEW kind, Len(kind) = 2, NEW name, NEW detail
    PROVE  /\ Summary(kind, name, detail).form = Form(kind)
           /\ Summary(kind, name, detail).predicate = kind[2]
           /\ Summary(kind, name, detail).name = name
<1>1. Len(kind) > 1
  OBVIOUS
<1> QED BY <1>1 DEF Summary

\* What a summary says, whichever of its forms is used.
LEMMA SummaryOf ==
    ASSUME NEW e \in Inputs, NEW ls, e.subjectId # NoText
    PROVE  /\ Summarize(e, ls).form = Form(e.kind)
           /\ Summarize(e, ls).predicate = e.kind[2]
           /\ Summarize(e, ls).name # NoText
<1>1. ShortType(Type(e)) = e.kind
  BY ShortTypeIsKind
<1>2. Len(e.kind) = 2
  <2>1. e.kind \in STRING \X STRING
    BY ApiAssumption
  <2> QED BY <2>1, PairIsSeq
<1>3. PICK name, detail : Summarize(e, ls) = Summary(e.kind, name, detail) /\ name # NoText
  <2>1. CASE Form(e.kind) = "service"
    BY <1>1, <2>1, DeploymentHasService DEF Summarize
  <2>2. CASE Form(e.kind) = "pipelinerun"
    BY <1>1, <2>2, NamedIsSome DEF Summarize
  <2>3. CASE Form(e.kind) = "incident"
    BY <1>1, <2>3, NamedIsSome DEF Summarize
  <2>4. CASE Form(e.kind) = "change"
    BY <1>1, <2>4 DEF Summarize
  <2>5. CASE Form(e.kind) \notin {"service", "pipelinerun", "incident", "change"}
    BY <1>1, <2>5 DEF Summarize
  <2> QED BY <2>1, <2>2, <2>3, <2>4, <2>5
<1> QED BY <1>2, <1>3, SummaryParts
-----------------------------------------------------------------------------
\* What one object says under the keys.
StringIn(keys, object) ==
    FirstNonEmpty([j \in DOMAIN keys |-> GetStringField(object, keys[j])])
IdentityIn(keys, object) ==
    FirstNonEmpty([j \in DOMAIN keys |-> Identity(Field(object, keys[j]))])

LEMMA StringFromTwo ==
    ASSUME NEW keys, NEW a, NEW b
    PROVE  StringFrom(keys, <<a, b>>) = FirstNonEmpty(<<StringIn(keys, a), StringIn(keys, b)>>)
BY DEF StringFrom, StringIn

LEMMA StringFromThree ==
    ASSUME NEW keys, NEW a, NEW b, NEW c
    PROVE  StringFrom(keys, <<a, b, c>>) =
             FirstNonEmpty(<<StringIn(keys, a), StringIn(keys, b), StringIn(keys, c)>>)
BY DEF StringFrom, StringIn

LEMMA IdentityFromTwo ==
    ASSUME NEW keys, NEW a, NEW b
    PROVE  IdentityFrom(keys, <<a, b>>) =
             FirstNonEmpty(<<IdentityIn(keys, a), IdentityIn(keys, b)>>)
BY DEF IdentityFrom, IdentityIn

LEMMA IdentityFromThree ==
    ASSUME NEW keys, NEW a, NEW b, NEW c
    PROVE  IdentityFrom(keys, <<a, b, c>>) =
             FirstNonEmpty(<<IdentityIn(keys, a), IdentityIn(keys, b), IdentityIn(keys, c)>>)
BY DEF IdentityFrom, IdentityIn

\* rawData holds both objects, and no commit or repository of its own.
LEMMA RawDataHolds ==
    ASSUME NEW e, NEW ls, NEW raw, raw = ToStoredEvent(e, ls).rawData
    PROVE  /\ Inner(Field(raw, "content")) = e.content
           /\ Inner(Field(raw, "customData")) = e.custom
           /\ StringIn(CommitKeys, raw) = NoText
           /\ IdentityIn(RepositoryKeys, raw) = NoText
<1>1. /\ DOMAIN raw \subseteq {"content", "customData"}
      /\ "content" \in DOMAIN raw <=> e.content # None
      /\ "customData" \in DOMAIN raw <=> e.custom # None
      /\ "content" \in DOMAIN raw =>
            raw["content"] = [kind |-> "object", fields |-> e.content]
      /\ "customData" \in DOMAIN raw =>
            raw["customData"] = [kind |-> "object", fields |-> e.custom]
  BY DEF ToStoredEvent
<1>2. Inner(Field(raw, "content")) = e.content
  BY <1>1 DEF Inner, Field
<1>3. Inner(Field(raw, "customData")) = e.custom
  BY <1>1 DEF Inner, Field
<1>4. StringIn(CommitKeys, raw) = NoText
  <2>1. \A j \in DOMAIN CommitKeys : CommitKeys[j] \notin DOMAIN raw
    BY <1>1 DEF CommitKeys
  <2>2. \A j \in DOMAIN CommitKeys : GetStringField(raw, CommitKeys[j]) = NoText
    BY <2>1 DEF GetStringField, Field, Text
  <2> QED BY <2>2, FirstIsNone DEF StringIn
<1>5. IdentityIn(RepositoryKeys, raw) = NoText
  <2>1. \A j \in DOMAIN RepositoryKeys : RepositoryKeys[j] \notin DOMAIN raw
    BY <1>1 DEF RepositoryKeys
  <2>2. \A j \in DOMAIN RepositoryKeys : Identity(Field(raw, RepositoryKeys[j])) = NoText
    BY <2>1 DEF Identity, Field, Text
  <2> QED BY <2>2, FirstIsNone DEF IdentityIn
<1> QED BY <1>2, <1>3, <1>4, <1>5

\* The correlator finds in the stored event what the deployment was given.
LEMMA ChangeOfEvent ==
    ASSUME NEW e, NEW ls
    PROVE  /\ ExtractChangeInfo(ToStoredEvent(e, ls)).commit = ToDeployment(e, ls).commit
           /\ ExtractChangeInfo(ToStoredEvent(e, ls)).repository = ToDeployment(e, ls).repository
<1>1. PICK raw : raw = ToStoredEvent(e, ls).rawData
  OBVIOUS
<1>2. StringFrom(CommitKeys, <<e.custom, e.content, raw>>)
        = StringFrom(CommitKeys, <<e.custom, e.content>>)
  <2>1. StringIn(CommitKeys, raw) = NoText
    BY <1>1, RawDataHolds
  <2>2. PICK a, b : a = StringIn(CommitKeys, e.custom) /\ b = StringIn(CommitKeys, e.content)
    OBVIOUS
  <2>3. StringFrom(CommitKeys, <<e.custom, e.content, raw>>) = FirstNonEmpty(<<a, b, NoText>>)
    BY <2>1, <2>2, StringFromThree
  <2>4. StringFrom(CommitKeys, <<e.custom, e.content>>) = FirstNonEmpty(<<a, b>>)
    BY <2>2, StringFromTwo
  <2>5. FirstNonEmpty(<<a, b, NoText>>) = FirstNonEmpty(<<a, b>>)
    BY FirstOfTwo, FirstOfThree
  <2> QED BY <2>3, <2>4, <2>5
<1>3. IdentityFrom(RepositoryKeys, <<e.custom, e.content, raw>>)
        = IdentityFrom(RepositoryKeys, <<e.custom, e.content>>)
  <2>1. IdentityIn(RepositoryKeys, raw) = NoText
    BY <1>1, RawDataHolds
  <2>2. PICK a, b : a = IdentityIn(RepositoryKeys, e.custom) /\ b = IdentityIn(RepositoryKeys, e.content)
    OBVIOUS
  <2>3. IdentityFrom(RepositoryKeys, <<e.custom, e.content, raw>>) = FirstNonEmpty(<<a, b, NoText>>)
    BY <2>1, <2>2, IdentityFromThree
  <2>4. IdentityFrom(RepositoryKeys, <<e.custom, e.content>>) = FirstNonEmpty(<<a, b>>)
    BY <2>2, IdentityFromTwo
  <2>5. FirstNonEmpty(<<a, b, NoText>>) = FirstNonEmpty(<<a, b>>)
    BY FirstOfTwo, FirstOfThree
  <2> QED BY <2>3, <2>4, <2>5
<1>4. Inner(Field(raw, "customData")) = e.custom /\ Inner(Field(raw, "content")) = e.content
  BY <1>1, RawDataHolds
<1> QED BY <1>1, <1>2, <1>3, <1>4 DEF ExtractChangeInfo, ToDeployment

LEMMA SpanOf ==
    ASSUME NEW e, NEW ls, NEW key \in {"commit", "repository"}
    PROVE  LET d == ToDeployment(e, ls)
           IN  IF d[key] = NoText THEN key \notin DOMAIN Attributes(d)
               ELSE key \in DOMAIN Attributes(d) /\ Attributes(d)[key] = d[key]
BY DEF Attributes, ToDeployment
-----------------------------------------------------------------------------
Complete(d) == d.service # NoText /\ d.eventId # NoText /\ d.deployedAt # 0

\* Whatever storage answered, what is stored is what the event says: nothing
\* of it while it is parsed, its deployment if it is one, then the event.
RequestInv ==
    /\ event \in Inputs
    /\ phase \in {"posted", "parsed", "saved", "answered"}
    /\ phase # "answered" => record = None /\ status = 0
    /\ phase \in {"posted", "parsed"} => Own = {}
    /\ phase = "saved" => Own # {} /\ IsDeployment(event)
    /\ \A d \in deployments :
         IF d \in Own THEN d = ToDeployment(event, links) /\ Validate(event) ELSE Complete(d)
    /\ phase = "saved" => Validate(event)
    /\ record # None => record = ToStoredEvent(event, links) /\ Validate(event)
    /\ status = 201 => (Own # {} <=> IsDeployment(event))

LEMMA SavedDeployments ==
    ASSUME RequestInv, Saved(ToDeployment(event, links)), Validate(event),
           UNCHANGED <<event, links>>
    PROVE  /\ Own' # {}
           /\ \A d \in deployments' :
                IF d \in Own' THEN d = ToDeployment(event', links') /\ Validate(event')
                ELSE Complete(d)
<1> DEFINE own == ToDeployment(event, links)
<1>1. own \in deployments' /\ deployments' \subseteq deployments \cup {own}
  BY DEF Saved
<1>2. own.eventId = event.id
  BY DEF ToDeployment
<1>3. own \in Own'
  BY <1>1, <1>2 DEF Own
<1> HIDE DEF own
<1>4. ASSUME NEW d \in deployments'
      PROVE  IF d \in Own' THEN d = own /\ Validate(event) ELSE Complete(d)
  <2>1. CASE d = own
    BY <1>3, <2>1
  <2>2. CASE d \in deployments
    <3>1. d \in Own' <=> d \in Own
      BY <2>2, <1>4 DEF Own
    <3> QED BY <2>2, <3>1 DEF RequestInv, own
  <2> QED BY <1>1, <2>1, <2>2
<1>5. ToDeployment(event', links') = own /\ (Validate(event') <=> Validate(event))
  BY DEF own
<1> QED BY <1>3, <1>4, <1>5

LEMMA RequestInvHolds == Spec => []RequestInv
<1>1. Init => RequestInv
  <2> SUFFICES ASSUME Init PROVE RequestInv
    OBVIOUS
  <2>1. Own = {}
    BY ApiAssumption DEF Init, Own
  <2>2. \A d \in deployments : Complete(d)
    BY ApiAssumption DEF Init, Complete
  <2> QED BY <2>1, <2>2 DEF Init, RequestInv
<1>2. ASSUME RequestInv, [Next]_vars PROVE RequestInv'
  <2> USE <1>2
  <2>1. ASSUME UNCHANGED <<event, phase, status, record, links, deployments>> PROVE RequestInv'
    BY <2>1 DEF RequestInv, Own, IsDeployment
  <2>2. ASSUME phase # "answered", phase' = "answered", status' # 201,
               UNCHANGED <<event, links, record, deployments>>
        PROVE  RequestInv'
    BY <2>2 DEF RequestInv, Own
  <2>3. CASE RefuseBody
    <3>1. status' # 201
      BY <2>3 DEF RefuseBody, Answered
    <3> QED BY <2>2, <2>3, <3>1 DEF RefuseBody, Answered, storeVars
  <2>4. CASE Parse
    <3>1. Own' = {} /\ Own = {}
      BY <2>4 DEF Parse, RequestInv, Own, storeVars
    <3>2. \A d \in deployments' : Complete(d)
      BY <2>4, <3>1 DEF Parse, RequestInv, storeVars
    <3> QED BY <2>4, <3>1, <3>2 DEF Parse, RequestInv
  <2>5. CASE Refuse
    BY <2>2, <2>5 DEF Refuse, Answered, storeVars
  <2>6. CASE RecordDeployment
    BY <2>6, SavedDeployments DEF RecordDeployment, RequestInv, IsDeployment
  <2>7. CASE DeploymentFails
    <3>1. CASE Saved(ToDeployment(event, links))
      BY <2>7, <3>1, SavedDeployments DEF DeploymentFails, Answered, RequestInv
    <3>2. CASE UNCHANGED storeVars
      BY <2>2, <2>7, <3>2 DEF DeploymentFails, Answered, storeVars
    <3> QED BY <2>7, <3>1, <3>2 DEF DeploymentFails
  <2>8. CASE RecordEvent
    <3>1. Own' = Own /\ (IsDeployment(event') <=> IsDeployment(event))
      BY <2>8 DEF RecordEvent, Own, storeVars
    <3>2. Validate(event) /\ (Own # {} <=> IsDeployment(event))
      BY <2>8 DEF RecordEvent, ReadyForEvent, RequestInv
    <3> QED BY <2>8, <3>1, <3>2 DEF RecordEvent, Answered, RequestInv, storeVars
  <2>9. CASE EventFails
    <3>1. Own' = Own
      BY <2>9 DEF EventFails, Own, storeVars
    <3>2. Validate(event)
      BY <2>9 DEF EventFails, ReadyForEvent, RequestInv
    <3> QED BY <2>9, <3>1, <3>2 DEF EventFails, Answered, RequestInv, storeVars
  <2>10. CASE PostPanics
    BY <2>2, <2>10 DEF PostPanics, Answered, storeVars
  <2>11. ASSUME NEW l \in Lookups, NEW via \in {"http", "direct"}, Begin(l, via)
         PROVE  RequestInv'
    BY <2>1, <2>11 DEF Begin, postVars
  <2>12. CASE Lookup
    BY <2>1, <2>12, LookupLeavesRest DEF postVars
  <2>13. CASE UNCHANGED vars
    BY <2>1, <2>13 DEF vars, postVars, storeVars
  <2>14. ASSUME NEW d \in deployments, Expire(d) PROVE RequestInv'
    <3>1. UNCHANGED postVars /\ Own' = Own /\ deployments' \subseteq deployments
      BY <2>14, ExpiryLeavesOwn DEF Expire
    <3> QED BY <3>1 DEF RequestInv, postVars, IsDeployment
  <2> QED BY <1>2, <2>3, <2>4, <2>5, <2>6, <2>7, <2>8, <2>9, <2>10, <2>11, <2>12, <2>13, <2>14
       DEF Next, Lookup
<1> QED BY <1>1, <1>2, PTL DEF Spec

\* Every schema version and both prefixes: what is stored for an accepted event
\* is a deployment exactly if its kind is one of the three.
THEOREM DeploymentsRecognised == Spec => []DeploymentsAreRecognised
<1>1. ASSUME RequestInv PROVE DeploymentsAreRecognised
  <2>1. IsDeployment(event) <=> event.kind \in DeploymentKinds
    BY <1>1, ShortTypeIsKind DEF RequestInv, IsDeployment
  <2> QED BY <1>1, <2>1 DEF RequestInv, DeploymentsAreRecognised, Own
<1> QED BY <1>1, RequestInvHolds, PTL

\* No event that passes Validate leaves a deployment without a service, an
\* event or a time.
THEOREM DeploymentsNamed == Spec => []DeploymentsAreNamed
<1>1. ASSUME RequestInv PROVE DeploymentsAreNamed
  <2> SUFFICES ASSUME NEW d \in deployments PROVE Complete(d)
    BY DEF DeploymentsAreNamed, Complete
  <2>1. CASE d \in Own
    <3>1. d = ToDeployment(event, links) /\ Validate(event)
      BY <1>1, <2>1 DEF RequestInv
    <3>2. d.service # NoText
      BY <3>1, DeploymentHasService DEF Validate
    <3>3. d.eventId = event.id /\ d.deployedAt = event.timestamp
      BY <3>1 DEF ToDeployment
    <3> QED BY <3>1, <3>2, <3>3 DEF Validate, Complete
  <2>2. CASE d \notin Own
    BY <1>1, <2>2 DEF RequestInv
  <2> QED BY <2>1, <2>2
<1> QED BY <1>1, RequestInvHolds, PTL

\* The two ways from an event to its commit and repository agree, wherever the
\* producer put them.
THEOREM CauseReaches == Spec => []CauseReachesSpans
<1>1. ASSUME RequestInv PROVE CauseReachesSpans
  <2> SUFFICES ASSUME NEW d \in deployments, record # None, d.eventId = record.id,
                      NEW key \in {"commit", "repository"}
               PROVE  LET cause == ExtractChangeInfo(record)
                          span == Attributes(d)
                      IN  IF cause[key] = NoText THEN key \notin DOMAIN span
                          ELSE key \in DOMAIN span /\ span[key] = cause[key]
    BY DEF CauseReachesSpans
  <2>1. record = ToStoredEvent(event, links)
    BY <1>1 DEF RequestInv
  <2>2. record.id = event.id
    BY <2>1 DEF ToStoredEvent
  <2>3. d = ToDeployment(event, links)
    BY <1>1, <2>2 DEF RequestInv, Own
  <2>4. ExtractChangeInfo(record)[key] = d[key]
    BY <2>1, <2>3, ChangeOfEvent
  <2> QED BY <2>3, <2>4, SpanOf
<1> QED BY <1>1, RequestInvHolds, PTL

\* The line of a chain for an event says its kind and a name, for every event.
THEOREM SummariesName == Spec => []SummariesNameTheirSubject
<1>1. ASSUME RequestInv PROVE SummariesNameTheirSubject
  <2> SUFFICES ASSUME record # None
               PROVE  /\ record.summary.form = Form(event.kind)
                      /\ record.summary.predicate = event.kind[2]
                      /\ record.summary.name # NoText
    BY DEF SummariesNameTheirSubject
  <2>1. record = ToStoredEvent(event, links) /\ Validate(event) /\ event \in Inputs
    BY <1>1 DEF RequestInv
  <2>2. record.summary = Summarize(event, links)
    BY <2>1 DEF ToStoredEvent
  <2> QED BY <2>1, <2>2, SummaryOf DEF Validate
<1> QED BY <1>1, RequestInvHolds, PTL
-----------------------------------------------------------------------------
LEMMA MinIsLeast ==
    ASSUME NEW S, S \subseteq Nat, S # {}
    PROVE  Min(S) \in S /\ \A m \in S : Min(S) <= m
BY LeastThereIs DEF Min

Added(acc, link) ==
    IF link.id = NoText \/ link \in ToSet(acc) THEN acc ELSE Append(acc, link)

\* merged is the function that its recursion describes.
Merges(raws, n, f) ==
    f = [k \in 0..n |-> IF k = 0 THEN <<>> ELSE Added(f[k - 1], LinkOf(raws[k]))]

LEMMA MergesSomewhere ==
    ASSUME NEW raws, Len(raws) \in Nat
    PROVE  \E f : Merges(raws, Len(raws), f)
<1> DEFINE Bad == {n \in Nat : ~\E f : Merges(raws, n, f)}
<1>1. SUFFICES Bad = {}
  OBVIOUS
<1>2. SUFFICES ASSUME Bad # {} PROVE FALSE
  OBVIOUS
<1>3. PICK n \in Bad : \A m \in Bad : n <= m
  <2>1. Bad \subseteq Nat
    OBVIOUS
  <2> HIDE DEF Bad
  <2> QED BY <1>2, <2>1, LeastThereIs
<1>4. n \in Nat /\ \A m \in Bad : n <= m
  BY <1>3
<1>5. n # 0
  <2>1. Merges(raws, 0, [k \in 0..0 |-> <<>>])
    BY DEF Merges
  <2> QED BY <2>1, <1>3
<1>6. n - 1 \in Nat /\ n - 1 \notin Bad
  BY <1>4, <1>5
<1>7. PICK f : Merges(raws, n - 1, f)
  BY <1>6
<1> DEFINE g == [k \in 0..n |-> IF k = n THEN Added(f[n - 1], LinkOf(raws[n])) ELSE f[k]]
<1>8. \A k \in 0..n : g[k] = IF k = 0 THEN <<>> ELSE Added(g[k - 1], LinkOf(raws[k]))
  <2> SUFFICES ASSUME NEW k \in 0..n
               PROVE  g[k] = IF k = 0 THEN <<>> ELSE Added(g[k - 1], LinkOf(raws[k]))
    OBVIOUS
  <2>1. CASE k = n
    <3>1. k # 0 /\ g[k - 1] = f[k - 1] /\ g[k] = Added(f[n - 1], LinkOf(raws[n]))
      BY <1>4, <1>5, <2>1
    <3> QED BY <2>1, <3>1
  <2>2. CASE k # n
    <3>1. k \in 0..n - 1 /\ g[k] = f[k] /\ (k # 0 => g[k - 1] = f[k - 1])
      BY <1>4, <1>5, <2>2
    <3>2. f[k] = IF k = 0 THEN <<>> ELSE Added(f[k - 1], LinkOf(raws[k]))
      BY <1>7, <3>1 DEF Merges
    <3> QED BY <3>1, <3>2
  <2> QED BY <2>1, <2>2
<1>9. Merges(raws, n, g)
  <2>1. DOMAIN g = 0..n /\ g = [k \in 0..n |-> g[k]]
    OBVIOUS
  <2> HIDE DEF g
  <2> QED BY <1>8, <2>1 DEF Merges
<1> QED BY <1>3, <1>9

LEMMA NormalizeLinksMerges ==
    ASSUME NEW raws, Len(raws) \in Nat
    PROVE  \E f : Merges(raws, Len(raws), f) /\ NormalizeLinks(raws) = f[Len(raws)]
<1> DEFINE merged == CHOOSE f : Merges(raws, Len(raws), f)
<1>1. Merges(raws, Len(raws), merged)
  BY MergesSomewhere
<1>2. NormalizeLinks(raws) = merged[Len(raws)]
  BY DEF NormalizeLinks, Merges, Added
<1> QED BY <1>1, <1>2

\* What NormalizeLinks has made of the first n links.
Canonical(raws, n, acc) ==
    /\ acc \in Seq({LinkOf(raws[k]) : k \in 1..Len(raws)})
    /\ \A i, j \in 1..Len(acc) : acc[i] = acc[j] => i = j
    /\ \A i \in 1..Len(acc) :
         acc[i].id # NoText /\ \E k \in 1..n : acc[i] = LinkOf(raws[k])
    /\ \A k \in 1..n :
         LinkOf(raws[k]).id # NoText => \E i \in 1..Len(acc) : acc[i] = LinkOf(raws[k])
    \* What comes first was sent before every occurrence of what comes later.
    /\ \A i, j \in 1..Len(acc) : i < j =>
         \E k \in 1..n : /\ acc[i] = LinkOf(raws[k])
                         /\ \A m \in 1..n : acc[j] = LinkOf(raws[m]) => k < m

LEMMA AddedIsCanonical ==
    ASSUME NEW raws, Len(raws) \in Nat, NEW n \in 1..Len(raws),
           NEW acc, Canonical(raws, n - 1, acc)
    PROVE  Canonical(raws, n, Added(acc, LinkOf(raws[n])))
<1> DEFINE link == LinkOf(raws[n])
           S == {LinkOf(raws[k]) : k \in 1..Len(raws)}
<1>0. \A k \in 1..n : k \in 1..n - 1 \/ k = n
  OBVIOUS
<1>a. 1..n - 1 \subseteq 1..n /\ n \in 1..n /\ \A k \in 1..n - 1 : k < n
  OBVIOUS
<1>1. acc \in Seq(S) /\ link \in S /\ Len(acc) \in Nat /\ DOMAIN acc = 1..Len(acc)
  BY DEF Canonical
<1> HIDE DEF S
<1>2. link \in ToSet(acc) <=> \E i \in 1..Len(acc) : acc[i] = link
  BY <1>1 DEF ToSet
<1> HIDE DEF link
<1>3. CASE link.id = NoText \/ link \in ToSet(acc)
  <2>1. Added(acc, link) = acc
    BY <1>3 DEF Added
  <2>2. \A k \in 1..n :
          LinkOf(raws[k]).id # NoText => \E i \in 1..Len(acc) : acc[i] = LinkOf(raws[k])
    BY <1>0, <1>2, <1>3 DEF Canonical, link
  <2>3. ASSUME NEW i \in 1..Len(acc), NEW j \in 1..Len(acc), i < j
        PROVE  \E k \in 1..n : /\ acc[i] = LinkOf(raws[k])
                               /\ \A m \in 1..n : acc[j] = LinkOf(raws[m]) => k < m
    <3>1. PICK k \in 1..n - 1 :
            /\ acc[i] = LinkOf(raws[k])
            /\ \A m \in 1..n - 1 : acc[j] = LinkOf(raws[m]) => k < m
      BY <2>3 DEF Canonical
    <3> QED BY <1>0, <1>a, <3>1
  <2>4. \A i \in 1..Len(acc) :
          acc[i].id # NoText /\ \E k \in 1..n : acc[i] = LinkOf(raws[k])
    BY <1>a DEF Canonical
  <2>5. Canonical(raws, n, acc)
    BY <2>2, <2>3, <2>4 DEF Canonical
  <2> QED BY <2>1, <2>5 DEF link
<1>4. CASE link.id # NoText /\ link \notin ToSet(acc)
  <2> DEFINE new == Append(acc, link)
             l == Len(acc) + 1
  <2>1. Added(acc, link) = new
    BY <1>4 DEF Added
  <2>2. /\ new \in Seq(S) /\ Len(new) = l /\ new[l] = link
        /\ \A i \in 1..Len(acc) : new[i] = acc[i]
    BY <1>1, AppendProperties
  <2>3. /\ \A i \in 1..l : i \in 1..Len(acc) \/ i = l
        /\ l \in 1..l /\ l \notin 1..Len(acc) /\ 1..Len(acc) \subseteq 1..l
        /\ \A i \in 1..l : ~(l < i)
    BY <1>1
  <2>4. \A i \in 1..Len(acc) : acc[i] # link
    BY <1>2, <1>4
  <2> HIDE DEF new, l
  <2>5. ASSUME NEW i \in 1..l, NEW j \in 1..l, new[i] = new[j] PROVE i = j
    <3>1. \A a, b \in 1..Len(acc) : acc[a] = acc[b] => a = b
      BY DEF Canonical
    <3>2. CASE i \in 1..Len(acc) /\ j \in 1..Len(acc)
      BY <2>2, <2>5, <3>1, <3>2
    <3>3. CASE i = l \/ j = l
      BY <2>2, <2>3, <2>4, <2>5, <3>3
    <3> QED BY <2>3, <3>2, <3>3
  <2>6. ASSUME NEW i \in 1..l
        PROVE  new[i].id # NoText /\ \E k \in 1..n : new[i] = LinkOf(raws[k])
    <3>1. CASE i \in 1..Len(acc)
      BY <1>a, <2>2, <3>1 DEF Canonical
    <3>2. CASE i = l
      BY <1>a, <1>4, <2>2, <3>2 DEF link
    <3> QED BY <2>3, <3>1, <3>2
  <2>7. ASSUME NEW k \in 1..n, LinkOf(raws[k]).id # NoText
        PROVE  \E i \in 1..l : new[i] = LinkOf(raws[k])
    <3>1. CASE k \in 1..n - 1
      BY <2>2, <2>3, <2>7, <3>1 DEF Canonical
    <3>2. CASE k = n
      BY <2>2, <2>3, <3>2 DEF link
    <3> QED BY <1>0, <3>1, <3>2
  <2>8. ASSUME NEW i \in 1..l, NEW j \in 1..l, i < j
        PROVE  \E k \in 1..n : /\ new[i] = LinkOf(raws[k])
                               /\ \A m \in 1..n : new[j] = LinkOf(raws[m]) => k < m
    <3>1. i \in 1..Len(acc)
      BY <2>3, <2>8
    <3>2. CASE j \in 1..Len(acc)
      <4>1. PICK k \in 1..n - 1 :
              /\ acc[i] = LinkOf(raws[k])
              /\ \A m \in 1..n - 1 : acc[j] = LinkOf(raws[m]) => k < m
        BY <2>8, <3>1, <3>2 DEF Canonical
      <4> QED BY <1>0, <1>a, <2>2, <3>1, <3>2, <4>1
    <3>3. CASE j = l
      <4>1. PICK k \in 1..n - 1 : acc[i] = LinkOf(raws[k])
        BY <3>1 DEF Canonical
      <4>2. \A m \in 1..n - 1 : LinkOf(raws[m]) # link
        BY <1>4, <2>4 DEF Canonical
      <4> QED BY <1>0, <1>a, <2>2, <3>1, <3>3, <4>1, <4>2
    <3> QED BY <2>3, <3>2, <3>3
  <2>9. Canonical(raws, n, new)
    BY <2>2, <2>5, <2>6, <2>7, <2>8 DEF Canonical, S
  <2> QED BY <2>1, <2>9 DEF link
<1> QED BY <1>3, <1>4

LEMMA NormalizeLinksIsCanonical ==
    ASSUME NEW raws, Len(raws) \in Nat
    PROVE  Canonical(raws, Len(raws), NormalizeLinks(raws))
<1>1. PICK f : Merges(raws, Len(raws), f) /\ NormalizeLinks(raws) = f[Len(raws)]
  BY NormalizeLinksMerges
<1> DEFINE Bad == {n \in 0..Len(raws) : ~Canonical(raws, n, f[n])}
<1>2. SUFFICES ASSUME Bad # {} PROVE FALSE
  BY <1>1
<1>3. PICK n \in Bad : \A m \in Bad : n <= m
  <2>1. Bad \subseteq Nat
    OBVIOUS
  <2> HIDE DEF Bad
  <2> QED BY <1>2, <2>1, LeastThereIs
<1>4. n \in 0..Len(raws) /\ \A m \in Bad : n <= m
  BY <1>3
<1>5. n # 0
  <2>1. f[0] = <<>>
    BY <1>1 DEF Merges
  <2>2. Canonical(raws, 0, <<>>)
    <3>1. <<>> \in Seq({LinkOf(raws[k]) : k \in 1..Len(raws)}) /\ Len(<<>>) = 0
      BY EmptySeq
    <3>2. 1..0 = {}
      OBVIOUS
    <3> QED BY <3>1, <3>2 DEF Canonical
  <2> QED BY <1>3, <2>1, <2>2
<1>6. n \in 1..Len(raws) /\ n - 1 \in 0..Len(raws) /\ n - 1 < n
  <2>1. Len(raws) \in Nat /\ n \in 0..Len(raws)
    BY <1>4
  <2> QED BY ONLY <1>5, <2>1
<1>7. Canonical(raws, n - 1, f[n - 1])
  BY <1>4, <1>6
<1>8. f[n] = Added(f[n - 1], LinkOf(raws[n]))
  BY <1>1, <1>4, <1>5 DEF Merges
<1>9. Canonical(raws, n, f[n])
  BY <1>6, <1>7, <1>8, AddedIsCanonical
<1> QED BY <1>3, <1>9

\* The list that NormalizeLinks leaves, in the words of the property.
LEMMA CanonicalList ==
    ASSUME NEW R, NEW raws \in Seq(R), NEW list, Canonical(raws, Len(raws), list)
    PROVE  /\ IsInjective(list)
           /\ ToSet(list) = {l \in {LinkOf(r) : r \in ToSet(raws)} : l.id # NoText}
           /\ \A i, j \in 1..Len(list) : i < j =>
                Min({k \in 1..Len(raws) : LinkOf(raws[k]) = list[i]})
                  < Min({k \in 1..Len(raws) : LinkOf(raws[k]) = list[j]})
<1>1. DOMAIN list = 1..Len(list) /\ DOMAIN raws = 1..Len(raws)
  BY DEF Canonical
<1>2. IsInjective(list)
  <2> SUFFICES ASSUME NEW a \in 1..Len(list), NEW b \in 1..Len(list), list[a] = list[b]
               PROVE  a = b
    BY <1>1 DEF IsInjective
  <2> QED BY DEF Canonical
<1>3. ToSet(list) = {l \in {LinkOf(r) : r \in ToSet(raws)} : l.id # NoText}
  <2>1. ASSUME NEW i \in 1..Len(list)
        PROVE  list[i].id # NoText /\ \E r \in ToSet(raws) : list[i] = LinkOf(r)
    BY <1>1 DEF Canonical, ToSet
  <2>2. ASSUME NEW r \in ToSet(raws), LinkOf(r).id # NoText
        PROVE  LinkOf(r) \in ToSet(list)
    <3>1. PICK k \in 1..Len(raws) : r = raws[k]
      BY <1>1 DEF ToSet
    <3> QED BY <1>1, <2>2, <3>1 DEF Canonical, ToSet
  <2> QED BY <1>1, <2>1, <2>2 DEF ToSet
<1>4. ASSUME NEW i \in 1..Len(list), NEW j \in 1..Len(list), i < j
      PROVE  Min({k \in 1..Len(raws) : LinkOf(raws[k]) = list[i]})
               < Min({k \in 1..Len(raws) : LinkOf(raws[k]) = list[j]})
  <2> DEFINE At(l) == {k \in 1..Len(raws) : LinkOf(raws[k]) = l}
  <2>1. PICK k \in 1..Len(raws) :
          /\ list[i] = LinkOf(raws[k])
          /\ \A m \in 1..Len(raws) : list[j] = LinkOf(raws[m]) => k < m
    BY <1>4 DEF Canonical
  <2>2. PICK n \in 1..Len(raws) : list[j] = LinkOf(raws[n])
    BY DEF Canonical
  <2>3. /\ At(list[i]) \subseteq Nat /\ k \in At(list[i])
        /\ At(list[j]) \subseteq Nat /\ n \in At(list[j])
        /\ \A m \in At(list[j]) : k < m
    BY <2>1, <2>2
  <2> HIDE DEF At
  <2>4. Min(At(list[i])) \in Nat /\ Min(At(list[i])) <= k
    BY <2>3, MinIsLeast
  <2>5. Min(At(list[j])) \in At(list[j]) /\ Min(At(list[j])) \in Nat
    BY <2>3, MinIsLeast
  <2>6. Min(At(list[i])) < Min(At(list[j]))
    BY <2>1, <2>3, <2>4, <2>5
  <2> QED BY <2>6 DEF At
<1> QED BY <1>2, <1>3, <1>4

LinksInv ==
    /\ event \in Inputs
    /\ phase = "parsed" => links = NormalizeLinks(event.contextLinks \o event.topLinks)

LEMMA LinksInvHolds == Spec => []LinksInv
<1>1. Init => LinksInv
  BY DEF Init, LinksInv
<1>2. ASSUME LinksInv, [Next]_vars PROVE LinksInv'
  <2> USE <1>2
  <2>1. CASE Parse
    BY <2>1 DEF Parse, LinksInv
  <2>2. CASE RefuseBody \/ Refuse \/ RecordDeployment \/ DeploymentFails
               \/ RecordEvent \/ EventFails \/ PostPanics
    BY <2>2 DEF LinksInv, RefuseBody, Refuse, RecordDeployment, DeploymentFails,
                RecordEvent, EventFails, PostPanics, Answered
  <2>3. CASE UNCHANGED <<event, phase, links>>
    BY <2>3 DEF LinksInv
  <2>4. ASSUME NEW l \in Lookups, NEW via \in {"http", "direct"}, Begin(l, via)
        PROVE  LinksInv'
    BY <2>3, <2>4 DEF Begin, postVars
  <2>5. CASE Lookup
    BY <2>3, <2>5, LookupLeavesRest DEF postVars
  <2>6. CASE UNCHANGED vars
    BY <2>3, <2>6 DEF vars, postVars
  <2>7. ASSUME NEW d \in deployments, Expire(d) PROVE LinksInv'
    BY <2>3, <2>7 DEF Expire, postVars
  <2> QED BY <1>2, <2>1, <2>2, <2>4, <2>5, <2>6, <2>7 DEF Next, Lookup
<1> QED BY <1>1, <1>2, PTL DEF Spec

\* However many links a producer sends, in both places and in any shape: what
\* is kept is the canonical list.
THEOREM LinksCanonical == Spec => []LinksAreCanonical
<1>1. ASSUME LinksInv PROVE LinksAreCanonical
  <2> SUFFICES ASSUME phase = "parsed" PROVE LinksAreCanonical
    BY DEF LinksAreCanonical
  <2> DEFINE sent == event.contextLinks \o event.topLinks
             R == ToSet(event.contextLinks) \cup ToSet(event.topLinks)
  <2>1. sent \in Seq(R)
    <3>1. PICK c, t : c = event.contextLinks /\ t = event.topLinks
      OBVIOUS
    <3>2. c \in Seq(ToSet(c)) /\ t \in Seq(ToSet(t))
      BY <1>1, <3>1, ApiAssumption DEF LinksInv
    <3>3. c \in Seq(R) /\ t \in Seq(R)
      BY <3>1, <3>2, SeqMonotonic
    <3>4. c \o t \in Seq(R)
      BY <3>3, ConcatProperties
    <3> QED BY <3>1, <3>4
  <2>2. links = NormalizeLinks(sent)
    BY <1>1 DEF LinksInv
  <2> HIDE DEF sent, R
  <2>3. Canonical(sent, Len(sent), links)
    BY <2>1, <2>2, NormalizeLinksIsCanonical
  <2>4. /\ IsInjective(links)
        /\ ToSet(links) = {l \in {LinkOf(r) : r \in ToSet(sent)} : l.id # NoText}
        /\ \A i, j \in 1..Len(links) : i < j =>
             Min({k \in 1..Len(sent) : LinkOf(sent[k]) = links[i]})
               < Min({k \in 1..Len(sent) : LinkOf(sent[k]) = links[j]})
    BY <2>1, <2>3, CanonicalList
  <2> QED BY <2>4 DEF LinksAreCanonical, sent
<1> QED BY <1>1, LinksInvHolds, PTL
=============================================================================
