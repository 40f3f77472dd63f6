---------------------------- MODULE ChainQueryProofs ----------------------------
(***************************************************************************)
(* ChainQuery, for every graph of links, every limit and however the store *)
(* changes under the request: what the walk and the chain index find.      *)
(***************************************************************************)
EXTENDS ChainQuery, OrderingProofs, SequenceTheorems, TLAPS

Links(i) == ToSet(universe[i].links)

Nodes == [id : Ids, depth : 0..MaxDepth]

QueryTypeOK ==
    /\ universe \in Universes
    /\ start \in Ids
    /\ phase \in {"start", "walk", "index", "members", "done", "404", "500"}
    /\ seen \subseteq Ids /\ stored \subseteq seen /\ steady \subseteq stored
    /\ queue \in Seq(Nodes) /\ walked \in Seq(Ids)
    /\ visited \subseteq Ids
    /\ members \subseteq Ids /\ siblings \subseteq Ids

LEMMA LinksAreIds ==
    ASSUME universe \in Universes
    PROVE  \A i \in Ids : Links(i) \subseteq Ids /\ IsFiniteSet(Links(i))
<1> SUFFICES ASSUME NEW i \in Ids
             PROVE  Links(i) \subseteq Ids /\ IsFiniteSet(Links(i))
  OBVIOUS
<1> DEFINE s == universe[i].links
<1>1. s \in Seq(Ids)
  BY QueryAssumption
<1>2. /\ Len(s) \in Nat /\ DOMAIN s = 1..Len(s)
      /\ \A k \in 1..Len(s) : s[k] \in Ids
  BY <1>1, LenProperties, ElementOfSeq
<1>3. Links(i) \subseteq Ids
  BY <1>2 DEF Links, ToSet
<1>4. s \in Surjection(1..Len(s), Links(i))
  BY <1>1, <1>2, LenProperties DEF Surjection, Links, ToSet
<1>5. IsFiniteSet(1..Len(s))
  BY <1>2, FS_Interval
<1> QED BY <1>3, <1>4, <1>5, FS_Surjection

LEMMA Joined ==
    ASSUME NEW S, NEW s \in Seq(S), NEW t \in Seq(S)
    PROVE  /\ s \o t \in Seq(S)
           /\ Len(s \o t) = Len(s) + Len(t)
           /\ \A i \in 1..Len(s) : (s \o t)[i] = s[i]
           /\ \A i \in 1..Len(t) : (s \o t)[Len(s) + i] = t[i]
<1>1. Len(s) \in Nat /\ Len(t) \in Nat
  BY LenProperties
<1>2. /\ s \o t \in Seq(S)
      /\ Len(s \o t) = Len(s) + Len(t)
      /\ \A i \in 1..(Len(s) + Len(t)) :
           (s \o t)[i] = IF i =< Len(s) THEN s[i] ELSE t[i - Len(s)]
  BY ConcatProperties
<1>3. ASSUME NEW i \in 1..Len(s) PROVE (s \o t)[i] = s[i]
  <2>1. i \in 1..(Len(s) + Len(t)) /\ i =< Len(s)
    BY <1>1
  <2> QED BY <1>2, <2>1
<1>4. ASSUME NEW i \in 1..Len(t) PROVE (s \o t)[Len(s) + i] = t[i]
  <2>1. /\ Len(s) + i \in 1..(Len(s) + Len(t)) /\ ~(Len(s) + i =< Len(s))
        /\ (Len(s) + i) - Len(s) = i
    BY <1>1
  <2> QED BY <1>2, <2>1
<1> QED BY <1>2, <1>3, <1>4

\* NewLinks lists the links that were not visited, each once.
LEMMA NewLinksAre ==
    ASSUME universe \in Universes, NEW i \in Ids, NEW new \in NewLinks(i)
    PROVE  /\ new \in Seq(Ids)
           /\ ToSet(new) = Links(i) \ visited
           /\ \A a, b \in 1..Len(new) : new[a] = new[b] => a = b
<1> DEFINE fresh == Links(i) \ visited
           n == Cardinality(fresh)
<1>1. fresh \subseteq Ids /\ n \in Nat
  <2>1. IsFiniteSet(Links(i)) /\ fresh \in SUBSET Links(i)
    BY LinksAreIds
  <2> QED BY <2>1, LinksAreIds, FS_Subset, FS_CardinalityType
<1>2. /\ new \in [1..n -> fresh] /\ ToSet(new) = fresh
      /\ \A a, b \in DOMAIN new : a < b =>
           \E k \in DOMAIN universe[i].links :
             /\ universe[i].links[k] = new[a]
             /\ \A m \in 1..k : universe[i].links[m] # new[b]
  BY DEF NewLinks, Links
<1>3. new \in Seq(Ids) /\ Len(new) = n
  <2>1. new \in [1..n -> Ids]
    BY <1>1, <1>2
  <2> HIDE DEF n
  <2> QED BY <1>1, <2>1
<1>5. \A k \in DOMAIN universe[i].links : k \in 1..k
  <2>1. universe[i].links \in Seq(Ids)
    BY QueryAssumption
  <2> QED BY <2>1, LenProperties
<1>4. \A a, b \in 1..n : new[a] = new[b] => a = b
  <2> SUFFICES ASSUME NEW a \in 1..n, NEW b \in 1..n, a < b PROVE new[a] # new[b]
    BY <1>1
  <2>1. PICK k \in DOMAIN universe[i].links :
          /\ universe[i].links[k] = new[a]
          /\ \A m \in 1..k : universe[i].links[m] # new[b]
    BY <1>2
  <2> QED BY <2>1, <1>5
<1> QED BY <1>2, <1>3, <1>4

\* What a Walk does: its event is walked, the sequence "new" of the links it
\* had not visited is queued one hop deeper.
Queued(new) ==
    LET head == Head(queue)
        old == Len(queue) - 1
    IN  /\ head = queue[1]
        /\ walked' \in Seq(Ids) /\ Len(walked') = Len(walked) + 1
        /\ \A i \in 1..Len(walked) : walked'[i] = walked[i]
        /\ walked'[Len(walked) + 1] = head.id
        /\ new \in Seq(Ids)
        /\ \A a, b \in 1..Len(new) : new[a] = new[b] => a = b
        /\ \A i \in 1..Len(new) : new[i] \in Links(head.id) \ visited
        /\ head.depth < MaxDepth => Links(head.id) \subseteq visited'
        /\ new # <<>> => head.depth < MaxDepth
        /\ visited' = visited \union {new[i] : i \in 1..Len(new)}
        /\ queue' \in Seq(Nodes) /\ Len(queue') = old + Len(new)
        /\ \A i \in 1..old : queue'[i] = queue[i + 1]
        /\ \A i \in 1..Len(new) :
             queue'[old + i] = [id |-> new[i], depth |-> head.depth + 1]

LEMMA WalkQueues ==
    ASSUME QueryTypeOK, Walk
    PROVE  \E new : Queued(new)
<1> DEFINE head == Head(queue)
<1>1. /\ queue \in Seq(Nodes) /\ queue # <<>> /\ Len(queue) \in Nat \ {0}
      /\ head \in Nodes /\ head = queue[1]
      /\ Tail(queue) \in Seq(Nodes) /\ Len(Tail(queue)) = Len(queue) - 1
      /\ \A i \in 1..(Len(queue) - 1) : Tail(queue)[i] = queue[i + 1]
  BY HeadTailProperties, EmptySeq DEF QueryTypeOK, Walk, Walking
<1>2. head.id \in Ids /\ head.depth \in 0..MaxDepth /\ MaxDepth \in Nat
  BY <1>1, QueryAssumption DEF Nodes
<1>3. PICK new \in IF head.depth >= MaxDepth THEN {<<>>} ELSE NewLinks(head.id) :
        /\ queue' = Tail(queue) \o
             [i \in DOMAIN new |-> [id |-> new[i], depth |-> head.depth + 1]]
        /\ visited' = visited \union ToSet(new)
  BY DEF Walk
<1>4. /\ new \in Seq(Ids)
      /\ \A a, b \in 1..Len(new) : new[a] = new[b] => a = b
      /\ new # <<>> => head.depth < MaxDepth
      /\ \A i \in 1..Len(new) : new[i] \in Links(head.id) \ visited
      /\ head.depth < MaxDepth => ToSet(new) = Links(head.id) \ visited
  <2>1. CASE head.depth >= MaxDepth
    BY <1>2, <1>3, <2>1
  <2>2. CASE head.depth < MaxDepth
    <3>1. new \in NewLinks(head.id)
      BY <1>2, <1>3, <2>2
    <3>2. /\ new \in Seq(Ids) /\ ToSet(new) = Links(head.id) \ visited
          /\ \A a, b \in 1..Len(new) : new[a] = new[b] => a = b
      BY <1>2, <3>1, NewLinksAre DEF QueryTypeOK
    <3>3. \A i \in 1..Len(new) : new[i] \in ToSet(new)
      BY <3>2, LenProperties DEF ToSet
    <3> QED BY <2>2, <3>2, <3>3
  <2> QED BY <1>2, <2>1, <2>2
<1>5. DOMAIN new = 1..Len(new) /\ Len(new) \in Nat
  BY <1>4, LenProperties
<1>6. PICK deeper \in Seq(Nodes) :
        /\ Len(deeper) = Len(new) /\ queue' = Tail(queue) \o deeper
        /\ \A i \in 1..Len(new) :
             deeper[i] = [id |-> new[i], depth |-> head.depth + 1]
  <2> DEFINE deeper == [i \in 1..Len(new) |-> [id |-> new[i], depth |-> head.depth + 1]]
  <2>1. \A i \in 1..Len(new) : deeper[i] \in Nodes
    BY <1>2, <1>4, <1>5, EmptySeq, ElementOfSeq DEF Nodes
  <2>2. deeper \in Seq(Nodes) /\ Len(deeper) = Len(new)
    BY <1>5, <2>1
  <2>3. queue' = Tail(queue) \o deeper
    BY <1>3, <1>5
  <2> QED BY <2>2, <2>3
<1>7. PICK tail \in Seq(Nodes) :
        /\ tail = Tail(queue) /\ Len(tail) = Len(queue) - 1
        /\ \A i \in 1..(Len(queue) - 1) : tail[i] = queue[i + 1]
  BY <1>1
<1>8. /\ queue' \in Seq(Nodes) /\ Len(queue') = Len(queue) - 1 + Len(new)
      /\ \A i \in 1..(Len(queue) - 1) : queue'[i] = queue[i + 1]
      /\ \A i \in 1..Len(new) :
           queue'[Len(queue) - 1 + i] = [id |-> new[i], depth |-> head.depth + 1]
  <2>1. queue' = tail \o deeper
    BY <1>6, <1>7
  <2>2. /\ tail \o deeper \in Seq(Nodes)
        /\ Len(tail \o deeper) = Len(tail) + Len(deeper)
        /\ \A i \in 1..Len(tail) : (tail \o deeper)[i] = tail[i]
        /\ \A i \in 1..Len(deeper) : (tail \o deeper)[Len(tail) + i] = deeper[i]
    BY Joined
  <2> QED BY <1>6, <1>7, <2>1, <2>2
<1>9. /\ walked' \in Seq(Ids) /\ Len(walked') = Len(walked) + 1
      /\ \A i \in 1..Len(walked) : walked'[i] = walked[i]
      /\ walked'[Len(walked) + 1] = head.id
  BY <1>2, AppendProperties DEF QueryTypeOK, Walk
<1>10. visited' = visited \union {new[i] : i \in 1..Len(new)}
  BY <1>3, <1>5 DEF ToSet
<1>11. head.depth < MaxDepth => Links(head.id) \subseteq visited'
  BY <1>3, <1>4
<1> QED BY <1>1, <1>4, <1>8, <1>9, <1>10, <1>11 DEF Queued

\* WalkPast only takes the head off the queue.
Dropped ==
    /\ queue' \in Seq(Nodes) /\ Len(queue') = Len(queue) - 1
    /\ \A i \in 1..(Len(queue) - 1) : queue'[i] = queue[i + 1]

LEMMA WalkPastDrops ==
    ASSUME QueryTypeOK, WalkPast
    PROVE  Dropped /\ queue # <<>> /\ Head(queue) = queue[1]
<1>1. queue \in Seq(Nodes) /\ queue # <<>> /\ queue' = Tail(queue)
  BY DEF QueryTypeOK, WalkPast, Walking
<1>2. /\ Tail(queue) \in Seq(Nodes) /\ Len(Tail(queue)) = Len(queue) - 1
      /\ \A i \in 1..Len(Tail(queue)) : Tail(queue)[i] = queue[i + 1]
  BY <1>1, HeadTailProperties
<1> QED BY <1>1, <1>2 DEF Dropped

\* What a request walks, where it starts and what steps of anyone do to it.
LEMMA StepsOfAnyone ==
    ASSUME [Next]_vars
    PROVE  /\ UNCHANGED <<universe, start>>
           /\ QueryTypeOK => seen \subseteq seen'
           /\ steady' \subseteq steady
           /\ Walk \/ WalkPast \/ StartFound \/ UNCHANGED walkVars
<1>1. CASE QueryNext
  BY <1>1
  DEF QueryNext, StartFound, StartUnknown, Walk, WalkPast, WalkEnds, ReadIndex,
      MembersRead, ReadMember, StoreFails, storeVars
<1>2. CASE \E id \in Ids : Saved(id) \/ Expired(id)
  BY <1>2 DEF Saved, Expired
<1>3. CASE UNCHANGED vars
  BY <1>3 DEF vars, storeVars
<1> QED BY <1>1, <1>2, <1>3 DEF Next

LEMMA QueryTypeOKHolds == Spec => []QueryTypeOK
<1>1. Init => QueryTypeOK
  BY EmptySeq DEF Init, QueryTypeOK
<1>2. ASSUME QueryTypeOK, [Next]_vars PROVE QueryTypeOK'
  <2>1. CASE Walk
    <3>1. PICK new : Queued(new)
      BY <1>2, <2>1, WalkQueues
    <3>2. Len(new) \in Nat /\ \A i \in 1..Len(new) : new[i] \in Ids
      BY <3>1, LenProperties, ElementOfSeq DEF Queued
    <3>3. UNCHANGED <<universe, storeVars, phase, start, members, siblings>>
      BY <2>1 DEF Walk
    <3>4. /\ queue' \in Seq(Nodes) /\ walked' \in Seq(Ids)
          /\ visited' \subseteq Ids
      BY <1>2, <3>1, <3>2 DEF Queued, QueryTypeOK
    <3> QED BY <1>2, <3>3, <3>4 DEF QueryTypeOK, storeVars
  <2>2. CASE WalkPast
    BY <1>2, <2>2, WalkPastDrops DEF Dropped, QueryTypeOK, WalkPast, storeVars
  <2>3. CASE StartFound
    <3>1. [id |-> start, depth |-> 0] \in Nodes
      BY <1>2, QueryAssumption DEF QueryTypeOK, Nodes
    <3>2. queue' \in Seq(Nodes)
      BY <2>3, <3>1 DEF StartFound
    <3> QED BY <1>2, <2>3, <3>2 DEF QueryTypeOK, StartFound, storeVars
  <2>4. CASE StartUnknown \/ WalkEnds \/ ReadIndex \/ MembersRead \/ StoreFails
    BY <1>2, <2>4
    DEF QueryTypeOK, StartUnknown, WalkEnds, ReadIndex, MembersRead, StoreFails,
        storeVars, walkVars
  <2>5. CASE \E id \in Ids : ReadMember(id)
    BY <1>2, <2>5 DEF QueryTypeOK, ReadMember, storeVars, walkVars
  <2>6. CASE \E id \in Ids : Saved(id) \/ Expired(id)
    BY <1>2, <2>6 DEF QueryTypeOK, Saved, Expired, walkVars
  <2>7. CASE UNCHANGED vars
    BY <1>2, <2>7 DEF QueryTypeOK, vars, storeVars, walkVars
  <2> QED BY <1>2, <2>1, <2>2, <2>3, <2>4, <2>5, <2>6, <2>7 DEF Next, QueryNext
<1> QED BY <1>1, <1>2, PTL DEF Spec

\* An id is queued or walked at most once.
Distinct ==
    /\ \A i \in 1..Len(queue) : queue[i].id \in visited
    /\ \A i \in 1..Len(walked) : walked[i] \in visited
    /\ \A i, j \in 1..Len(queue) : queue[i].id = queue[j].id => i = j
    /\ \A i, j \in 1..Len(walked) : walked[i] = walked[j] => i = j
    /\ \A i \in 1..Len(queue), j \in 1..Len(walked) : queue[i].id # walked[j]

LEMMA Counts ==
    ASSUME QueryTypeOK
    PROVE  /\ Len(queue) \in Nat /\ Len(walked) \in Nat
           /\ queue # <<>> <=> Len(queue) > 0
           /\ DOMAIN queue = 1..Len(queue) /\ DOMAIN walked = 1..Len(walked)
           /\ \A i \in 1..Len(queue) : queue[i] \in Nodes
           /\ \A i \in 1..Len(walked) : walked[i] \in Ids
BY LenProperties, ElementOfSeq, EmptySeq DEF QueryTypeOK

\* What is walked when: nothing before the start is found, no more than
\* MaxEvents, and all that was queued unless there are as many.
WalkBounds ==
    /\ phase \in {"start", "404"} => queue = <<>> /\ walked = <<>> /\ visited = {}
    /\ phase \in {"walk", "index", "members", "done"} => start \in visited
    /\ Len(walked) =< MaxEvents
    /\ phase \in {"index", "members", "done"} =>
         queue = <<>> \/ Len(walked) = MaxEvents

LEMMA WalkBoundsHolds == Spec => []WalkBounds
<1>1. Init => WalkBounds
  BY EmptySeq, QueryAssumption DEF Init, WalkBounds
<1>2. ASSUME QueryTypeOK, WalkBounds, [Next]_vars PROVE WalkBounds'
  <2>1. CASE Walk
    <3>1. PICK new : Queued(new)
      BY <1>2, <2>1, WalkQueues
    <3>2. /\ phase' = "walk" /\ phase = "walk" /\ Len(walked) < MaxEvents
          /\ UNCHANGED start
      BY <2>1 DEF Walk, Walking
    <3>3. /\ Len(walked') = Len(walked) + 1 /\ Len(walked) \in Nat
          /\ visited \subseteq visited'
      BY <1>2, <3>1, Counts DEF Queued
    <3> QED BY <1>2, <3>2, <3>3, QueryAssumption DEF WalkBounds
  <2>2. CASE WalkPast
    BY <1>2, <2>2 DEF WalkBounds, WalkPast, Walking
  <2>3. CASE StartFound
    BY <1>2, <2>3 DEF WalkBounds, StartFound
  <2>4. CASE WalkEnds
    <3>1. Len(walked) \in Nat /\ Len(walked) =< MaxEvents /\ start \in visited
      BY <1>2, <2>4, Counts DEF WalkBounds, WalkEnds
    <3>2. queue = <<>> \/ Len(walked) = MaxEvents
      BY <2>4, <3>1, QueryAssumption DEF WalkEnds, Walking
    <3>3. UNCHANGED <<queue, walked, visited, start>> /\ phase' \in {"index", "done"}
      BY <2>4 DEF WalkEnds, walkVars
    <3> QED BY <3>1, <3>2, <3>3 DEF WalkBounds
  <2>5. CASE \/ StartUnknown \/ ReadIndex \/ MembersRead \/ StoreFails
             \/ \E id \in Ids : ReadMember(id)
    BY <1>2, <2>5
    DEF WalkBounds, StartUnknown, ReadIndex, MembersRead, StoreFails, ReadMember, walkVars
  <2>6. CASE \/ \E id \in Ids : Saved(id) \/ Expired(id)
             \/ UNCHANGED vars
    BY <1>2, <2>6 DEF WalkBounds, Saved, Expired, vars, walkVars
  <2> QED BY <1>2, <2>1, <2>2, <2>3, <2>4, <2>5, <2>6 DEF Next, QueryNext
<1> QED BY <1>1, <1>2, QueryTypeOKHolds, PTL DEF Spec

\* The places of the queue after a Walk: an old node, moved up, or a new one.
LEMMA QueuePlaces ==
    ASSUME QueryTypeOK, queue # <<>>, NEW new, Queued(new), NEW i \in 1..Len(queue')
    PROVE  \/ /\ i \in 1..(Len(queue) - 1) /\ i + 1 \in 1..Len(queue)
              /\ queue'[i] = queue[i + 1]
           \/ /\ i - (Len(queue) - 1) \in 1..Len(new)
              /\ queue'[i] = [id |-> new[i - (Len(queue) - 1)],
                              depth |-> Head(queue).depth + 1]
<1>1. Len(new) \in Nat /\ Len(queue) \in Nat /\ Len(queue) > 0
  BY Counts, LenProperties DEF Queued
<1>2. CASE i =< Len(queue) - 1
  BY <1>1, <1>2 DEF Queued
<1>3. CASE i > Len(queue) - 1
  <2>1. /\ i - (Len(queue) - 1) \in 1..Len(new)
        /\ (Len(queue) - 1) + (i - (Len(queue) - 1)) = i
    BY <1>1, <1>3 DEF Queued
  <2> QED BY <2>1 DEF Queued
<1> QED BY <1>1, <1>2, <1>3 DEF Queued

LEMMA WalkKeepsDistinct ==
    ASSUME QueryTypeOK, Distinct, Walk
    PROVE  Distinct'
<1>1. PICK new : Queued(new)
  BY WalkQueues
<1>2. /\ queue # <<>> /\ Len(queue) \in Nat /\ Len(queue) > 0
      /\ Len(walked) \in Nat /\ Len(new) \in Nat
      /\ Len(walked') = Len(walked) + 1
  BY <1>1, Counts, LenProperties DEF Walk, Walking, Queued
<1> DEFINE head == queue[1]
<1>3. /\ Head(queue) = head /\ 1 \in 1..Len(queue)
      /\ \A i \in 1..Len(new) : new[i] \in visited' \ visited
      /\ \A i, j \in 1..Len(new) : new[i] = new[j] => i = j
      /\ visited \subseteq visited'
  BY <1>1, <1>2 DEF Queued
<1>4. \A i \in 1..Len(queue') :
        \/ /\ i \in 1..(Len(queue) - 1) /\ i + 1 \in 1..Len(queue)
           /\ queue'[i].id = queue[i + 1].id
        \/ /\ i - (Len(queue) - 1) \in 1..Len(new)
           /\ queue'[i].id = new[i - (Len(queue) - 1)]
  <2> SUFFICES ASSUME NEW i \in 1..Len(queue')
      PROVE \/ /\ i \in 1..(Len(queue) - 1) /\ i + 1 \in 1..Len(queue)
               /\ queue'[i].id = queue[i + 1].id
            \/ /\ i - (Len(queue) - 1) \in 1..Len(new)
               /\ queue'[i].id = new[i - (Len(queue) - 1)]
    OBVIOUS
  <2>1. \/ /\ i \in 1..(Len(queue) - 1) /\ i + 1 \in 1..Len(queue)
           /\ queue'[i] = queue[i + 1]
        \/ /\ i - (Len(queue) - 1) \in 1..Len(new)
           /\ queue'[i] = [id |-> new[i - (Len(queue) - 1)],
                           depth |-> Head(queue).depth + 1]
    BY <1>1, <1>2, QueuePlaces
  <2> QED BY <2>1
<1>5. \A i \in 1..Len(walked') :
        \/ i \in 1..Len(walked) /\ walked'[i] = walked[i]
        \/ i = Len(walked) + 1 /\ walked'[i] = head.id
  BY <1>1, <1>2, <1>3 DEF Queued
<1>6. Len(queue') = Len(queue) - 1 + Len(new)
  BY <1>1 DEF Queued
<1>7. \A i \in 1..Len(queue') : queue'[i].id \in visited'
  BY <1>3, <1>4 DEF Distinct
<1>8. \A i \in 1..Len(walked') : walked'[i] \in visited'
  BY <1>3, <1>5 DEF Distinct
<1>9. ASSUME NEW i \in 1..Len(queue'), NEW j \in 1..Len(queue'),
             queue'[i].id = queue'[j].id
      PROVE  i = j
  <2>1. CASE /\ i \in 1..(Len(queue) - 1) /\ i + 1 \in 1..Len(queue)
             /\ queue'[i].id = queue[i + 1].id
    <3>1. queue'[i].id \in visited
      BY <2>1 DEF Distinct
    <3>2. /\ j \in 1..(Len(queue) - 1) /\ j + 1 \in 1..Len(queue)
          /\ queue'[j].id = queue[j + 1].id
      BY <1>3, <1>4, <1>9, <3>1
    <3>3. i + 1 = j + 1
      BY <1>9, <2>1, <3>2 DEF Distinct
    <3> QED BY <1>2, <2>1, <3>2, <3>3
  <2>2. CASE /\ i - (Len(queue) - 1) \in 1..Len(new)
             /\ queue'[i].id = new[i - (Len(queue) - 1)]
    <3>1. queue'[i].id \notin visited
      BY <1>3, <2>2
    <3>2. /\ j - (Len(queue) - 1) \in 1..Len(new)
          /\ queue'[j].id = new[j - (Len(queue) - 1)]
      BY <1>4, <1>9, <3>1 DEF Distinct
    <3>3. i - (Len(queue) - 1) = j - (Len(queue) - 1)
      BY <1>3, <1>9, <2>2, <3>2
    <3> QED BY <1>2, <1>6, <3>3
  <2> QED BY <1>4, <2>1, <2>2
<1>10. ASSUME NEW i \in 1..Len(walked'), NEW j \in 1..Len(walked'),
              walked'[i] = walked'[j]
       PROVE  i = j
  <2>1. \A k \in 1..Len(walked) : walked[k] # head.id
    BY <1>3 DEF Distinct
  <2> QED BY <1>5, <1>10, <2>1 DEF Distinct
<1>11. ASSUME NEW i \in 1..Len(queue'), NEW j \in 1..Len(walked')
       PROVE  queue'[i].id # walked'[j]
  <2>1. walked'[j] \in visited
    BY <1>3, <1>5 DEF Distinct
  <2>2. CASE i \in 1..(Len(queue) - 1) /\ i + 1 \in 1..Len(queue)
             /\ queue'[i].id = queue[i + 1].id
    <3>1. queue[i + 1].id # head.id
      BY <1>2, <1>3, <2>2 DEF Distinct
    <3> QED BY <1>5, <2>2, <3>1 DEF Distinct
  <2> QED BY <1>3, <1>4, <2>1, <2>2
<1> QED BY <1>7, <1>8, <1>9, <1>10, <1>11 DEF Distinct

LEMMA DistinctHolds == Spec => []Distinct
<1>1. Init => Distinct
  BY EmptySeq DEF Init, Distinct
<1>2. ASSUME QueryTypeOK, WalkBounds, Distinct, [Next]_vars PROVE Distinct'
  <2>1. CASE Walk
    BY <1>2, <2>1, WalkKeepsDistinct
  <2>2. CASE WalkPast
    <3>1. /\ Len(queue) \in Nat /\ UNCHANGED <<walked, visited>> /\ Dropped
      BY <1>2, <2>2, WalkPastDrops, Counts DEF WalkPast
    <3>2. \A i \in 1..Len(queue') :
            i + 1 \in 1..Len(queue) /\ queue'[i] = queue[i + 1]
      BY <3>1 DEF Dropped
    <3>3. \A i, j \in 1..Len(queue') : i + 1 = j + 1 => i = j
      BY <3>1 DEF Dropped
    <3>4. ASSUME NEW i \in 1..Len(queue'), NEW j \in 1..Len(queue'),
                 queue'[i].id = queue'[j].id
          PROVE  i = j
      <4>1. /\ i + 1 \in 1..Len(queue) /\ j + 1 \in 1..Len(queue)
            /\ queue[i + 1].id = queue[j + 1].id
        BY <3>2, <3>4
      <4>2. i + 1 = j + 1
        BY <1>2, <4>1 DEF Distinct
      <4> QED BY <3>3, <4>2
    <3>5. \A i \in 1..Len(queue') :
            /\ queue'[i].id \in visited'
            /\ \A j \in 1..Len(walked') : queue'[i].id # walked'[j]
      BY <1>2, <3>1, <3>2 DEF Distinct
    <3> QED BY <1>2, <3>1, <3>4, <3>5 DEF Distinct
  <2>3. CASE StartFound
    <3>1. /\ queue' = <<[id |-> start, depth |-> 0]>> /\ visited' = {start}
          /\ walked' = <<>>
      BY <1>2, <2>3 DEF StartFound, WalkBounds
    <3> QED BY <3>1 DEF Distinct
  <2>4. CASE UNCHANGED walkVars
    BY <1>2, <2>4 DEF Distinct, walkVars
  <2> QED BY <1>2, <2>1, <2>2, <2>3, <2>4, StepsOfAnyone
<1> QED BY <1>1, <1>2, QueryTypeOKHolds, WalkBoundsHolds, PTL DEF Spec

\* What the chain index and the reads of its members yield.
SiblingsInv ==
    /\ \A i \in members \union siblings : SameChain(i)
    /\ siblings \subseteq seen
    /\ phase \in {"index", "members"} => ChainOf(start) # NoChain
    /\ phase = "members" => \A i \in steady : SameChain(i) => i \in members \union siblings
    /\ phase = "done" => \A i \in steady : SameChain(i) => i \in siblings

LEMMA SiblingsInvHolds == Spec => []SiblingsInv
<1>1. Init => SiblingsInv
  BY DEF Init, SiblingsInv
<1>2. ASSUME QueryTypeOK, SiblingsInv, [Next]_vars PROVE SiblingsInv'
  <2>1. UNCHANGED <<universe, start>> /\ seen \subseteq seen' /\ steady' \subseteq steady
    BY <1>2, StepsOfAnyone
  <2>2. \A i : SameChain(i)' <=> SameChain(i)
    BY <2>1 DEF SameChain, ChainOf
  <2>3. (ChainOf(start) = NoChain)' <=> ChainOf(start) = NoChain
    BY <2>1 DEF ChainOf
  <2>4. CASE StartFound \/ StartUnknown \/ Walk \/ WalkPast \/ StoreFails
    <3>1. phase' \in {"walk", "404", "500"} /\ UNCHANGED <<members, siblings, seen>>
      BY <2>4
      DEF StartFound, StartUnknown, Walk, WalkPast, StoreFails, Walking, storeVars
    <3> QED BY <1>2, <2>2, <3>1 DEF SiblingsInv
  <2>5. CASE WalkEnds
    <3>1. /\ phase' = IF ChainOf(start) = NoChain THEN "done" ELSE "index"
          /\ UNCHANGED <<members, siblings, seen>>
      BY <2>5 DEF WalkEnds, storeVars
    <3> QED BY <1>2, <2>2, <2>3, <3>1 DEF SiblingsInv, SameChain
  <2>6. CASE ReadIndex
    <3>1. PICK lapsed \in SUBSET {i \in Ids \ stored : ChainOf(i) = ChainOf(start)} :
            members' = {i \in stored : ChainOf(i) = ChainOf(start)} \union lapsed
      BY <2>6 DEF ReadIndex
    <3>2. /\ phase' = "members" /\ phase = "index"
          /\ UNCHANGED <<siblings, seen, steady>>
      BY <2>6 DEF ReadIndex, storeVars
    <3>3. \A i \in members' : SameChain(i)
      BY <1>2, <3>1, <3>2 DEF SiblingsInv, SameChain
    <3>4. \A i \in steady : SameChain(i) => i \in members'
      BY <1>2, <3>1 DEF QueryTypeOK, SameChain
    <3> QED BY <1>2, <2>2, <2>3, <3>2, <3>3, <3>4 DEF SiblingsInv
  <2>7. CASE MembersRead
    BY <1>2, <2>1, <2>2, <2>3, <2>7 DEF SiblingsInv, MembersRead, storeVars
  <2>8. CASE \E id \in Ids : ReadMember(id)
    <3>1. PICK id \in Ids : ReadMember(id)
      BY <2>8
    <3>2. /\ phase = "members" /\ phase' = "members" /\ id \in members
          /\ members' = members \ {id}
          /\ siblings' = IF id \in stored THEN siblings \union {id} ELSE siblings
          /\ UNCHANGED <<seen, steady>>
      BY <3>1 DEF ReadMember, storeVars
    <3>3. \A i \in steady : SameChain(i) => i \in members' \union siblings'
      BY <1>2, <3>2 DEF SiblingsInv, QueryTypeOK
    <3>4. \A i \in members' \union siblings' : SameChain(i)
      BY <1>2, <3>2 DEF SiblingsInv
    <3>5. siblings' \subseteq seen
      BY <1>2, <3>2 DEF SiblingsInv, QueryTypeOK
    <3> QED BY <1>2, <2>2, <2>3, <3>2, <3>3, <3>4, <3>5 DEF SiblingsInv
  <2>9. CASE \/ \E id \in Ids : Saved(id) \/ Expired(id)
             \/ UNCHANGED vars
    <3>1. UNCHANGED <<phase, members, siblings>>
      BY <2>9 DEF Saved, Expired, vars
    <3> QED BY <1>2, <2>1, <2>2, <2>3, <3>1 DEF SiblingsInv
  <2> QED BY <1>2, <2>4, <2>5, <2>6, <2>7, <2>8, <2>9 DEF Next, QueryNext
<1> QED BY <1>1, <1>2, QueryTypeOKHolds, PTL DEF Spec

\* A walked event is reached by a path over seen events; a queued one is linked
\* from such an event.
Reached(S, i, d) == \E p \in Paths(S, d) : p[d] = i

LinkedFrom(S, n) ==
    IF n.depth = 0 THEN n.id = start
    ELSE \E j \in S : Reached(S, j, n.depth - 1) /\ n.id \in Links(j)

LEMMA LinkedIsReached ==
    ASSUME NEW S, NEW n \in Nodes, LinkedFrom(S, n), n.id \in S
    PROVE  Reached(S, n.id, n.depth)
<1>1. n.depth \in Nat
  BY QueryAssumption DEF Nodes
<1>2. CASE n.depth = 0
  <2> DEFINE p == [k \in 0..0 |-> start]
  <2>1. p \in Paths(S, 0) /\ p[0] = n.id
    BY <1>2 DEF LinkedFrom, Paths
  <2> QED BY <1>2, <2>1 DEF Reached
<1>3. CASE n.depth # 0
  <2> DEFINE d == n.depth
  <2>1. PICK p \in Paths(S, d - 1) : n.id \in Links(p[d - 1])
    BY <1>3 DEF LinkedFrom, Reached
  <2> DEFINE q == [k \in 0..d |-> IF k = d THEN n.id ELSE p[k]]
  <2>2. /\ p \in [0..(d - 1) -> S] /\ p[0] = start
        /\ \A k \in 1..(d - 1) : p[k] \in Links(p[k - 1])
    BY <2>1 DEF Paths, Links
  <2>3. q \in [0..d -> S]
    BY <1>1, <2>2
  <2>4. q[0] = start /\ q[d] = n.id
    BY <1>1, <1>3, <2>2
  <2>5. \A k \in 1..d : q[k] \in Links(q[k - 1])
    BY <1>1, <1>3, <2>1, <2>2
  <2>6. q \in Paths(S, d)
    BY <2>3, <2>4, <2>5 DEF Paths, Links
  <2> QED BY <2>4, <2>6 DEF Reached
<1> QED BY <1>2, <1>3

LEMMA ReachedInMore ==
    ASSUME NEW S, NEW T, S \subseteq T, NEW i, NEW d, Reached(S, i, d)
    PROVE  Reached(T, i, d)
BY DEF Reached, Paths

LEMMA LinkedFromMore ==
    ASSUME NEW S, NEW T, S \subseteq T, NEW n, LinkedFrom(S, n)
    PROVE  LinkedFrom(T, n)
BY ReachedInMore DEF LinkedFrom

JustifiedInv ==
    /\ \A i \in 1..Len(walked) : \E d \in 0..MaxDepth : Reached(seen, walked[i], d)
    /\ \A i \in 1..Len(queue) : LinkedFrom(seen, queue[i])

LEMMA WalkKeepsJustified ==
    ASSUME QueryTypeOK, JustifiedInv, Walk
    PROVE  /\ \A i \in 1..Len(walked') :
                \E d \in 0..MaxDepth : Reached(seen, walked'[i], d)
           /\ \A i \in 1..Len(queue') : LinkedFrom(seen, queue'[i])
<1>1. PICK new : Queued(new)
  BY WalkQueues
<1>2. queue # <<>> /\ Head(queue).id \in stored
  BY DEF Walk, Walking
<1> DEFINE head == Head(queue)
<1>3. /\ head = queue[1] /\ 1 \in 1..Len(queue) /\ head \in Nodes
      /\ head.id \in seen /\ head.depth \in 0..MaxDepth
  BY <1>1, <1>2, Counts DEF Queued, QueryTypeOK, Nodes
<1>4. Reached(seen, head.id, head.depth)
  BY <1>3, LinkedIsReached DEF JustifiedInv
<1>5. \A i \in 1..Len(walked') :
        \/ i \in 1..Len(walked) /\ walked'[i] = walked[i]
        \/ walked'[i] = head.id
  BY <1>1, Counts DEF Queued
<1>6. ASSUME NEW i \in 1..Len(queue') PROVE LinkedFrom(seen, queue'[i])
  <2>1. CASE i + 1 \in 1..Len(queue) /\ queue'[i] = queue[i + 1]
    BY <2>1 DEF JustifiedInv
  <2>2. CASE /\ i - (Len(queue) - 1) \in 1..Len(new)
             /\ queue'[i] = [id |-> new[i - (Len(queue) - 1)],
                             depth |-> head.depth + 1]
    <3>1. /\ queue'[i].id \in Links(head.id)
          /\ queue'[i].depth = head.depth + 1
      BY <1>1, <2>2 DEF Queued
    <3>2. queue'[i].depth # 0 /\ queue'[i].depth - 1 = head.depth
      BY <1>3, <3>1, QueryAssumption
    <3> QED BY <1>3, <1>4, <3>1, <3>2 DEF LinkedFrom
  <2> QED BY <1>1, <1>2, <2>1, <2>2, QueuePlaces
<1> QED BY <1>3, <1>4, <1>5, <1>6 DEF JustifiedInv

LEMMA JustifiedInvHolds == Spec => []JustifiedInv
<1>1. Init => JustifiedInv
  BY EmptySeq DEF Init, JustifiedInv
<1>2. ASSUME QueryTypeOK, WalkBounds, JustifiedInv, [Next]_vars PROVE JustifiedInv'
  <2>1. /\ UNCHANGED <<universe, start>> /\ seen \subseteq seen'
        /\ Walk \/ WalkPast \/ StartFound \/ UNCHANGED walkVars
    BY <1>2, StepsOfAnyone
  <2>2. \A S, i, d : Reached(S, i, d)' <=> Reached(S, i, d)
    BY <2>1 DEF Reached, Paths
  <2>3. \A S, n : LinkedFrom(S, n)' <=> LinkedFrom(S, n)
    BY <2>1, <2>2 DEF LinkedFrom, Links
  <2>4. SUFFICES
          /\ \A i \in 1..Len(walked') :
               \E d \in 0..MaxDepth : Reached(seen, walked'[i], d)
          /\ \A i \in 1..Len(queue') : LinkedFrom(seen, queue'[i])
    BY <2>1, <2>2, <2>3, <2>4, ReachedInMore, LinkedFromMore DEF JustifiedInv
  <2>5. CASE Walk
    BY <1>2, <2>5, WalkKeepsJustified
  <2>6. CASE WalkPast
    <3>1. Dropped /\ UNCHANGED walked /\ Len(queue) \in Nat
      BY <1>2, <2>6, WalkPastDrops, Counts DEF WalkPast
    <3>2. \A i \in 1..Len(queue') :
            i + 1 \in 1..Len(queue) /\ queue'[i] = queue[i + 1]
      BY <3>1 DEF Dropped
    <3> QED BY <1>2, <3>1, <3>2 DEF JustifiedInv
  <2>7. CASE StartFound
    <3>1. /\ queue' = <<[id |-> start, depth |-> 0]>> /\ walked' = <<>>
      BY <1>2, <2>7 DEF StartFound, WalkBounds
    <3> QED BY <3>1 DEF LinkedFrom
  <2>8. CASE UNCHANGED walkVars
    BY <1>2, <2>8 DEF JustifiedInv, walkVars
  <2> QED BY <2>1, <2>5, <2>6, <2>7, <2>8
<1> QED BY <1>1, <1>2, QueryTypeOKHolds, WalkBoundsHolds, PTL DEF Spec

\* Breadth first: D gives each visited id the depth it was queued at.  Depths
\* in the queue never fall, and no id is deeper than the head and one; what a
\* walked event links to is visited, one deeper at most; and what the store
\* held all the time is visited only to be walked.
Levels(D) ==
    /\ D \in [visited -> 0..MaxDepth]
    /\ D[start] = 0
    /\ \A i \in 1..Len(queue) : D[queue[i].id] = queue[i].depth
    /\ \A i, j \in 1..Len(queue) : i =< j => queue[i].depth =< queue[j].depth
    /\ \A i \in 1..Len(queue), v \in visited : D[v] =< queue[i].depth + 1
    /\ \A i \in 1..Len(walked) : D[walked[i]] < MaxDepth =>
         \A l \in Links(walked[i]) : l \in visited /\ D[l] =< D[walked[i]] + 1
    /\ \A v \in visited \intersect steady :
         \/ \E i \in 1..Len(walked) : walked[i] = v
         \/ \E i \in 1..Len(queue) : queue[i].id = v

LevelsInv == start \in visited => \E D : Levels(D)

LEMMA WalkKeepsLevels ==
    ASSUME QueryTypeOK, Distinct, Walk, start \in visited, NEW D, Levels(D)
    PROVE  LevelsInv'
<1>1. PICK new : Queued(new)
  BY WalkQueues
<1> PICK head : head = queue[1]
  OBVIOUS
<1>2. /\ queue # <<>> /\ Len(queue) \in Nat /\ Len(queue) > 0
      /\ 1 \in 1..Len(queue) /\ Head(queue) = head
      /\ Len(walked) \in Nat /\ Len(new) \in Nat
      /\ UNCHANGED <<universe, start, steady>>
  BY <1>1, Counts, LenProperties DEF Walk, Walking, Queued, storeVars
<1>3. /\ head.id \in visited /\ head.depth \in 0..MaxDepth /\ MaxDepth \in Nat
      /\ D[head.id] = head.depth
  <2>1. queue[1] \in Nodes
    BY <1>2, Counts
  <2>2. queue[1].id \in visited /\ D[queue[1].id] = queue[1].depth
    BY <1>2 DEF Distinct, Levels
  <2> QED BY <2>1, <2>2, QueryAssumption DEF Nodes
<1> PICK E : E = [v \in visited' |-> IF v \in visited THEN D[v] ELSE head.depth + 1]
  OBVIOUS
<1>4. /\ visited \subseteq visited'
      /\ \A v \in visited : E[v] = D[v] /\ D[v] \in 0..MaxDepth
      /\ \A v \in visited' \ visited : E[v] = head.depth + 1
      /\ \A i \in 1..Len(new) : new[i] \in visited' \ visited
  <2>1. /\ visited \subseteq visited'
        /\ \A i \in 1..Len(new) : new[i] \in visited' \ visited
    BY <1>1 DEF Queued
  <2>2. \A v \in visited : D[v] \in 0..MaxDepth
    BY DEF Levels
  <2> QED BY <2>1, <2>2
<1>5. \A v \in visited' \ visited : /\ head.depth < MaxDepth
                                   /\ \E i \in 1..Len(new) : v = new[i]
  BY <1>1, <1>2, EmptySeq DEF Queued
<1>6. \A v \in visited' : E[v] =< head.depth + 1
  BY <1>2, <1>3, <1>4 DEF Levels
<1>7. E \in [visited' -> 0..MaxDepth]
  <2>1. \A v \in visited' : E[v] \in 0..MaxDepth
    <3> SUFFICES ASSUME NEW v \in visited' PROVE E[v] \in 0..MaxDepth
      OBVIOUS
    <3>1. CASE v \in visited
      BY <1>4, <3>1
    <3>2. CASE v \notin visited
      <4>1. E[v] = head.depth + 1 /\ head.depth < MaxDepth
        BY <1>4, <1>5, <3>2
      <4> QED BY <1>3, <4>1
    <3> QED BY <3>1, <3>2
  <2> QED BY <2>1
<1>8. E[start] = 0
  BY <1>4 DEF Levels
\* An old node of the queue or a new one.
<1> DEFINE Old(i) == i + 1 \in 1..Len(queue) /\ queue'[i] = queue[i + 1]
           New(i) == /\ i - (Len(queue) - 1) \in 1..Len(new)
                     /\ queue'[i].id = new[i - (Len(queue) - 1)]
                     /\ queue'[i].depth = head.depth + 1
<1>9. \A i \in 1..Len(queue') : Old(i) \/ New(i)
  <2> SUFFICES ASSUME NEW i \in 1..Len(queue') PROVE Old(i) \/ New(i)
    OBVIOUS
  <2>1. CASE i + 1 \in 1..Len(queue) /\ queue'[i] = queue[i + 1]
    BY <2>1
  <2>2. CASE /\ i - (Len(queue) - 1) \in 1..Len(new)
             /\ queue'[i] = [id |-> new[i - (Len(queue) - 1)],
                             depth |-> Head(queue).depth + 1]
    BY <1>2, <2>2
  <2> QED BY <1>1, <1>2, <2>1, <2>2, QueuePlaces
<1>10. \A i \in 1..Len(queue') : Old(i) => /\ queue'[i].id \in visited
                                           /\ queue'[i].depth \in 0..MaxDepth
                                           /\ queue'[i].depth >= head.depth
                                           /\ queue'[i].depth =< head.depth + 1
  <2> SUFFICES ASSUME NEW i \in 1..Len(queue'), Old(i)
               PROVE  /\ queue[i + 1].id \in visited
                      /\ queue[i + 1].depth \in 0..MaxDepth
                      /\ queue[i + 1].depth >= head.depth
                      /\ queue[i + 1].depth =< head.depth + 1
    OBVIOUS
  <2>1. queue[i + 1] \in Nodes /\ queue[i + 1].id \in visited
    BY Counts DEF Distinct
  <2>2. /\ 1 =< i + 1 => head.depth =< queue[i + 1].depth
        /\ D[queue[i + 1].id] =< head.depth + 1
        /\ D[queue[i + 1].id] = queue[i + 1].depth
    BY <1>2, <2>1 DEF Levels
  <2>3. queue[i + 1].depth \in 0..MaxDepth
    BY <2>1 DEF Nodes
  <2> QED BY <1>2, <1>3, <2>1, <2>2, <2>3
<1>11. \A i \in 1..Len(queue') : E[queue'[i].id] = queue'[i].depth
  <2> SUFFICES ASSUME NEW i \in 1..Len(queue') PROVE E[queue'[i].id] = queue'[i].depth
    OBVIOUS
  <2>1. CASE Old(i)
    <3>1. queue'[i].id \in visited
      BY <1>10, <2>1
    <3>2. D[queue[i + 1].id] = queue[i + 1].depth
      BY <2>1 DEF Levels
    <3> QED BY <1>4, <2>1, <3>1, <3>2
  <2>2. CASE New(i)
    BY <1>4, <2>2
  <2> QED BY <1>9, <2>1, <2>2
<1>12. ASSUME NEW i \in 1..Len(queue'), NEW j \in 1..Len(queue'), i =< j
       PROVE  queue'[i].depth =< queue'[j].depth
  <2>1. CASE Old(i) /\ Old(j)
    <3>1. i + 1 =< j + 1
      BY <1>12
    <3>2. queue[i + 1].depth =< queue[j + 1].depth
      BY <2>1, <3>1 DEF Levels
    <3> QED BY <2>1, <3>2
  <2>2. CASE New(j)
    <3>1. queue'[i].depth =< head.depth + 1
      <4>1. CASE Old(i)
        BY <1>10, <4>1
      <4>2. CASE New(i)
        BY <1>3, <4>2
      <4> QED BY <1>9, <4>1, <4>2
    <3> QED BY <2>2, <3>1
  <2>3. CASE New(i) /\ Old(j)
    BY <1>2, <1>12, <2>3
  <2> QED BY <1>9, <2>1, <2>2, <2>3
<1>13. \A i \in 1..Len(queue'), v \in visited' : E[v] =< queue'[i].depth + 1
  <2> SUFFICES ASSUME NEW i \in 1..Len(queue'), NEW v \in visited'
               PROVE  E[v] =< queue'[i].depth + 1
    OBVIOUS
  <2>1. queue'[i].depth >= head.depth /\ queue'[i].depth \in Nat
    BY <1>3, <1>9, <1>10
  <2>2. E[v] \in 0..MaxDepth /\ E[v] =< head.depth + 1
    BY <1>6, <1>7
  <2> QED BY <1>3, <2>1, <2>2
<1>14. \A i \in 1..Len(walked') :
        \/ i \in 1..Len(walked) /\ walked'[i] = walked[i]
        \/ walked'[i] = head.id
  BY <1>1, <1>2 DEF Queued
<1>15. ASSUME NEW i \in 1..Len(walked'), E[walked'[i]] < MaxDepth,
              NEW l \in Links(walked'[i])
       PROVE  l \in visited' /\ E[l] =< E[walked'[i]] + 1
  <2>1. CASE i \in 1..Len(walked) /\ walked'[i] = walked[i]
    <3>1. walked[i] \in visited
      BY <2>1 DEF Distinct
    <3>2. l \in visited /\ D[l] =< D[walked[i]] + 1
      BY <1>4, <1>15, <2>1, <3>1 DEF Levels
    <3> QED BY <1>4, <2>1, <3>1, <3>2
  <2>2. CASE walked'[i] = head.id
    <3>1. head.depth < MaxDepth
      BY <1>3, <1>4, <1>15, <2>2
    <3>2. l \in visited'
      BY <1>1, <1>2, <1>15, <2>2, <3>1 DEF Queued
    <3> QED BY <1>3, <1>4, <1>6, <2>2, <3>2
  <2> QED BY <1>14, <2>1, <2>2
<1>16. ASSUME NEW v \in visited' \intersect steady'
       PROVE  \/ \E i \in 1..Len(walked') : walked'[i] = v
              \/ \E i \in 1..Len(queue') : queue'[i].id = v
  <2>1. CASE v \notin visited
    <3>1. PICK i \in 1..Len(new) : v = new[i]
      BY <1>5, <1>16, <2>1
    <3>2. Len(queue') = Len(queue) - 1 + Len(new)
      BY <1>1 DEF Queued
    <3>3. queue'[Len(queue) - 1 + i] = [id |-> new[i], depth |-> Head(queue).depth + 1]
      BY <1>1, <3>1 DEF Queued
    <3>4. Len(queue) - 1 + i \in 1..Len(queue')
      BY <1>2, <3>1, <3>2
    <3> QED BY <3>1, <3>3, <3>4
  <2>2. CASE \E i \in 1..Len(walked) : walked[i] = v
    <3>1. PICK i \in 1..Len(walked) : walked[i] = v
      BY <2>2
    <3>2. i \in 1..Len(walked') /\ walked'[i] = v
      BY <1>1, <1>2, <3>1 DEF Queued
    <3> QED BY <3>2
  <2>3. CASE \E i \in 1..Len(queue) : queue[i].id = v
    <3>1. PICK i \in 1..Len(queue) : queue[i].id = v
      BY <2>3
    <3>2. CASE i = 1
      <4>1. Len(walked) + 1 \in 1..Len(walked') /\ walked'[Len(walked) + 1] = v
        BY <1>1, <1>2, <3>1, <3>2 DEF Queued
      <4> QED BY <4>1
    <3>3. CASE i # 1
      <4>1. /\ i - 1 \in 1..(Len(queue) - 1) /\ (i - 1) + 1 = i
            /\ i - 1 \in 1..Len(queue')
        BY <1>1, <1>2, <3>3 DEF Queued
      <4>2. queue'[i - 1] = queue[(i - 1) + 1]
        BY <1>1, <4>1 DEF Queued
      <4> QED BY <3>1, <4>1, <4>2
    <3> QED BY <3>2, <3>3
  <2> QED BY <1>2, <1>16, <2>1, <2>2, <2>3 DEF Levels
<1>17. \A i : Links(i)' = Links(i)
  BY <1>2 DEF Links
<1>18. Levels(E)'
  BY <1>2, <1>7, <1>8, <1>11, <1>12, <1>13, <1>15, <1>16, <1>17 DEF Levels
<1> QED BY <1>18 DEF LevelsInv

LEMMA LevelsInvHolds == Spec => []LevelsInv
<1>1. Init => LevelsInv
  BY DEF Init, LevelsInv
<1>2. ASSUME QueryTypeOK, WalkBounds, Distinct, LevelsInv, [Next]_vars
      PROVE  LevelsInv'
  <2>1. /\ UNCHANGED <<universe, start>> /\ steady' \subseteq steady
        /\ Walk \/ WalkPast \/ StartFound \/ UNCHANGED walkVars
    BY <1>2, StepsOfAnyone
  <2>2. \A i : Links(i)' = Links(i)
    BY <2>1 DEF Links
  <2>3. CASE Walk
    <3>1. start \in visited
      BY <1>2, <2>3 DEF WalkBounds, Walk, Walking
    <3>2. PICK D : Levels(D)
      BY <1>2, <3>1 DEF LevelsInv
    <3> QED BY <1>2, <2>3, <3>1, <3>2, WalkKeepsLevels
  <2>4. CASE WalkPast
    <3>1. /\ start \in visited /\ UNCHANGED <<walked, visited, steady>>
          /\ Head(queue).id \notin stored
      BY <1>2, <2>4 DEF WalkBounds, WalkPast, Walking, storeVars
    <3>2. PICK D : Levels(D)
      BY <1>2, <3>1 DEF LevelsInv
    <3>3. /\ Dropped /\ Len(queue) \in Nat /\ Head(queue) = queue[1]
      BY <1>2, <2>4, WalkPastDrops, Counts
    <3>4. \A i \in 1..Len(queue') :
            i + 1 \in 1..Len(queue) /\ queue'[i] = queue[i + 1]
      BY <3>3 DEF Dropped
    <3>5. \A i, j \in 1..Len(queue') : i =< j => i + 1 =< j + 1
      BY <3>3 DEF Dropped
    <3>6. \A i, j \in 1..Len(queue') : i =< j => queue'[i].depth =< queue'[j].depth
      BY <3>2, <3>4, <3>5 DEF Levels
    <3>7. ASSUME NEW v \in visited \intersect steady
          PROVE  \/ \E i \in 1..Len(walked) : walked[i] = v
                 \/ \E i \in 1..Len(queue') : queue'[i].id = v
      <4>1. CASE \E i \in 1..Len(queue) : queue[i].id = v
        <5>1. PICK i \in 1..Len(queue) : queue[i].id = v
          BY <4>1
        <5>2. i # 1
          BY <1>2, <3>1, <3>3, <3>7, <5>1 DEF QueryTypeOK
        <5>3. i - 1 \in 1..Len(queue') /\ i - 1 \in 1..(Len(queue) - 1) /\ (i - 1) + 1 = i
          BY <3>3, <5>2 DEF Dropped
        <5>4. queue'[i - 1] = queue[(i - 1) + 1]
          BY <3>3, <5>3 DEF Dropped
        <5> QED BY <5>1, <5>3, <5>4
      <4> QED BY <3>2, <3>7, <4>1 DEF Levels
    <3>8. /\ \A i \in 1..Len(queue') : D[queue'[i].id] = queue'[i].depth
          /\ \A i \in 1..Len(queue'), v \in visited : D[v] =< queue'[i].depth + 1
      BY <3>2, <3>4 DEF Levels
    <3>9. Levels(D)'
      BY <2>1, <2>2, <3>1, <3>2, <3>6, <3>7, <3>8 DEF Levels
    <3> QED BY <3>9 DEF LevelsInv
  <2>5. CASE StartFound
    <3>1. /\ queue' = <<[id |-> start, depth |-> 0]>> /\ visited' = {start}
          /\ walked' = <<>>
      BY <1>2, <2>5 DEF StartFound, WalkBounds
    <3>2. Len(queue') = 1 /\ queue'[1].id = start /\ queue'[1].depth = 0 /\ Len(walked') = 0
      BY <3>1
    <3> DEFINE D == [v \in {start} |-> 0]
    <3>3. Levels(D)'
      BY <2>1, <3>1, <3>2, QueryAssumption DEF Levels
    <3> QED BY <3>3 DEF LevelsInv
  <2>6. CASE UNCHANGED walkVars
    <3>1. ASSUME NEW D, Levels(D) PROVE Levels(D)'
      BY <2>1, <2>2, <2>6, <3>1 DEF Levels, walkVars
    <3> QED BY <1>2, <2>1, <2>6, <3>1 DEF LevelsInv, walkVars
  <2> QED BY <2>1, <2>3, <2>4, <2>5, <2>6
<1> QED BY <1>1, <1>2, QueryTypeOKHolds, WalkBoundsHolds, DistinctHolds, PTL DEF Spec

\* An empty queue leaves no event unwalked that a path of stored ones leads to:
\* the first of such a path that was not visited at its depth follows one that
\* was walked.
LEMMA NoPathIsLeft ==
    ASSUME QueryTypeOK, start \in visited, LevelsInv, queue = <<>>,
           NEW n \in 0..MaxDepth, NEW p \in Paths(steady, n)
    PROVE  p[n] \in ToSet(walked)
<1>1. PICK D : Levels(D)
  BY DEF LevelsInv
<1>2. /\ n \in Nat /\ n =< MaxDepth /\ MaxDepth \in Nat
      /\ p \in [0..n -> steady] /\ p[0] = start
      /\ \A k \in 1..n : p[k] \in Links(p[k - 1])
  BY QueryAssumption DEF Paths, Links
<1>3. \A v \in visited \intersect steady : \E i \in 1..Len(walked) : walked[i] = v
  BY <1>1 DEF Levels
<1> DEFINE On(k) == p[k] \in visited /\ D[p[k]] =< k
           T == {k \in 0..n : ~On(k)}
<1>4. T = {}
  <2> SUFFICES ASSUME T # {} PROVE FALSE
    OBVIOUS
  <2>1. T \subseteq Nat
    BY <1>2
  <2>2. PICK k \in T : \A m \in T : <<m, k>> \notin OpToRel(<, Nat)
    BY <2>1, NatLessThanWellFounded, WFMin
  <2>3. k \in Nat /\ \A m \in T : ~(m < k)
    BY <2>1, <2>2 DEF OpToRel
  <2>4. k # 0
    <3>1. On(0)
      BY <1>1, <1>2 DEF Levels
    <3>2. ~On(k)
      BY <2>2
    <3> QED BY <3>1, <3>2
  <2>5. k - 1 \in 0..n /\ k \in 1..n /\ On(k - 1)
    <3>1. k \in 0..n
      BY <2>2
    <3>2. k \in 1..n /\ k - 1 \in 0..n /\ k - 1 < k
      BY <1>2, <2>4, <3>1
    <3>3. k - 1 \notin T
      BY <2>3, <3>2
    <3> QED BY <3>2, <3>3
  <2>6. PICK i \in 1..Len(walked) : walked[i] = p[k - 1]
    BY <1>2, <1>3, <2>5
  <2>7. D[p[k - 1]] \in 0..MaxDepth /\ D[p[k - 1]] =< k - 1
    BY <1>1, <2>5 DEF Levels
  <2>8. D[walked[i]] < MaxDepth
    <3>1. k - 1 < MaxDepth
      BY <1>2, <2>3, <2>5
    <3> QED BY <1>2, <2>3, <2>6, <2>7, <3>1
  <2>9. p[k] \in visited /\ D[p[k]] =< D[p[k - 1]] + 1
    <3>1. p[k] \in Links(walked[i])
      BY <1>2, <2>5, <2>6
    <3> QED BY <1>1, <2>6, <2>8, <3>1 DEF Levels
  <2>10. D[p[k]] \in 0..MaxDepth
    BY <1>1, <2>9 DEF Levels
  <2>11. On(k)
    BY <2>3, <2>7, <2>9, <2>10
  <2> QED BY <2>2, <2>11
<1>5. p[n] \in visited /\ p[n] \in steady
  BY <1>2, <1>4
<1> QED BY <1>3, <1>5, Counts DEF ToSet
-----------------------------------------------------------------------------
\* BuildChain keeps to its types and limits, and queues before it walks.
THEOREM TypeCorrect == Spec => []TypeOK
<1>1. QueryTypeOK /\ WalkBounds /\ Distinct => TypeOK
  <2> SUFFICES ASSUME QueryTypeOK, WalkBounds, Distinct PROVE TypeOK
    OBVIOUS
  <2>1. \A n \in ToSet(queue) : n.id \in visited /\ n.depth \in 0..MaxDepth
    BY Counts DEF Distinct, ToSet, Nodes
  <2>2. ToSet(walked) \subseteq visited
    BY Counts DEF Distinct, ToSet
  <2> QED BY <2>1, <2>2 DEF QueryTypeOK, TypeOK
<1> QED BY <1>1, QueryTypeOKHolds, WalkBoundsHolds, DistinctHolds, PTL

\* Cycles, diamonds and repeated links do not make the walk visit an event twice
\* (graph.go:58).
THEOREM EventsAreWalkedOnce == Spec => []EachEventOnce
<1>1. QueryTypeOK /\ Distinct => EachEventOnce
  BY Counts DEF Distinct, EachEventOnce, IsInjective
<1> QED BY <1>1, QueryTypeOKHolds, DistinctHolds, PTL

\* A chain holds no event that was not stored while the request ran, and none
\* that neither links of such events nor the chainId lead to.
THEOREM ChainsAreJustified == Spec => []ChainIsJustified
<1>1. QueryTypeOK /\ SiblingsInv /\ JustifiedInv => ChainIsJustified
  <2> SUFFICES ASSUME QueryTypeOK, SiblingsInv, JustifiedInv, NEW i \in Chain
               PROVE  i \in seen /\ (i \in Within(seen) \/ SameChain(i))
    BY DEF ChainIsJustified
  <2>1. CASE i \in siblings
    BY <2>1 DEF SiblingsInv
  <2>2. CASE i \in ToSet(walked)
    <3>1. PICK d \in 0..MaxDepth : \E p \in Paths(seen, d) : p[d] = i
      BY <2>2, Counts DEF ToSet, JustifiedInv, Reached
    <3>2. PICK p \in Paths(seen, d) : p[d] = i
      BY <3>1
    <3>3. p[d] \in seen
      BY <3>2, QueryAssumption DEF Paths
    <3> QED BY <3>2, <3>3 DEF Within
  <2> QED BY <2>1, <2>2 DEF Chain
<1> QED BY <1>1, QueryTypeOKHolds, SiblingsInvHolds, JustifiedInvHolds, PTL

\* What is stored all through the request is in the chain, whatever is saved or
\* expires meanwhile: within the depth limit unless the walk is full, and by
\* chainId without limit.
THEOREM SteadyChainsAreComplete == Spec => []SteadyChainIsComplete
<1>1. QueryTypeOK /\ WalkBounds /\ SiblingsInv /\ LevelsInv => SteadyChainIsComplete
  <2> SUFFICES ASSUME QueryTypeOK, WalkBounds, SiblingsInv, LevelsInv, phase = "done"
               PROVE  /\ Within(steady) \subseteq Chain \/ Len(walked) = MaxEvents
                      /\ \A i \in steady : SameChain(i) => i \in Chain
    BY DEF SteadyChainIsComplete
  <2>1. \A i \in steady : SameChain(i) => i \in Chain
    BY DEF SiblingsInv, Chain
  <2>2. ASSUME queue = <<>> PROVE Within(steady) \subseteq Chain
    <3> SUFFICES ASSUME NEW n \in 0..MaxDepth, NEW p \in Paths(steady, n)
                 PROVE  p[n] \in Chain
      BY DEF Within
    <3>1. start \in visited
      BY DEF WalkBounds
    <3> QED BY <2>2, <3>1, NoPathIsLeft DEF Chain
  <2> QED BY <2>1, <2>2 DEF WalkBounds
<1> QED BY <1>1, QueryTypeOKHolds, WalkBoundsHolds, SiblingsInvHolds, LevelsInvHolds, PTL
-----------------------------------------------------------------------------
\* f is the function that FindRootCause's recursion describes, up to round n.
Rounds(events, n, f) ==
    f = [k \in 0..n |-> IF k = 0 THEN NoCause
                        ELSE Consider(events[Len(events) + 1 - k], f[k - 1])]

LEMMA RoundsSomewhere ==
    ASSUME NEW events, Len(events) \in Nat
    PROVE  \E f : Rounds(events, Len(events), f)
<1> DEFINE Bad == {n \in Nat : ~\E f : Rounds(events, n, f)}
<1>1. SUFFICES ASSUME Bad # {} PROVE FALSE
  OBVIOUS
<1>2. PICK n \in Bad : \A m \in Bad : n <= m
  <2>1. Bad \subseteq Nat
    OBVIOUS
  <2> HIDE DEF Bad
  <2> QED BY <1>1, <2>1, LeastThereIs
<1>3. n \in Nat /\ \A m \in Bad : n <= m
  BY <1>2
<1>4. n # 0
  <2>1. Rounds(events, 0, [k \in 0..0 |-> NoCause])
    BY DEF Rounds
  <2> QED BY <2>1, <1>2
<1>5. n - 1 \in Nat /\ n - 1 \notin Bad
  BY <1>3, <1>4
<1>6. PICK f : Rounds(events, n - 1, f)
  BY <1>5
<1> DEFINE last == Consider(events[Len(events) + 1 - n], f[n - 1])
           g == [k \in 0..n |-> IF k = n THEN last ELSE f[k]]
<1>7. \A k \in 0..n : g[k] = IF k = 0 THEN NoCause
                             ELSE Consider(events[Len(events) + 1 - k], g[k - 1])
  <2> SUFFICES ASSUME NEW k \in 0..n
               PROVE  g[k] = IF k = 0 THEN NoCause
                             ELSE Consider(events[Len(events) + 1 - k], g[k - 1])
    OBVIOUS
  <2>1. CASE k = n
    <3>1. k # 0 /\ g[k - 1] = f[k - 1] /\ g[k] = last
      BY <1>3, <1>4, <2>1
    <3> QED BY <2>1, <3>1
  <2>2. CASE k # n
    <3>1. k \in 0..n - 1 /\ g[k] = f[k] /\ (k # 0 => g[k - 1] = f[k - 1])
      BY <1>3, <1>4, <2>2
    <3>2. f[k] = IF k = 0 THEN NoCause
                 ELSE Consider(events[Len(events) + 1 - k], f[k - 1])
      BY <1>6, <3>1 DEF Rounds
    <3> QED BY <3>1, <3>2
  <2> QED BY <2>1, <2>2
<1>8. Rounds(events, n, g)
  <2>1. DOMAIN g = 0..n /\ g = [k \in 0..n |-> g[k]]
    OBVIOUS
  <2> HIDE DEF g
  <2> QED BY <1>7, <2>1 DEF Rounds
<1> QED BY <1>2, <1>8

LEMMA RootCauseIsLastRound ==
    ASSUME NEW events, Len(events) \in Nat
    PROVE  \E f : /\ Rounds(events, Len(events), f)
                  /\ FindRootCause(events) =
                       IF f[Len(events)].merged # {} THEN f[Len(events)].merged
                       ELSE f[Len(events)].fallback
<1> DEFINE f == CHOOSE f : Rounds(events, Len(events), f)
<1>1. Rounds(events, Len(events), f)
  BY RoundsSomewhere
<1>2. FindRootCause(events) = IF f[Len(events)].merged # {} THEN f[Len(events)].merged
                              ELSE f[Len(events)].fallback
  BY DEF FindRootCause, Rounds
<1> QED BY <1>1, <1>2

\* The places from "from" on of the events of a kind that carry a commit.
Candidates(events, from, kind) ==
    {i \in from..Len(events) :
       universe[events[i]].kind = kind /\ universe[events[i]].commit}

\* The event in "chosen", if any, has the last of the places, which are none
\* if there is no event.
LastOf(events, places, chosen) ==
    /\ chosen = {} => places = {}
    /\ \A x \in chosen :
         \E i \in places : x = events[i] /\ \A j \in places : j =< i

\* What the loop has settled once it has come down to the place "from".
Settled(events, from, cause) ==
    /\ cause = [merged |-> cause.merged, fallback |-> cause.fallback]
    /\ LastOf(events, Candidates(events, from, "change"), cause.merged)
    /\ cause.merged = {} =>
         LastOf(events, Candidates(events, from, "deployment"), cause.fallback)

LEMMA ConsiderSettles ==
    ASSUME NEW events, Len(events) \in Nat, NEW i \in 1..Len(events), NEW cause,
           Settled(events, i + 1, cause)
    PROVE  Settled(events, i, Consider(events[i], cause))
<1> DEFINE x == events[i]
           e == universe[x]
           new == Consider(x, cause)
           Of(kind) == Candidates(events, i, kind)
           Old(kind) == Candidates(events, i + 1, kind)
<1>1. ASSUME NEW kind
      PROVE  /\ Old(kind) \subseteq Of(kind) /\ \A j \in Of(kind) : j \in Old(kind) \/ j = i
             /\ i \in Of(kind) <=> e.kind = kind /\ e.commit
             /\ \A j \in Of(kind) : j \in Nat
             /\ \A j \in Old(kind) : i =< j
  BY DEF Candidates
<1>2. cause = [merged |-> cause.merged, fallback |-> cause.fallback]
  BY DEF Settled
<1>3. "change" # "deployment"
  OBVIOUS
<1> HIDE DEF Of, Old, e, x
\* A place ahead of those that were looked at does not become the last of them.
<1>4. ASSUME NEW kind, NEW chosen, LastOf(events, Old(kind), chosen),
             chosen # {} \/ i \notin Of(kind)
      PROVE  LastOf(events, Of(kind), chosen)
  <2>1. chosen = {} => Of(kind) = {}
    BY <1>1, <1>4 DEF LastOf
  <2>2. ASSUME NEW y \in chosen
        PROVE  \E k \in Of(kind) : y = events[k] /\ \A j \in Of(kind) : j =< k
    <3>1. PICK k \in Old(kind) : y = events[k] /\ \A j \in Old(kind) : j =< k
      BY <1>4 DEF LastOf
    <3> QED BY <1>1, <3>1
  <2> QED BY <2>1, <2>2 DEF LastOf
\* The first to be found is the last of the places.
<1>5. ASSUME NEW kind, LastOf(events, Old(kind), {}), i \in Of(kind)
      PROVE  LastOf(events, Of(kind), {x})
  <2>1. Of(kind) = {i}
    BY <1>1, <1>5 DEF LastOf
  <2> QED BY <1>1, <2>1 DEF LastOf, x
<1>6. CASE cause.merged # {} \/ ~e.commit
  <2>1. new = cause
    BY <1>6 DEF Consider, e
  <2>2. LastOf(events, Of("change"), cause.merged)
    BY <1>1, <1>4, <1>6 DEF Settled, Old
  <2>3. cause.merged = {} => LastOf(events, Of("deployment"), cause.fallback)
    BY <1>1, <1>4, <1>6 DEF Settled, Old
  <2> QED BY <1>2, <2>1, <2>2, <2>3 DEF Settled, Of, x
<1>7. CASE cause.merged = {} /\ e.commit /\ e.kind = "change"
  <2>1. new = [cause EXCEPT !.merged = {x}]
    BY <1>7 DEF Consider, e
  <2>2. new = [merged |-> {x}, fallback |-> cause.fallback]
    BY <1>2, <2>1
  <2>3. LastOf(events, Of("change"), {x})
    BY <1>1, <1>5, <1>7 DEF Settled, Old
  <2> HIDE DEF new
  <2> QED BY <2>2, <2>3 DEF Settled, Of, new, x
<1>8. CASE cause.merged = {} /\ e.commit /\ e.kind = "deployment" /\ cause.fallback = {}
  <2>1. new = [cause EXCEPT !.fallback = {x}]
    BY <1>3, <1>8 DEF Consider, e
  <2>2. new = [merged |-> {}, fallback |-> {x}]
    BY <1>2, <1>8, <2>1
  <2>3. LastOf(events, Of("deployment"), {x})
    BY <1>1, <1>5, <1>8 DEF Settled, Old
  <2>4. LastOf(events, Of("change"), {})
    BY <1>1, <1>3, <1>4, <1>8 DEF Settled, Old
  <2> QED BY <2>2, <2>3, <2>4 DEF Settled, Of, x
<1>9. CASE /\ cause.merged = {} /\ e.commit /\ e.kind # "change"
           /\ e.kind = "deployment" => cause.fallback # {}
  <2>1. new = cause
    BY <1>9 DEF Consider, e
  <2>2. LastOf(events, Of("change"), cause.merged)
    BY <1>1, <1>4, <1>9 DEF Settled, Old
  <2>3. LastOf(events, Of("deployment"), cause.fallback)
    BY <1>1, <1>4, <1>9 DEF Settled, Old
  <2> QED BY <1>2, <2>1, <2>2, <2>3 DEF Settled, Of, x
<1> QED BY <1>6, <1>7, <1>8, <1>9

\* The loop settles on the last candidates of all the places.
LEMMA LoopSettles ==
    ASSUME NEW events, Len(events) \in Nat, NEW f, Rounds(events, Len(events), f)
    PROVE  Settled(events, 1, f[Len(events)])
<1> DEFINE l == Len(events)
           Bad == {k \in 0..l : ~Settled(events, l + 1 - k, f[k])}
<1>1. \A k \in 0..l : f[k] = IF k = 0 THEN NoCause ELSE Consider(events[l + 1 - k], f[k - 1])
  BY DEF Rounds
<1>2. Settled(events, l + 1 - 0, f[0])
  <2>1. f[0] = NoCause
    BY <1>1
  <2>2. \A kind : Candidates(events, l + 1 - 0, kind) = {}
    BY DEF Candidates
  <2>3. LastOf(events, {}, {})
    BY DEF LastOf
  <2>4. f[0].merged = {} /\ f[0].fallback = {} /\ f[0] = [merged |-> {}, fallback |-> {}]
    BY <2>1 DEF NoCause
  <2> QED BY <2>2, <2>3, <2>4, Zenon DEF Settled
<1>3. Bad = {}
  <2> SUFFICES ASSUME Bad # {} PROVE FALSE
    OBVIOUS
  <2>1. PICK k \in Bad : \A m \in Bad : k <= m
    <3>1. Bad \subseteq Nat
      OBVIOUS
    <3> HIDE DEF Bad
    <3> QED BY <3>1, LeastThereIs
  <2>2. k \in 0..l /\ k # 0 /\ k - 1 \in 0..l /\ k - 1 \notin Bad
    BY <1>2, <2>1
  <2>3. Settled(events, l + 1 - (k - 1), f[k - 1])
    BY <2>2
  <2>4. l + 1 - k \in 1..l /\ (l + 1 - k) + 1 = l + 1 - (k - 1)
    BY <2>2
  <2>5. Settled(events, l + 1 - k, Consider(events[l + 1 - k], f[k - 1]))
    BY <2>3, <2>4, ConsiderSettles
  <2>6. f[k] = Consider(events[l + 1 - k], f[k - 1])
    BY <1>1, <2>2
  <2> QED BY <2>1, <2>5, <2>6
<1>4. Settled(events, l + 1 - l, f[l]) /\ l + 1 - l = 1
  BY <1>3
<1> QED BY <1>4

\* The chain has finitely many events, and their order is a total one.
LEMMA SiblingsAreFinite == Spec => []IsFiniteSet(siblings)
<1>1. Init => IsFiniteSet(siblings)
  BY FS_EmptySet DEF Init
<1>2. ASSUME IsFiniteSet(siblings), [Next]_vars PROVE IsFiniteSet(siblings)'
  <2>1. siblings' = siblings \/ \E id \in Ids : siblings' = siblings \union {id}
    BY <1>2 DEF Next, QueryNext, StartFound, StartUnknown, Walk, WalkPast, WalkEnds,
      ReadIndex, MembersRead, ReadMember, StoreFails, Saved, Expired, vars
  <2> QED BY <1>2, <2>1, FS_AddElement
<1> QED BY <1>1, <1>2, PTL DEF Spec

LEMMA OrderedChain ==
    ASSUME QueryTypeOK, IsFiniteSet(siblings)
    PROVE  /\ Len(Ordered) \in Nat /\ ToSet(Ordered) = Chain
           /\ DOMAIN Ordered = 1..Len(Ordered)
           /\ \A i, j \in 1..Len(Ordered) : i =< j =>
                universe[Ordered[j]].time =< universe[Ordered[i]].time
<1> DEFINE before == {p \in Chain \X Chain : Newer(p[1], p[2])}
           n == Cardinality(Chain)
           s == InOrder(Chain, before)
<1>1. Chain \subseteq Ids
  BY Counts DEF Chain, ToSet, QueryTypeOK
<1>2. \A i \in Chain : i \in Nat /\ universe[i].time \in Nat
  BY <1>1, QueryAssumption DEF QueryTypeOK
<1>3. IsFiniteSet(Chain)
  <2>1. walked \in Surjection(1..Len(walked), ToSet(walked))
    <3>1. walked \in Seq(Ids) /\ walked \in [1..Len(walked) -> Ids]
      BY LenProperties DEF QueryTypeOK
    <3>2. DOMAIN walked = 1..Len(walked)
      BY Counts
    <3>3. walked \in [1..Len(walked) -> ToSet(walked)]
      BY <3>1, <3>2 DEF ToSet
    <3>4. \A i \in ToSet(walked) : \E k \in 1..Len(walked) : walked[k] = i
      BY <3>2 DEF ToSet
    <3> QED BY <3>3, <3>4 DEF Surjection
  <2>2. IsFiniteSet(1..Len(walked))
    BY Counts, FS_Interval
  <2>3. IsFiniteSet(ToSet(walked))
    BY <2>1, <2>2, FS_Surjection
  <2> QED BY <2>3, FS_Union DEF Chain
<1>4. \A i, j \in Chain : <<i, j>> \in before <=> Newer(i, j)
  OBVIOUS
<1>5. IsTotal(Chain, before)
  <2> HIDE DEF before
  <2> QED BY <1>2, <1>4 DEF IsTotal, Newer
<1>6. /\ n \in Nat /\ s \in [1..n -> Chain]
      /\ \A i \in Chain : \E k \in 1..n : s[k] = i
      /\ \A k, m \in 1..n : k < m => <<s[k], s[m]>> \in before
  <2> HIDE DEF before
  <2> QED BY <1>3, <1>5, InOrderSorts
<1>7. Ordered = s
  BY DEF Ordered
<1> HIDE DEF before, s, n
<1>8. Len(s) = n /\ DOMAIN s = 1..n /\ ToSet(s) = Chain
  <2>1. Len(s) = n
    BY <1>6
  <2> QED BY <1>6, <2>1 DEF ToSet
<1>9. ASSUME NEW k \in 1..n, NEW m \in 1..n, k =< m
      PROVE  universe[s[m]].time =< universe[s[k]].time
  <2>1. s[k] \in Chain /\ s[m] \in Chain
    BY <1>6
  <2>2. CASE k = m
    BY <1>2, <2>1, <2>2
  <2>3. CASE k < m
    <3>1. Newer(s[k], s[m])
      BY <1>4, <1>6, <2>1, <2>3
    <3> QED BY <1>2, <2>1, <3>1 DEF Newer
  <2> QED BY <1>6, <1>9, <2>2, <2>3
<1> QED BY <1>6, <1>7, <1>8, <1>9

\* Whatever the chain, the loop's root cause is its earliest change.merged with
\* a commit, or failing that its earliest deployment with one (correlator.go:93).
THEOREM RootCausesAreEarliest == Spec => []RootCauseIsEarliest
<1>1. ASSUME QueryTypeOK, IsFiniteSet(siblings) PROVE RootCauseIsEarliest
  <2> DEFINE events == Ordered
             l == Len(events)
             of(kind) == {i \in Chain : universe[i].kind = kind /\ universe[i].commit}
             places(kind) == Candidates(events, 1, kind)
             candidates == IF of("change") # {} THEN of("change") ELSE of("deployment")
             cause == FindRootCause(events)
  <2>1. /\ l \in Nat /\ DOMAIN events = 1..l /\ ToSet(events) = Chain
        /\ \A i, j \in 1..l : i =< j => universe[events[j]].time =< universe[events[i]].time
    BY <1>1, OrderedChain
  <2>2. PICK f : /\ Rounds(events, l, f)
                 /\ cause = IF f[l].merged # {} THEN f[l].merged ELSE f[l].fallback
    BY <2>1, RootCauseIsLastRound
  <2>3. Settled(events, 1, f[l])
    BY <2>1, <2>2, LoopSettles
  <2>4. ASSUME NEW kind PROVE of(kind) = {events[i] : i \in places(kind)}
    BY <2>1 DEF Candidates, ToSet
  <2>5. \A kind : \A i \in places(kind) : i \in 1..l
    BY DEF Candidates
  <2> HIDE DEF events, places, of
  <2>6. ASSUME NEW kind, NEW chosen, LastOf(events, places(kind), chosen)
        PROVE  /\ chosen = {} <=> of(kind) = {}
               /\ \A i \in chosen, j \in of(kind) :
                    i \in of(kind) /\ universe[i].time =< universe[j].time
    <3>1. chosen = {} <=> of(kind) = {}
      BY <2>4, <2>6 DEF LastOf
    <3>2. ASSUME NEW x \in chosen, NEW y \in of(kind)
          PROVE  x \in of(kind) /\ universe[x].time =< universe[y].time
      <4>1. PICK i \in places(kind) : x = events[i] /\ \A j \in places(kind) : j =< i
        BY <2>6 DEF LastOf
      <4>2. PICK j \in places(kind) : y = events[j]
        BY <2>4
      <4>3. j =< i /\ i \in 1..l /\ j \in 1..l
        BY <2>5, <4>1
      <4> QED BY <2>1, <2>4, <4>1, <4>2, <4>3
    <3> QED BY <3>1, <3>2
  <2>7. LastOf(events, places("change"), f[l].merged)
    BY <2>3 DEF Settled, places
  <2>8. f[l].merged = {} => LastOf(events, places("deployment"), f[l].fallback)
    BY <2>3 DEF Settled, places
  <2> HIDE DEF cause
  <2>9. /\ cause = {} <=> candidates = {}
        /\ \A i \in cause, j \in candidates :
             i \in candidates /\ universe[i].time =< universe[j].time
    <3>1. CASE f[l].merged # {}
      BY <2>2, <2>6, <2>7, <3>1
    <3>2. CASE f[l].merged = {}
      BY <2>2, <2>6, <2>7, <2>8, <3>2
    <3> QED BY <3>1, <3>2
  <2> QED BY <2>9 DEF RootCauseIsEarliest, cause, of, events
<1> QED BY <1>1, QueryTypeOKHolds, SiblingsAreFinite, PTL
=============================================================================
