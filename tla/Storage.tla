------------------------------- MODULE Storage -------------------------------
(***************************************************************************)
(* internal/storage: what the Storage interface promises the rest of the   *)
(* bridge, which is what the memory backend does under its mutex: every    *)
(* save replaces one record at once, every read sees the last save, and    *)
(* the three ways to read, by slot, by id and by chainId, never disagree.  *)
(* Records may be forgotten: Redis expires them, a restart empties memory. *)
(*                                                                         *)
(* A call whose context has ended, or that is given nil, changes nothing.  *)
(***************************************************************************)
CONSTANTS Ids, Chains, Slots, Events, None

VARIABLES deployed,  \* slot -> the deployment a lookup returns
          recorded,  \* id -> the event a lookup returns
          found      \* chainId -> the events a chain lookup returns

EventsByChain(records, c) ==
    {records[i] : i \in {j \in Ids : records[j] # None /\ records[j].chain = c}}

ChainsOf(records) == [c \in Chains |-> EventsByChain(records, c)]

Init ==
    /\ deployed = [s \in Slots |-> None]
    /\ recorded = [i \in Ids |-> None]
    /\ found = ChainsOf(recorded)

SaveDeployment(e) ==
    /\ e.slot # None
    /\ deployed' = [deployed EXCEPT ![e.slot] = e]
    /\ UNCHANGED <<recorded, found>>

SaveEvent(e) ==
    /\ recorded' = [recorded EXCEPT ![e.id] = e]
    /\ found' = ChainsOf(recorded')
    /\ UNCHANGED deployed

Forget(slots, ids) ==
    /\ deployed' = [s \in Slots |-> IF s \in slots THEN None ELSE deployed[s]]
    /\ recorded' = [i \in Ids |-> IF i \in ids THEN None ELSE recorded[i]]
    /\ found' = ChainsOf(recorded')

Next ==
    \/ \E e \in Events : SaveDeployment(e) \/ SaveEvent(e)
    \/ \E slots \in SUBSET Slots, ids \in SUBSET Ids : Forget(slots, ids)

Spec == Init /\ [][Next]_<<deployed, recorded, found>>
=============================================================================
