-------------------------- MODULE BridgeProcessProofs --------------------------
(***************************************************************************)
(* The safety properties of BridgeProcess for any input, any number of     *)
(* requests and any shutdown deadline.                                     *)
(***************************************************************************)
EXTENDS BridgeProcess, TLAPS

Ending == {"flushing", "closing", "exiting", "exited"}

\* What has been loaded, from an input that is still there until the store is
\* opened.
SetupInv ==
    /\ main = "config" => input \in Inputs /\ config = None
    /\ main = "store" => input \in Inputs /\ config = Load(input) /\ config # None
    /\ main \in {"tracer", "serving", "draining", "flushing", "closing", "exiting"}
         => config # None
    /\ store = "none" => lifetime = None

\* The listener is open only while main serves.
ListenerInv ==
    /\ main \in {"config", "store", "tracer"} => server = "off"
    /\ server = "open" => main = "serving"
    /\ server \in {"off", "starting"} => \A c \in Conns : request[c] = "none"

\* The store is closed last, and only then do requests fail.
StoreInv ==
    /\ main \in {"tracer", "serving", "draining", "flushing", "closing"} =>
         store = "open"
    /\ main \in {"config", "store"} => store = "none"
    /\ main = "exiting" => store = "closed"
    /\ \A c \in Conns : request[c] \in {"failed", "cut"} =>
                          main \in {"exiting", "exited"}

\* main goes past the drain for one of three reasons.
DrainInv ==
    /\ drained => main \in Ending
    /\ main \in Ending => server \in {"off", "failed"} \/ drained \/ ~OnTime

\* Spans of answered requests that have not been lost.
Kept ==
    \A c \in Conns \ troubled :
      request[c] = "answered" /\ tracer # "disabled" => span[c] \in {"queued", "exported"}

\* A span that was never in trouble is kept while it waits for its export, and
\* a process that has drained waits for it.
TracerInv ==
    /\ main \in {"config", "store", "tracer"} => tracer = "disabled"
    /\ main \in {"serving", "draining"} => tracer \in {"disabled", "on"}
    /\ tracer = "stopping" => main = "flushing"
    /\ main = "flushing" => tracer # "down"
    /\ collector = "down" => Queued \subseteq troubled
    /\ (tracer = "on" \/ drained) /\ main # "exited" => Kept
    /\ main \in {"closing", "exiting", "exited"} /\ drained /\ OnTime =>
         \A c \in Conns \ troubled :
           request[c] = "answered" /\ tracer # "disabled" => span[c] = "exported"

IInv ==
    /\ TypeOK
    /\ SetupInv
    /\ ListenerInv
    /\ StoreInv
    /\ DrainInv
    /\ TracerInv
    /\ DrainIsComplete
    /\ CutOnlyLate
    /\ StoreIsReleased
-----------------------------------------------------------------------------
\* What loads is valid, with each setting taken from the highest layer.
LEMMA LoadsValid ==
    ASSUME NEW i, Load(i) # None
    PROVE  Valid(Load(i))
BY DEF Load

LEMMA LoadsHighest ==
    ASSUME NEW i, Load(i) # None, NEW key \in DOMAIN Default
    PROVE  Load(i)[key] = Setting(i, key)
<1>1. Load(i) = Overlay(i.env, Overlay(Contents(i), Default))
  BY DEF Load
<1>2. DOMAIN Overlay(Contents(i), Default) = DOMAIN Default
  BY DEF Overlay
<1> QED BY <1>1, <1>2 DEF Overlay, Setting

LEMMA SecondsAreNumbers ==
    ASSUME NEW i \in Inputs, Load(i) # None
    PROVE  /\ Load(i).redisTTL = Setting(i, "redisTTL")
           /\ Load(i).redisTTL \in Nat
<1> DEFINE n == Setting(i, "redisTTL")
<1>1. Load(i).redisTTL = n /\ Load(i).redisTTL >= 0
  <2>1. "redisTTL" \in DOMAIN Default
    BY DEF Default
  <2>2. Load(i)["redisTTL"] = n
    BY <2>1, LoadsHighest
  <2>3. Valid(Load(i))
    BY LoadsValid
  <2>4. Load(i).redisTTL >= 0
    BY <2>3 DEF Valid
  <2> QED BY <2>2, <2>4
<1>2. /\ Contents(i) \notin Broken
      /\ \A k \in DOMAIN i.env : i.env[k] # Malformed
  BY DEF Load
<1>3. n \in Int
  <2>1. CASE "redisTTL" \in DOMAIN i.env
    <3>1. n = i.env["redisTTL"] /\ n # Malformed
      BY <1>2, <2>1 DEF Setting
    <3> QED BY <2>1, <3>1, ConfigurationAssumption
  <2>2. CASE "redisTTL" \notin DOMAIN i.env /\ "redisTTL" \in DOMAIN Contents(i)
    <3>1. n = Contents(i)["redisTTL"]
      BY <2>2 DEF Setting
    <3> QED BY <1>2, <2>2, <3>1, ConfigurationAssumption
  <2>3. CASE "redisTTL" \notin DOMAIN i.env /\ "redisTTL" \notin DOMAIN Contents(i)
    BY <2>3 DEF Setting, Default
  <2> QED BY <2>1, <2>2, <2>3
<1> QED BY <1>1, <1>3

\* A product in range is not wrapped.
LEMMA WrapsOnlyBeyond ==
    ASSUME NEW d \in Nat, d < Limit
    PROVE  Wrapped(d) = d
<1>1. Limit \in Nat /\ d + Limit \in 0..(2 * Limit - 1) /\ 2 * Limit > 0
  BY ConfigurationAssumption
<1>2. \A n, m \in Nat : m > 0 /\ n < m => n % m = n
  OBVIOUS
<1>3. (d + Limit) % (2 * Limit) = d + Limit
  BY <1>1, <1>2
<1> QED BY <1>1, <1>3 DEF Wrapped

LEMMA LifetimesAreNumbers ==
    ASSUME NEW i \in Inputs, Load(i) # None
    PROVE  /\ TTL(Load(i)) \in Int
           /\ Representable(Load(i).redisTTL) =>
                TTL(Load(i)) = Load(i).redisTTL * Second /\ TTL(Load(i)) \in Nat
<1> DEFINE d == Load(i).redisTTL * Second
<1>1. d \in Nat /\ Limit \in Nat \ {0} /\ Second \in Nat
  BY SecondsAreNumbers, ConfigurationAssumption
<1>2. TTL(Load(i)) = Wrapped(d)
  BY DEF TTL
<1>3. Wrapped(d) \in Int
  BY <1>1 DEF Wrapped
<1>4. Representable(Load(i).redisTTL) => Wrapped(d) = d
  BY <1>1, WrapsOnlyBeyond DEF Representable
<1> QED BY <1>1, <1>2, <1>3, <1>4

LEMMA InitEstablishesIInv == Init => IInv
<1> SUFFICES ASSUME Init PROVE IInv
  OBVIOUS
<1> USE DEF Init
<1>1. TypeOK
  <2>1. signalled \in BOOLEAN /\ drained \in BOOLEAN
    BY Zenon
  <2>2. elapsed \in 0..ShutdownTimeout
    BY ProcessAssumption
  <2>3. request \in [Conns -> {"none", "active", "answered", "failed", "cut"}]
    OBVIOUS
  <2>4. span \in [Conns -> {"none", "queued", "exported", "lost"}]
    OBVIOUS
  <2>5. input \in Inputs \cup {None} /\ config = None /\ lifetime \in Int \cup {None}
    OBVIOUS
  <2>6. killed \in BOOLEAN /\ troubled \subseteq Conns
    BY Zenon
  <2> QED BY <2>1, <2>2, <2>3, <2>4, <2>5, <2>6 DEF TypeOK
<1>2. ListenerInv /\ StoreInv /\ SetupInv /\ StoreIsReleased
  BY DEF ListenerInv, StoreInv, SetupInv, StoreIsReleased
<1>3. DrainInv /\ TracerInv
  BY DEF DrainInv, TracerInv, Kept, Queued, Ending
<1>4. DrainIsComplete /\ CutOnlyLate
  BY DEF DrainIsComplete, CutOnlyLate
<1> QED BY <1>1, <1>2, <1>3, <1>4 DEF IInv

LEMMA NextKeepsIInv == IInv /\ [Next]_vars => IInv'
<1> SUFFICES ASSUME IInv, [Next]_vars PROVE IInv'
  OBVIOUS
<1> USE ProcessAssumption
    DEF IInv, TypeOK, SetupInv, StoreIsReleased, setupVars, ListenerInv, StoreInv, DrainInv, TracerInv, Ending,
        DrainIsComplete, CutOnlyLate, OnTime, reqVars, histVars, Kept, Queued
<1>1. CASE LoadConfig
  BY <1>1, LoadsValid DEF LoadConfig
<1>2. ASSUME NEW ok \in BOOLEAN, OpenStore(ok) PROVE IInv'
  BY <1>2, LifetimesAreNumbers DEF OpenStore
<1>3. ASSUME NEW ok \in BOOLEAN, StartTracing(ok) PROVE IInv'
  BY <1>3 DEF StartTracing
<1>4. ASSUME NEW ok \in BOOLEAN, Listen(ok) PROVE IInv'
  BY <1>4 DEF Listen
<1>5. CASE ListenerFails
  BY <1>5 DEF ListenerFails
<1>6. CASE Signal
  BY <1>6 DEF Signal
<1>7. CASE KilledBySignal
  BY <1>7 DEF KilledBySignal, End
<1>8. CASE ServerFailed
  BY <1>8 DEF ServerFailed
<1>9. CASE Shutdown
  BY <1>9 DEF Shutdown
<1>10. CASE Drained
  BY <1>10 DEF Drained, Active
<1>11. CASE DrainTimesOut
  BY <1>11 DEF DrainTimesOut
<1>12. CASE StopTracer
  BY <1>12 DEF StopTracer
<1>13. CASE Flushed
  BY <1>13 DEF Flushed
<1>14. CASE FlushTimesOut
  BY <1>14 DEF FlushTimesOut
<1>15. CASE NothingToFlush
  BY <1>15 DEF NothingToFlush
<1>16. CASE CloseStore
  BY <1>16 DEF CloseStore
<1>17. CASE Exit
  BY <1>17 DEF Exit, End
<1>18. ASSUME NEW c \in Conns, Arrive(c) PROVE IInv'
  BY <1>18 DEF Arrive
<1>19. ASSUME NEW c \in Conns, Finish(c) PROVE IInv'
  BY <1>19 DEF Finish
<1>20. ASSUME NEW c \in Conns, Export(c) PROVE IInv'
  BY <1>20 DEF Export
<1>21. ASSUME NEW c \in Conns, ExportFails(c) PROVE IInv'
  BY <1>21 DEF ExportFails
<1>22. CASE CollectorChanges
  BY <1>22 DEF CollectorChanges
<1>23. CASE Tick
  BY <1>23 DEF Tick
<1>24. CASE UNCHANGED vars
  BY <1>24 DEF vars
<1> QED
  BY <1>1, <1>2, <1>3, <1>4, <1>5, <1>6, <1>7, <1>8, <1>9, <1>10, <1>11,
     <1>12, <1>13, <1>14, <1>15, <1>16, <1>17, <1>18, <1>19, <1>20, <1>21,
     <1>22, <1>23, <1>24
  DEF Next, MainNext

LEMMA Invariance == Spec => []IInv
BY InitEstablishesIInv, NextKeepsIInv, PTL DEF Spec

\* Every variable of the process keeps its type.
THEOREM TypeCorrect == Spec => []TypeOK
<1>1. IInv => TypeOK
  BY DEF IInv
<1> QED BY <1>1, Invariance, PTL

\* A drain that succeeded has answered every request from an open store, for
\* any number of requests (main.go:142).
THEOREM DrainsCompletely == Spec => []DrainIsComplete
<1>1. IInv => DrainIsComplete
  BY DEF IInv
<1> QED BY <1>1, Invariance, PTL

\* After Shutdown no request is cut off before the deadline, whatever the
\* deadline (main.go:139-144).
THEOREM OnlyTheDeadlineCuts == Spec => []CutOnlyLate
<1>1. IInv => CutOnlyLate
  BY DEF IInv
<1> QED BY <1>1, Invariance, PTL

\* A process that drained and flushed in time exported the span of every
\* answered request (main.go:142-149), except those that met a full queue or a
\* collector that took no spans, for any number of requests and queue size.
THEOREM SpansAreTraced == Spec => []TracedToTheEnd
<1>1. IInv => TracedToTheEnd
  BY DEF IInv, TracerInv, TracedToTheEnd
<1> QED BY <1>1, Invariance, PTL

\* Whatever ends run, signalled or not, its store is closed, unless a signal
\* killed the process on the spot (main.go:83-91).
THEOREM StoreIsAlwaysReleased == Spec => []StoreIsReleased
<1>1. IInv => StoreIsReleased
  BY DEF IInv
<1> QED BY <1>1, Invariance, PTL

\* Redis is given the seconds of the highest layer that sets redisTTL, exactly,
\* for every input whose seconds a time.Duration can hold (config.go:167).
THEOREM LifetimeIsExact == Spec => LifetimeAsConfigured
<1> DEFINE Exact == store = "none" /\ lifetime' # None =>
                      LET seconds == Setting(input, "redisTTL") IN
                      Representable(seconds) =>
                        lifetime' >= 0 /\ lifetime' = seconds * Second
<1>1. ASSUME IInv, [Next]_vars, store = "none", lifetime' # None PROVE Exact
  <2>1. lifetime = None
    BY <1>1 DEF IInv, SetupInv
  <2>2. PICK ok \in BOOLEAN : OpenStore(ok)
    BY <1>1, <2>1
    DEF Next, MainNext, LoadConfig, StartTracing, Listen, ListenerFails, Signal,
        KilledBySignal, ServerFailed, Shutdown, Drained, DrainTimesOut, StopTracer,
        Flushed, FlushTimesOut, NothingToFlush, CloseStore, Exit, Arrive, Finish, Export, ExportFails,
        CollectorChanges, Tick, vars, setupVars
  <2>3. /\ input \in Inputs /\ config = Load(input) /\ config # None
        /\ lifetime' = TTL(config)
    BY <1>1, <2>1, <2>2 DEF OpenStore, IInv, SetupInv
  <2>4. Setting(input, "redisTTL") = config.redisTTL
    BY <2>3, SecondsAreNumbers
  <2> QED BY <2>3, <2>4, LifetimesAreNumbers
<1>2. IInv /\ [Next]_vars => [Exact]_vars
  BY <1>1
<1> QED BY <1>2, Invariance, PTL DEF Spec, LifetimeAsConfigured
================================================================================
