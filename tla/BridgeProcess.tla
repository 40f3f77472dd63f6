----------------------------- MODULE BridgeProcess -----------------------------
(***************************************************************************)
(* cmd/bridge and internal/api/server.go: one run of the bridge's process. *)
(* main loads the configuration, connects the store, sets up tracing and   *)
(* starts the server on a goroutine, then waits for the server to fail or  *)
(* for a signal.  After a signal it drains the server and flushes the      *)
(* tracer under one deadline, and its deferred call closes the store while *)
(* requests that outlived the deadline are still running.                  *)
(***************************************************************************)
EXTENDS Configuration, FiniteSets

CONSTANTS Conns,            \* requests that clients send
          ShutdownTimeout,  \* shutdownTimeout, in ticks
          QueueSize         \* spans the batch processor queues (2048 by default)

ASSUME ProcessAssumption == ShutdownTimeout \in Nat \ {0}

VARIABLES input,      \* what is there to be read: files, environment, flags
          config,     \* the configuration loaded
          lifetime,   \* what NewRedisStorage is given for every key
          main,       \* where run() is
          server,     \* the listener and the goroutine that serves it
          signalled,  \* SIGINT or SIGTERM has been received
          elapsed,    \* time since the shutdown deadline was armed
          store,
          tracer,     \* the tracer provider
          collector,  \* whether the OTLP collector takes spans
          request,    \* connection -> its request
          span,       \* connection -> the span of its request
          drained,    \* server.Shutdown returned without an error (history)
          killed,     \* a signal ended the process on the spot (history)
          troubled    \* requests whose span met a full queue or waited for
                      \* export while the collector took none (history)

reqVars == <<request, span, troubled>>
setupVars == <<input, config, lifetime>>
histVars == <<drained, killed>>
vars == <<setupVars, main, server, signalled, elapsed, store, tracer, collector,
          reqVars, histVars>>

TypeOK ==
    /\ input \in Inputs \cup {None}
    /\ config # None => Valid(config)
    /\ lifetime \in Int \cup {None}
    /\ main \in {"config", "store", "tracer", "serving", "draining", "flushing",
                 "closing", "exiting", "exited"}
    /\ server \in {"off", "starting", "open", "closed", "failed"}
    /\ signalled \in BOOLEAN
    /\ elapsed \in 0..ShutdownTimeout
    /\ store \in {"none", "open", "closed"}
    /\ tracer \in {"disabled", "on", "stopping", "down"}
    /\ collector \in {"up", "down"}
    /\ request \in [Conns -> {"none", "active", "answered", "failed", "cut"}]
    /\ span \in [Conns -> {"none", "queued", "exported", "lost"}]
    /\ drained \in BOOLEAN /\ killed \in BOOLEAN
    /\ troubled \subseteq Conns

Init ==
    /\ main = "config" /\ server = "off"
    /\ signalled = FALSE /\ elapsed = 0
    /\ input \in Inputs /\ config = None /\ lifetime = None
    /\ store = "none" /\ tracer = "disabled" /\ collector \in {"up", "down"}
    /\ request = [c \in Conns |-> "none"]
    /\ span = [c \in Conns |-> "none"]
    /\ drained = FALSE /\ killed = FALSE /\ troubled = {}
-----------------------------------------------------------------------------
Running == main # "exited"
Active == {c \in Conns : request[c] = "active"}
Queued == {c \in Conns : span[c] = "queued"}
OnTime == elapsed < ShutdownTimeout

\* A missing file, a bad value or an invalid setting ends the process.
LoadConfig ==
    /\ main = "config"
    /\ config' = Load(input)
    /\ main' = IF config' = None THEN "exited" ELSE "store"
    /\ UNCHANGED <<input, lifetime, server, signalled, elapsed, store, tracer,
                   collector, reqVars, histVars>>

\* newStorage; NewRedisStorage closes its client when Redis cannot be reached,
\* and the memory backend cannot fail.  Nothing of the input is read again.
OpenStore(ok) ==
    /\ main = "store"
    /\ ok \/ config.type = "redis"
    /\ IF ok THEN /\ store' = "open"
                  /\ lifetime' = IF config.type = "redis" THEN TTL(config) ELSE None
                  /\ main' = "tracer"
             ELSE UNCHANGED <<store, lifetime>> /\ main' = "exited"
    /\ input' = None
    /\ UNCHANGED <<config, server, signalled, elapsed, tracer, collector, reqVars,
                   histVars>>

\* NewTracerProvider, if tracing is enabled; then the server's goroutine starts.
StartTracing(ok) ==
    /\ main = "tracer"
    /\ ok \/ config.enabled
    /\ IF ok THEN /\ tracer' = IF config.enabled THEN "on" ELSE tracer
                  /\ server' = "starting"
                  /\ main' = "serving"
             ELSE UNCHANGED <<tracer, server>> /\ main' = "closing"
    /\ UNCHANGED <<setupVars, signalled, elapsed, store, collector, reqVars, histVars>>

\* ListenAndServe: refused once Shutdown has been called, or the address is
\* taken, or the listener is open.
Listen(ok) ==
    /\ Running
    /\ server = "starting"
    /\ server' = IF main # "serving" THEN "closed" ELSE IF ok THEN "open" ELSE "failed"
    /\ UNCHANGED <<setupVars, main, signalled, elapsed, store, tracer, collector, reqVars, histVars>>

ListenerFails ==
    /\ Running
    /\ server = "open"
    /\ server' = "failed"
    /\ UNCHANGED <<setupVars, main, signalled, elapsed, store, tracer, collector, reqVars, histVars>>

\* NotifyContext is in place: the signal is noted, a second one is ignored.
Signal ==
    /\ ~signalled
    /\ main \in {"tracer", "serving"}
    /\ signalled' = TRUE
    /\ UNCHANGED <<setupVars, main, server, elapsed, store, tracer, collector, reqVars, histVars>>

\* The end of the process and with it of every goroutine.
End ==
    /\ main' = "exited"
    /\ request' = [c \in Conns |-> IF request[c] = "active" THEN "cut" ELSE request[c]]
    /\ span' = [c \in Conns |-> IF span[c] = "queued" THEN "lost" ELSE span[c]]

\* Before NotifyContext, and after the deferred stop(), a signal kills.
KilledBySignal ==
    /\ main \in {"config", "store", "closing", "exiting"}
    /\ signalled' = TRUE /\ killed' = TRUE
    /\ End
    /\ UNCHANGED <<setupVars, server, elapsed, store, tracer, collector, troubled, drained>>

\* The select's first case: run returns the error, nothing is drained.
ServerFailed ==
    /\ main = "serving"
    /\ server = "failed"
    /\ main' = "closing"
    /\ UNCHANGED <<setupVars, server, signalled, elapsed, store, tracer, collector, reqVars, histVars>>

\* Mutant: the listener stays open until the process ends.
ShutdownKeepsListening ==
    /\ main = "serving"
    /\ signalled
    /\ main' = "draining"
    /\ UNCHANGED <<setupVars, server, signalled, elapsed, store, tracer, collector, reqVars, histVars>>

\* The second case: the deadline is armed and Shutdown closes the listener.
Shutdown ==
    /\ main = "serving"
    /\ signalled
    /\ main' = "draining"
    /\ server' = IF server = "open" THEN "closed" ELSE server
    /\ UNCHANGED <<setupVars, signalled, elapsed, store, tracer, collector, reqVars, histVars>>

\* Mutant: run ends when the server has drained, the tracer is left as it is.
DrainedNotFlushed ==
    /\ main = "draining"
    /\ Active = {}
    /\ drained' = TRUE
    /\ main' = "closing"
    /\ UNCHANGED <<setupVars, server, signalled, elapsed, store, tracer, collector, reqVars, killed>>

\* Mutant: Close in place of Shutdown, which waits for nobody.
CloseServer ==
    /\ main = "draining"
    /\ main' = "flushing"
    /\ UNCHANGED <<setupVars, server, signalled, elapsed, store, tracer, collector, reqVars, histVars>>

\* Shutdown returns when no connection is active.
Drained ==
    /\ main = "draining"
    /\ Active = {}
    /\ drained' = TRUE
    /\ main' = "flushing"
    /\ UNCHANGED <<setupVars, server, signalled, elapsed, store, tracer, collector, reqVars, killed>>

\* Mutant: Shutdown is given a context without the deadline.
DrainWaits ==
    /\ main = "draining"
    /\ Active = {}
    /\ ~OnTime
    /\ main' = "flushing"
    /\ UNCHANGED <<setupVars, server, signalled, elapsed, store, tracer, collector, reqVars, histVars>>

\* Mutant: the deadline's error ends the process in place of a log line.
DrainTimesOutFatally ==
    /\ main = "draining"
    /\ ~OnTime
    /\ main' = "exited"
    /\ UNCHANGED <<setupVars, server, signalled, elapsed, store, tracer, collector, reqVars, histVars>>

\* Shutdown returns the deadline's error, which is logged.
DrainTimesOut ==
    /\ main = "draining"
    /\ ~OnTime
    /\ main' = "flushing"
    /\ UNCHANGED <<setupVars, server, signalled, elapsed, store, tracer, collector, reqVars, histVars>>

\* tracerProvider.Shutdown stops the batch processor, which takes no span any
\* more and goes through its queue.
StopTracer ==
    /\ main = "flushing"
    /\ tracer = "on"
    /\ tracer' = "stopping"
    /\ UNCHANGED <<setupVars, main, server, signalled, elapsed, store, collector, reqVars, histVars>>

\* Its queue is empty: every span has been exported or given up.
Flushed ==
    /\ main = "flushing"
    /\ tracer = "stopping"
    /\ Queued = {}
    /\ tracer' = "down"
    /\ main' = "closing"
    /\ UNCHANGED <<setupVars, server, signalled, elapsed, store, collector, reqVars, histVars>>

\* What is left of the same deadline has passed: the processor goes on, but
\* main no longer waits for it.
FlushTimesOut ==
    /\ main = "flushing"
    /\ tracer = "stopping"
    /\ ~OnTime
    /\ tracer' = "down"
    /\ main' = "closing"
    /\ UNCHANGED <<setupVars, server, signalled, elapsed, store, collector, reqVars, histVars>>

NothingToFlush ==
    /\ main = "flushing"
    /\ tracer = "disabled"
    /\ main' = "closing"
    /\ UNCHANGED <<setupVars, server, signalled, elapsed, store, tracer, collector, reqVars, histVars>>

\* The deferred calls, then the end of main.
CloseStore ==
    /\ main = "closing"
    /\ store' = "closed"
    /\ main' = "exiting"
    /\ UNCHANGED <<setupVars, server, signalled, elapsed, tracer, collector, reqVars, histVars>>

Exit ==
    /\ main = "exiting"
    /\ End
    /\ UNCHANGED <<setupVars, server, signalled, elapsed, store, tracer, collector, troubled, histVars>>

MainNext ==
    \/ LoadConfig
    \/ \E ok \in BOOLEAN : OpenStore(ok) \/ StartTracing(ok)
    \/ ServerFailed \/ Shutdown \/ Drained \/ DrainTimesOut
    \/ StopTracer \/ Flushed \/ FlushTimesOut
    \/ NothingToFlush \/ CloseStore \/ Exit

\* A request is accepted while the listener is open.
Arrive(c) ==
    /\ Running
    /\ server = "open"
    /\ request[c] = "none"
    /\ request' = [request EXCEPT ![c] = "active"]
    /\ UNCHANGED <<setupVars, main, server, signalled, elapsed, store, tracer, collector, span, troubled, histVars>>

\* The handler has used the store and answered; its span ends with it.  The
\* batch processor queues the span, unless it has been stopped or its queue is
\* full.
Finish(c) ==
    /\ Running
    /\ request[c] = "active"
    /\ request' = [request EXCEPT ![c] = IF store = "open" THEN "answered" ELSE "failed"]
    /\ LET full == Cardinality(Queued) >= QueueSize IN
       /\ \E fate \in {"none", "queued", "lost"} :
            /\ fate = "none" <=> tracer = "disabled"
            /\ fate = "queued" => tracer = "on"
            /\ fate = "lost" => tracer # "on" \/ full
            /\ span' = [span EXCEPT ![c] = fate]
       /\ troubled' = IF tracer = "on" /\ (full \/ collector = "down")
                       THEN troubled \cup {c} ELSE troubled
    /\ UNCHANGED <<setupVars, main, server, signalled, elapsed, store, tracer, collector, histVars>>

\* The batch processor exports a span on its own schedule, after retries or not.
Export(c) ==
    /\ Running
    /\ collector = "up"
    /\ span[c] = "queued"
    /\ span' = [span EXCEPT ![c] = "exported"]
    /\ UNCHANGED <<setupVars, main, server, signalled, elapsed, store, tracer, collector, request, troubled, histVars>>

\* An export that ends in an error, at once or after its retries and its own
\* timeout, drops the span.
ExportFails(c) ==
    /\ Running
    /\ collector = "down"
    /\ span[c] = "queued"
    /\ span' = [span EXCEPT ![c] = "lost"]
    /\ UNCHANGED <<setupVars, main, server, signalled, elapsed, store, tracer, collector, request, troubled, histVars>>

\* "down" is any time in which exports fail or outlast the exporter's timeout.
CollectorChanges ==
    /\ Running
    /\ collector' = IF collector = "up" THEN "down" ELSE "up"
    /\ troubled' = IF collector' = "down" THEN troubled \cup Queued ELSE troubled
    /\ UNCHANGED <<setupVars, main, server, signalled, elapsed, store, tracer, request, span, histVars>>

\* Time passes under the deadline, up to its expiry.
Tick ==
    /\ main \in {"draining", "flushing"}
    /\ OnTime
    /\ elapsed' = elapsed + 1
    /\ UNCHANGED <<setupVars, main, server, signalled, store, tracer, collector, reqVars, histVars>>

Next ==
    \/ MainNext
    \/ \E ok \in BOOLEAN : Listen(ok)
    \/ ListenerFails \/ Signal \/ KilledBySignal \/ CollectorChanges \/ Tick
    \/ \E c \in Conns : Arrive(c) \/ Finish(c) \/ Export(c) \/ ExportFails(c)

Spec == Init /\ [][Next]_vars

\* main's steps are those of one goroutine that blocks only where they are
\* disabled; time passes.  Handlers are owed nothing: a client may be slow.
FairSpec == Spec /\ WF_vars(MainNext) /\ WF_vars(Tick)
-----------------------------------------------------------------------------
\* When server.Shutdown reported that it had drained (main.go:142), every
\* request was answered from an open store, and none arrives between the drain
\* and the end of the process.
DrainIsComplete ==
    drained => \A c \in Conns : request[c] \in {"none", "answered"}

\* When the process ends after a drain and a flush within the deadline
\* (main.go:142-149), the span of every answered request has been exported,
\* whenever it was queued: only a full queue, or a collector that took no spans
\* while this one waited, costs a span.
TracedToTheEnd ==
    main = "exited" /\ drained /\ OnTime =>
      \A c \in Conns \ troubled :
        request[c] = "answered" /\ tracer # "disabled" => span[c] = "exported"

\* After a signal (main.go:135) the process ends, whatever its clients, the
\* collector and the listener do.
StopsAfterSignal == signalled ~> main = "exited"

\* Once Shutdown has closed the listener (main.go:142), a request is cut off or
\* finds the store closed only when the shutdown deadline has passed.
CutOnlyLate ==
    server = "closed" /\ OnTime =>
      \A c \in Conns : request[c] \notin {"failed", "cut"}

\* docs/configuration.md: redisTTL is the "Seconds every deployment, event and
\* chain key lives in Redis"; "Each layer overrides the one before it".  The
\* store is opened with exactly the seconds of the highest layer that sets
\* them, never a negative time, as far as a time.Duration can hold them.
LifetimeAsConfigured ==
    [][store = "none" /\ lifetime' # None =>
         LET seconds == Setting(input, "redisTTL") IN
         Representable(seconds) =>
           lifetime' >= 0 /\ lifetime' = seconds * Second]_vars

\* Whatever ends run, a tracer that cannot be set up, a listener that fails, a
\* drain in time or one that runs late, with its flush (main.go:83): the store
\* has been closed, unless a signal outside the reach of NotifyContext killed
\* the process on the spot.
StoreIsReleased ==
    main = "exited" /\ store = "open" => killed
=============================================================================
