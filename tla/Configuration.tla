---------------------------- MODULE Configuration ----------------------------
(***************************************************************************)
(* internal/config and the loading of it by cmd/bridge: the three layers   *)
(* of settings, what Validate refuses, and the lifetime that redisTTL      *)
(* becomes.  A layer is a function of the keys it sets: an environment     *)
(* variable that is empty and a YAML key that is absent set nothing.       *)
(***************************************************************************)
EXTENDS Integers

CONSTANTS Inputs,       \* what the process may be started with
          DefaultPath,  \* configs/config.yaml
          Second,       \* time.Second, in units of time.Duration
          Limit,        \* 2^63: a time.Duration is at least -Limit, below Limit
          None,         \* no flag, no variable, no file, no configuration
          Malformed,    \* text that YAML, Atoi or ParseBool rejects
          Unreadable    \* a file that exists and cannot be read

Default == [host |-> "0.0.0.0", port |-> 8080, type |-> "memory", redisURL |-> "",
            redisTTL |-> 86400, enabled |-> FALSE, endpoint |-> "localhost:4317",
            insecure |-> TRUE, serviceName |-> "cdevents-otel-bridge",
            level |-> "info", format |-> "json"]

Nothing == [k \in {} |-> None]
Broken == {None, Malformed, Unreadable}

\* loadConfig: the flag, then BRIDGE_CONFIG, then the default if it is there.
Path(i) ==
    CASE i.flag # None -> i.flag
      [] i.flag = None /\ i.variable # None -> i.variable
      [] OTHER -> IF i.files[DefaultPath] = None THEN None ELSE DefaultPath

Contents(i) == IF Path(i) = None THEN Nothing ELSE i.files[Path(i)]

ASSUME ConfigurationAssumption ==
    /\ Second \in Nat \ {0} /\ Limit \in Nat /\ Limit > 86400 * Second
    /\ \A i \in Inputs :
         /\ "redisTTL" \in DOMAIN i.env => i.env["redisTTL"] \in Int \cup {Malformed}
         /\ Contents(i) \notin Broken /\ "redisTTL" \in DOMAIN Contents(i) =>
              Contents(i)["redisTTL"] \in Int

Overlay(layer, under) ==
    [k \in DOMAIN under |-> IF k \in DOMAIN layer THEN layer[k] ELSE under[k]]

Bindable(c) == c.port > 0 /\ c.port =< 65535
Storable(c) == /\ c.type \in {"memory", "redis"}
               /\ c.type = "redis" => c.redisURL # ""
Loggable(c) == /\ c.level \in {"debug", "info", "warn", "error"}
               /\ c.format \in {"json", "text"}
Exportable(c) == c.enabled => c.endpoint # "" /\ c.serviceName # ""

\* Mutant: a negative redisTTL is let through.
ValidWithoutTTL(c) == Bindable(c) /\ Storable(c) /\ Loggable(c) /\ Exportable(c)

Valid(c) ==
    Bindable(c) /\ Storable(c) /\ c.redisTTL >= 0 /\ Loggable(c) /\ Exportable(c)

\* Mutant: the result is not validated.
LoadUnchecked(i) ==
    IF \/ Contents(i) \in Broken
       \/ \E k \in DOMAIN i.env : i.env[k] = Malformed
    THEN None ELSE Overlay(i.env, Overlay(Contents(i), Default))

\* The file over the defaults, the environment over both; None if a layer
\* cannot be read or the result is invalid.
Load(i) ==
    LET c == Overlay(i.env, Overlay(Contents(i), Default)) IN
    IF \/ Contents(i) \in Broken
       \/ \E k \in DOMAIN i.env : i.env[k] = Malformed
       \/ ~Valid(c)
    THEN None ELSE c

\* The product of two 64-bit integers.
Wrapped(d) == ((d + Limit) % (2 * Limit)) - Limit

TTL(c) == Wrapped(c.redisTTL * Second)
-----------------------------------------------------------------------------
\* docs/configuration.md, key by key: the value of the highest layer with it.
Setting(i, key) ==
    CASE key \in DOMAIN i.env -> i.env[key]
      [] key \notin DOMAIN i.env /\ key \in DOMAIN Contents(i) -> Contents(i)[key]
      [] OTHER -> Default[key]

\* Lifetimes that a time.Duration can hold.
Representable(seconds) == seconds * Second < Limit
=============================================================================
