---------------------------- MODULE MCBridgeProcess ----------------------------
(* BridgeProcess with a few requests, started in every way that main tells    *)
(* apart: where the file comes from, and which layer sets or breaks what.     *)
EXTENDS BridgeProcess, TLC

CONSTANTS defaultFile, otherFile

\* 104857 seconds are the most that Limit allows here.
Layers == {Nothing, [redisTTL |-> 0], [redisTTL |-> 104857], [redisTTL |-> 104858],
           [type |-> "redis", redisURL |-> "redis", redisTTL |-> 3600],
           [enabled |-> TRUE, endpoint |-> ""], [port |-> 0], [level |-> "loud"]}

Environments == {Nothing, [type |-> "redis"], [redisTTL |-> Malformed],
                 [type |-> "redis", redisURL |-> "redis", redisTTL |-> -1],
                 [type |-> "redis", redisURL |-> "redis", enabled |-> TRUE],
                 [enabled |-> TRUE, endpoint |-> "collector"]}

Starts ==
    [flag : {None, otherFile}, variable : {None}, env : Environments,
     files : {otherFile :> f @@ defaultFile :> g :
                f \in Layers, g \in {None, [redisTTL |-> -1]}}]
    \cup
    [flag : {None, defaultFile}, variable : {None, otherFile}, env : {Nothing},
     files : {otherFile :> f @@ defaultFile :> g :
                f, g \in {None, Malformed, Unreadable, [redisTTL |-> 7]}}]
=============================================================================
