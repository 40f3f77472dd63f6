-------------------------- MODULE MCLookupTraffic --------------------------
(* LookupTraffic, and with it CachedResolver, with a few goroutines that    *)
(* start spans of one service.                                              *)
EXTENDS LookupTraffic

Outcomes == Answers \union {Failure}
=============================================================================
