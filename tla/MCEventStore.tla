---------------------------- MODULE MCEventStore ----------------------------
(* EventStore for TLC: lists that hold every event (one domain and one       *)
(* correlation) and lists that hold some (two aggregates, or none).          *)
EXTENDS EventStore

MCDomainOf == [t \in EventTypes |-> "requests"]

=============================================================================
