------------------------- MODULE MCPullConsumption -------------------------
(* PullConsumption for TLC: type "e.C" in domain "e", the others in "d". *)
EXTENDS PullConsumption

MCDomainOf == [t \in EventTypes |-> IF t = "e.C" THEN "e" ELSE "d"]
MCDeliveries == Consumers \X (1..MaxAppends)

\* A client of two types of two domains, the later one first.
PollTwo == [c \in Consumers |-> <<"e.C", "d.A">>]
\* A client of one type out of two.
PollOne == [c \in Consumers |-> <<"d.B">>]
\* A client of the wildcard "d.*".
PollWildcard == [c \in Consumers |-> <<"d">>]

=============================================================================
