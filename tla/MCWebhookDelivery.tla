------------------------- MODULE MCWebhookDelivery -------------------------
(* WebhookDelivery for TLC: one domain, one type, its wildcard. *)
EXTENDS WebhookDelivery

MCDomainOf == [t \in EventTypes |-> "d"]
MCDeliveries == Consumers \X (1..MaxAppends)

=============================================================================
