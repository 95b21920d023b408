-------------------------- MODULE MCWebhookDelivery --------------------------
(* Instance of WebhookDelivery: two deliveries under two threads.          *)
EXTENDS WebhookDelivery

CONSTANTS d1, d2

\* One may be tried twice, the other once.
RetryCounts == [d \in Deliveries |-> IF d = d1 THEN 2 ELSE 1]

=============================================================================
