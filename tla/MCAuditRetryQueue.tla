-------------------------- MODULE MCAuditRetryQueue --------------------------
(* Instance of AuditRetryQueue: two gateways, a queue shorter than the     *)
(* number of events, two attempts.  One gateway serves all requests.       *)
EXTENDS AuditRetryQueue

CONSTANTS g1, g2, e1, e2, none

Home == [e \in Events |-> g1]

=============================================================================
