------------------------- MODULE MCWebhookDelivery -------------------------
(* A delivery of an endpoint and its resends, for TLC. *)
EXTENDS WebhookDelivery
CONSTANTS d1
=============================================================================
