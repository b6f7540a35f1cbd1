------------------------- MODULE MCWebhookRecord -------------------------
(* The instance of WebhookRecord that TLC checks. *)
EXTENDS WebhookRecord, TLC

Interchangeable == Permutations(Workers)
=============================================================================
