--------------------------- MODULE MCWebhookWorker ---------------------------
(* Small instances of the webhook workers for TLC. *)
EXTENDS WebhookWorker, TLC

WorkerSymmetry == Permutations(Events) \cup Permutations(Workers)
=============================================================================
