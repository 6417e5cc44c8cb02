--------------------------- MODULE MCWebhookGate ---------------------------
(* An instance of WebhookGate for TLC. *)
EXTENDS WebhookGate, TLC

GateSymmetry == Permutations(Ip) \cup Permutations(Delivery) \cup Permutations(Repo) \cup Permutations(Conn)
=============================================================================
