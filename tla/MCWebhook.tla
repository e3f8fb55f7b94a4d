----------------------------- MODULE MCWebhook -----------------------------
(* Values of Webhook's constants for TLC: one hook takes everything, the   *)
(* other only cancellations.                                               *)
EXTENDS Webhook
CONSTANTS h1, h2

MCFilter == [h \in Hooks |-> IF h = h1 THEN {} ELSE {"canceled"}]
=============================================================================
