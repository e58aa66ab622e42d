-------------------------- MODULE MCWebhookDelivery --------------------------
(* TLC instances of WebhookDelivery.                                       *)
EXTENDS WebhookDelivery

CONSTANTS d1, d2, w1, w2, s1, s2

\* A schedule of one retry; webhook-retry-schedule.ts has five.
OneDelay == <<1>>
=============================================================================
