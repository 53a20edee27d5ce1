------------------------- MODULE MCWebhookDelivery -------------------------
(* Instances of WebhookDelivery for TLC.                                   *)
EXTENDS WebhookDelivery, TLC

CONSTANTS d1, d2, d3, e1, e2, w1, w2, r1, r2

\* One event and the retry of its dead letter, two workers.
TwoDeliveries == {d1, d2}
OneEntry == {e1}
TwoWorkers == {w1, w2}
OneRequest == {r1}

\* Two owners' clicks on the same entry.
ThreeDeliveries == {d1, d2, d3}
OneWorker == {w1}
TwoRequests == {r1, r2}
=============================================================================
