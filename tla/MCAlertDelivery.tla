---------------------------- MODULE MCAlertDelivery ---------------------------
(* Instances of AlertDelivery for TLC.                                     *)
EXTENDS AlertDelivery, TLC

CONSTANTS a1, w1, w2

OneAlert == {a1}
OneWorker == {w1}
TwoWorkers == {w1, w2}
=============================================================================
