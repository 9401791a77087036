---------------------------- MODULE MCSafeDeal ----------------------------
(* Constants of the SafeDeal run. *)
EXTENDS SafeDeal

CONSTANTS w1, w2

MCWorkers == {w1, w2}
MCAmounts == {0, 2}
MCCheckoutKeys == {"k1"}
MCVerdicts == {"SUCCEEDED", "DECLINED"}
=============================================================================
