--------------------------- MODULE MCLiveMonitor ---------------------------
(* Instances of LiveMonitor for TLC.                                        *)
EXTENDS LiveMonitor
CONSTANTS x1, x2, x3, w1, w2, c1
=============================================================================
